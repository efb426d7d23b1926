---------------------------- MODULE MCDataForms ----------------------------
(***************************************************************************)
(* The data forms for TLC: a table by itself, a column of arrays, a column *)
(* that is compressed, the attributes of an event, and the column of       *)
(* partitions that an appender casts and shares out.  They share nothing,  *)
(* so that a behaviour is one of any: of the others it shows an initial    *)
(* state.                                                                  *)
(***************************************************************************)
EXTENDS BasicTable, TLC

CONSTANTS n1, n2, n3, MaxArrays, MaxCells

VARIABLES
  part,        \* "table", "array", "delta", "event" or "column"
  index, value, count, exact,
  width, data,
  schema, stage, event, blob, got,
  table, columnType, domain, wide, given, outcome, sent, chunks

arrayVars == <<index, value, count, exact>>
deltaVars == <<width, data>>
eventVars == <<schema, stage, event, blob, got>>
columnVars == <<table, columnType, domain, wide, given, outcome, sent, chunks>>

Array == INSTANCE ArrayMarshall
  WITH Values <- {1, 2}, Null <- 3, MaxRows <- MaxArrays,
       Unit <- 2, CountLimit <- [w \in {1, 2, 4} |-> IF w = 1 THEN 1 ELSE w],
       Rooms <- {8, 9, 13, 16}

(* A type of less than the longest bits, with two values whose difference   *)
(* it does not hold and two whose difference looks like the end, and one of *)
(* all bits.                                                                *)
SomeNumbers ==
  [w \in {6, 8} |-> IF w = 6 THEN {-32, -31, -5, 0, 3, 31}
                    ELSE {-128, -127, -65, -64, 0, 1, 66, 127}]

Column == INSTANCE DeltaOfDelta
  WITH Word <- 8, Widths <- {6, 8}, Numbers <- SomeNumbers, Codes <- <<2, 3, 4, 6, 8>>,
       BlockRows <- 4, Limit <- 6, MaxLength <- 5

(* Numbers that look like an end, a count or a width; vectors around the    *)
(* largest counts of one byte and of two.                                   *)
SomeAttributes ==
  [f \in [type : {"fixed", "symbol", "string", "blob", "any", "array"},
          form : {"scalar", "vector", "other"}] |->
     IF f.type \in {"symbol", "string", "blob"}
       THEN IF f.form = "scalar" THEN { << <<>> >>, << <<1, 2>> >> } ELSE { <<>>, << <<>>, <<2>> >> }
     ELSE IF f.form = "scalar" THEN {<<0>>, <<2>>}
     ELSE IF f = [type |-> "fixed", form |-> "vector"]
       THEN {[i \in 1 .. n |-> i % 3] : n \in 0 .. 4}
     ELSE {<<>>, <<1, 2>>}]

Event == INSTANCE EventEncoding
  WITH MaxFields <- 2, ByteValues <- 2, Values <- SomeAttributes

Casts == INSTANCE TemporalCasts
  WITH HoursPerDay <- 2, MinutesPerHour <- 3, SecondsPerMinute <- 2, MsPerSecond <- 2,
       NsPerMs <- 2, IntBits <- 16, LongBits <- 21

(* Days at the ends of months, around 1970, the leap days of 1972 and 2000, *)
(* one that 1900 has not, and those where an int and a long end; and what   *)
(* is around midnight.                                                      *)
SomeDays ==
  {-25508, -25507, -2731, -32, -31, -1, 0, 31, 58, 59, 789, 2730, 2731, 11016, 22000}

Moments(type, days, offsets) ==
  {n \in {d * Casts!Ratio("DATE", type) + (o % Casts!Ratio("DATE", type)) :
            d \in days, o \in offsets} : Casts!Fits(type, n)}
    \cup {Casts!Null(type)}

Cells(type, days, offsets) ==
  CASE type \in Casts!Instants -> Moments(type, days, offsets)
    [] type \in Casts!TimesOfDay -> Moments(type, {0}, offsets)
    [] type = "MONTH" -> {12 * 1968 + 11, 12 * 1969 + 11, 12 * 1970, Casts!Null(type)}
    [] type \in {"INT", "LONG"} -> (-1 .. 3) \cup {Casts!Null(type)}

SomeColumns ==
  UNION {{[type |-> t, cells |-> <<n>>] : n \in Cells(t, SomeDays, {0, 1, 6})}
           \cup {[type |-> t, cells |-> <<n, m>>] : n, m \in Cells(t, {-1, 31}, {0, 1})}
         : t \in Casts!Temporal \cup {"INT", "LONG"}}

SomeRanges ==
  [t \in {"DATE", "MONTH", "DATEHOUR", "SECOND", "INT"} |->
     CASE t = "DATE" -> <<-1, 0, 31>>
       [] t = "MONTH" -> <<12 * 1969 + 11, 12 * 1970, 12 * 1970 + 1>>
       [] t = "DATEHOUR" -> <<-2, 0, 62, 64>>
       [] t = "SECOND" -> <<0, 6, 12>>
       [] t = "INT" -> <<0, 2, 3>>]

Appender == INSTANCE TableAppenders
  WITH HoursPerDay <- 2, MinutesPerHour <- 3, SecondsPerMinute <- 2, MsPerSecond <- 2,
       NsPerMs <- 2, IntBits <- 16, LongBits <- 21,
       Columns <- SomeColumns, Threads <- 2,
       PartitionTypes <- {"DATE", "MONTH", "DATEHOUR", "SECOND", "INT", "LONG"},
       Buckets <- 3, ValueBuckets <- 8, Ranges <- SomeRanges,
       Lists <- [t \in {"DATE"} |-> <<{-1, 0}, {31}>>]

ASSUME Casts!CastAssumption /\ Appender!AppenderAssumption
ASSUME Array!ArrayAssumption /\ Array!MarshallAssumption /\ Column!DeltaAssumption
ASSUME Event!EncodingAssumption

EitherInit ==
  /\ part \in {"table", "array", "delta", "event", "column"}
  /\ Init /\ (part # "table" => Len(cols) = 1 /\ size = 0)
  /\ Array!Init /\ (part # "array" => count = 0)
  /\ Column!Init /\ (part # "delta" => width = 8)
  /\ Event!Init /\ (part # "event" => schema = <<[type |-> "fixed", form |-> "scalar"]>>)
  /\ \/ part = "column"
     \/ /\ part # "column"
        /\ table = [type |-> "DATE", cells |-> <<0>>]
        /\ columnType = "DATE" /\ domain = [kind |-> "HASH", type |-> "DATE"] /\ wide = FALSE
  /\ Appender!Init

EitherNext ==
  /\ UNCHANGED part
  /\ \/ part = "table" /\ Next /\ UNCHANGED <<arrayVars, deltaVars, eventVars, columnVars>>
     \/ part = "array" /\ Array!Next /\ UNCHANGED <<vars, deltaVars, eventVars, columnVars>>
     \/ part = "delta" /\ Column!Next /\ UNCHANGED <<vars, arrayVars, eventVars, columnVars>>
     \/ part = "event" /\ Event!Next /\ UNCHANGED <<vars, arrayVars, deltaVars, columnVars>>
     \/ part = "column" /\ Appender!Next /\ UNCHANGED <<vars, arrayVars, deltaVars, eventVars>>

EitherSpec == EitherInit /\ [][EitherNext]_<<part, vars, arrayVars, deltaVars, eventVars, columnVars>>

NameSymmetry == Permutations(Names)

(* A column of arrays changes as a sequence of rows.                        *)
ChangesAsRows == Array!ChangesAsRows

(* A part of a column of arrays is a part of its rows, and the column       *)
(* arrives at the other side of a connection; so does one that is           *)
(* compressed by its second differences, and so do the attributes of an     *)
(* event; and the rows of a table go to the threads of their partitions.    *)
ArrivesAsSent ==
  /\ Array!ReadsAsRows /\ Array!ArrivesAsRows
  /\ Column!ArrivesAsValues
  /\ Event!AttributesArrive
  /\ Appender!RowsReachPartitions
=============================================================================
