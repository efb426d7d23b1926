---------------------------- MODULE EventEncoding ----------------------------
(***************************************************************************)
(* Events on their way from an EventSender to an EventClient               *)
(* (src/src/EventHandler.cpp).  The attributes of an event go one after    *)
(* another into one blob.  How each is written is decided by checkSchema() *)
(* when the sender is made, and how it is read by deserializeEvent() when  *)
(* an event comes: both go by the schema, each in its own way, and what is *)
(* written wrongly shifts all that follows.                                *)
(*                                                                         *)
(* A number of any width is one number of the blob, as is a character; the *)
(* end of a string is 0.  A cell is a number, or the characters of a text. *)
(***************************************************************************)
EXTENDS Integers, Sequences, SequencesExt

CONSTANTS
  MaxFields,   \* bound: fields of an event
  ByteValues,  \* values of a byte of a count, 256 in the code
  Values       \* for each type the cells of scalars, and for each other form all of them

(* Types of one size; the literals, of which a symbol may be given as a     *)
(* string; ANY; and arrays.                                                 *)
TypeNames == <<"fixed", "symbol", "string", "blob", "any", "array">>
FormNames == <<"scalar", "vector", "other">>
Literals == {"symbol", "string", "blob"}

Fields ==
  {f \in [type : Range(TypeNames), form : Range(FormNames)] :
     /\ f.form = "scalar" => f.type \in {"fixed"} \cup Literals
     /\ f.form = "other" => f.type \in {"fixed", "any"}}

(* What the constants must be: the characters of a text are not 0.          *)
EncodingAssumption ==
  /\ MaxFields \in Nat \ {0}
  /\ ByteValues \in Nat \ {0, 1}
  /\ \A f \in Fields : \A cells \in Values[f] : f.form = "scalar" => Len(cells) = 1
  /\ \A f \in Fields : f.type \in Literals =>
       \A cells \in Values[f] : \A i \in DOMAIN cells : 0 \notin Range(cells[i])

VARIABLES
  schema,      \* the fields of the event
  stage,       \* "ready", "sent", "endless", "received" or "failed"
  event,       \* the attributes that were sent
  blob,        \* the blob in the row of the server's table
  got          \* what the handler gets

vars == <<schema, stage, event, blob, got>>

Init ==
  /\ schema \in UNION {[1 .. n -> Fields] : n \in 1 .. MaxFields}
  /\ stage = "ready"
  /\ event = <<>>
  /\ blob = <<>>
  /\ got = <<>>

-----------------------------------------------------------------------------
(* The sender *)

(* A type of one size, which a symbol has in a column but not here.         *)
Sized(type) == type = "fixed"

SerializerOf(f) ==
  IF f.form = "other" \/ f.type \in {"array", "any"} THEN "object"
  ELSE IF Sized(f.type) THEN (IF f.form = "scalar" THEN "cell" ELSE "array")
  ELSE IF f.form = "scalar" THEN (IF f.type = "blob" THEN "counted" ELSE "text")
  ELSE "object"

Attributes(f) == {[type |-> f.type, form |-> f.form, cells |-> c] : c \in Values[f]}

(* An attribute is of its field's type and form; a string that is given for *)
(* a symbol may have any form, and as an object only that of the field.     *)
Accepted(f) ==
  Attributes(f) \cup
    IF f.type # "symbol" THEN {}
    ELSE UNION {Attributes(g) : g \in {h \in Fields :
           h.type = "string" /\ (SerializerOf(f) = "object" => h.form = f.form)}}

(* How many bytes the count of an array takes: those of the first width     *)
(* whose largest count is enough.  The largest of four bytes is kept in an  *)
(* int, as -1, and for wider ones the loop does not get anywhere.  Mutant:  *)
(* one byte too few for as many cells as a byte has values.                 *)
ValuesOf(width) == IF width = 4 THEN -1 ELSE ByteValues^width
Largest(width) == IF width = 4 THEN -1 ELSE ByteValues^width - 1
Enough(n) == {w \in {1, 2, 4} : n <= Largest(w)}
Endless(f, a) == SerializerOf(f) = "array" /\ Len(a.cells) > 0 /\ Enough(Len(a.cells)) = {}
WidthOf(n) == CHOOSE w \in Enough(n) : \A v \in Enough(n) : w <= v

CountBytes(n, width) == [i \in 1 .. width |-> (n \div ByteValues^(i - 1)) % ByteValues]
Text(chars) == Append(chars, 0)
Number(name, names) == CHOOSE k \in DOMAIN names : names[k] = name
Flag(a) == 10 * Number(a.form, FormNames) + Number(a.type, TypeNames)

ArrayBytes(cells) ==
  IF cells = <<>> THEN <<0>>
  ELSE LET width == WidthOf(Len(cells))
       IN  <<1, width, 0>> \o CountBytes(Len(cells), width) \o cells

ObjectBytes(a) ==
  <<Flag(a), Len(a.cells)>> \o
    (IF a.type \in Literals THEN FlattenSeq([i \in DOMAIN a.cells |-> Text(a.cells[i])]) ELSE a.cells)

(* A string vector that is given for a symbol goes as its first string; one *)
(* of none has none to give.                                                *)
Serialized(f, a) ==
  CASE SerializerOf(f) = "cell" -> <<a.cells[1]>>
    [] SerializerOf(f) = "array" -> ArrayBytes(a.cells)
    [] SerializerOf(f) = "text" -> Text(a.cells[1])
    [] SerializerOf(f) = "counted" -> <<Len(a.cells[1])>> \o a.cells[1]
    [] SerializerOf(f) = "object" -> ObjectBytes(a)

SendEvent ==
  /\ stage = "ready"
  /\ event' \in {e \in [DOMAIN schema -> UNION {Accepted(schema[i]) : i \in DOMAIN schema}] :
                   \A i \in DOMAIN schema : e[i] \in Accepted(schema[i])
                                            /\ (SerializerOf(schema[i]) = "text" => e[i].cells # <<>>)}
  /\ IF \E i \in DOMAIN schema : Endless(schema[i], event'[i])
       THEN stage' = "endless" /\ UNCHANGED blob
       ELSE /\ stage' = "sent"
            /\ blob' = FlattenSeq([i \in DOMAIN schema |-> Serialized(schema[i], event'[i])])
  /\ UNCHANGED <<schema, got>>

-----------------------------------------------------------------------------
(* The client: what is read, and what of the blob is left                   *)

Failed == [ok |-> FALSE, form |-> "other", cells |-> <<>>, rest |-> <<>>]
ReadAs(form, cells, rest) == [ok |-> TRUE, form |-> form, cells |-> cells, rest |-> rest]

ReadNumbers(form, n, s) ==
  IF Len(s) < n THEN Failed ELSE ReadAs(form, SubSeq(s, 1, n), SubSeq(s, n + 1, Len(s)))

ReadTexts(form, n, s) ==
  LET texts[k \in 0 .. n] ==
        IF k = 0 THEN ReadAs(form, <<>>, s)
        ELSE LET before == texts[k - 1]
                 ends == {i \in DOMAIN before.rest : before.rest[i] = 0}
             IN  IF ~before.ok \/ ends = {} THEN Failed
                 ELSE LET end == CHOOSE i \in ends : \A j \in ends : i <= j
                      IN  ReadAs(form, Append(before.cells, SubSeq(before.rest, 1, end - 1)),
                                 SubSeq(before.rest, end + 1, Len(before.rest)))
  IN  texts[n]

ReadCounted(s) ==
  IF s = <<>> \/ Len(s) < 1 + s[1] THEN Failed
  ELSE ReadAs("scalar", <<SubSeq(s, 2, 1 + s[1])>>, SubSeq(s, 2 + s[1], Len(s)))

(* deserializeScalar() *)
ReadScalar(type, s) ==
  IF type = "blob" THEN ReadCounted(s)
  ELSE IF type \in Literals THEN ReadTexts("scalar", 1, s)
  ELSE ReadNumbers("scalar", 1, s)

(* deserializeFastArray(): rows, of which there is one, the width of the    *)
(* counts, a byte that is not used, the count and the cells.                *)
ReadArray(s) ==
  IF s = <<>> THEN Failed
  ELSE IF s[1] = 0 THEN ReadAs("vector", <<>>, Tail(s))
  ELSE IF Len(s) < 3 \/ s[1] # 1 \/ s[2] \notin 1 .. 4 \/ Len(s) < 3 + s[2] THEN Failed
  ELSE LET bytes == SubSeq(s, 4, 3 + s[2])
           n[i \in 0 .. s[2]] == IF i = 0 THEN 0 ELSE n[i - 1] + bytes[i] * ByteValues^(i - 1)
       IN  ReadNumbers("vector", n[s[2]], SubSeq(s, 4 + s[2], Len(s)))

(* deserializeAny() *)
ReadObject(f, s) ==
  IF Len(s) < 2 \/ s[1] \div 10 \notin DOMAIN FormNames \/ s[1] % 10 \notin DOMAIN TypeNames
    THEN Failed
  ELSE LET form == FormNames[s[1] \div 10]
           type == TypeNames[s[1] % 10]
           body == SubSeq(s, 3, Len(s))
       IN  IF f.type # "any" /\ form # f.form THEN Failed
           ELSE IF type \in Literals THEN ReadTexts(form, s[2], body)
           ELSE ReadNumbers(form, s[2], body)

ReadField(f, s) ==
  IF f.form = "scalar" THEN ReadScalar(f.type, s)
  ELSE IF f.form = "vector" /\ f.type \notin {"array"} \cup Literals THEN ReadArray(s)
  ELSE ReadObject(f, s)

Reading ==
  LET read[i \in 0 .. Len(schema)] ==
        IF i = 0 THEN [ok |-> TRUE, fields |-> <<>>, rest |-> blob]
        ELSE LET field == ReadField(schema[i], read[i - 1].rest)
             IN  [ok |-> read[i - 1].ok /\ field.ok,
                  fields |-> Append(read[i - 1].fields, [form |-> field.form, cells |-> field.cells]),
                  rest |-> field.rest]
  IN  read[Len(schema)]

ReceiveEvent ==
  /\ stage = "sent"
  /\ IF Reading.ok THEN stage' = "received" /\ got' = Reading.fields
                   ELSE stage' = "failed" /\ UNCHANGED got
  /\ UNCHANGED <<schema, event, blob>>

-----------------------------------------------------------------------------
(* The specification *)

Next == SendEvent \/ ReceiveEvent

Spec == Init /\ [][Next]_vars

-----------------------------------------------------------------------------
(* Properties *)

(* A vector of type ANY is written as an object and read as an array; of a  *)
(* vector of strings for a symbol only the first string is written.         *)
Confused ==
  \E i \in DOMAIN schema :
    \/ schema[i] = [type |-> "any", form |-> "vector"]
    \/ schema[i] = [type |-> "symbol", form |-> "scalar"] /\ event[i].form # "scalar"

(* The handler of the client gets the attributes that were given to         *)
(* sendEvent(), whatever stands beside them; and sendEvent() comes to an    *)
(* end unless a vector has more cells than two bytes count.  The code does  *)
(* not keep this for events with a field as in Confused.                    *)
AttributesArrive ==
  /\ stage \in {"received", "failed"} =>
       \/ Confused
       \/ stage = "received"
          /\ got = [i \in DOMAIN event |-> [form |-> event[i].form, cells |-> event[i].cells]]
  /\ stage = "endless" => \E i \in DOMAIN event : Len(event[i].cells) >= ByteValues^2
=============================================================================
