---------------------------- MODULE MCConnection ----------------------------
(***************************************************************************)
(* A connection for TLC: its calls in a small cluster, and a table on its  *)
(* way over it.  They share nothing here, so that a behaviour is one of    *)
(* either: of the other one it shows an initial state.                     *)
(***************************************************************************)
EXTENDS DBConnection

VARIABLES
  part,        \* "calls" or "table"
  table, pieces, unsent, bytes, broken, held, cursor, capacity, at, rows, column,
  received, decoder, left, blockSize, content, queue, block, text, garbage

transferVars == <<table, pieces, unsent, bytes, broken, held, cursor, capacity, at, rows, column,
                  received, decoder, left, blockSize, content, queue, block, text, garbage>>

AllModes == ModeKinds

(* No strings; strings that end with '\r', are empty, and are cut by a       *)
(* buffer or by the end of a block; a string longer than a block.           *)
Columns ==
  {[compressed |-> c, strings |-> s] :
     c \in BOOLEAN,
     s \in { <<>>, << <<1>>, <<1, 2>>, <<>> >>, << <<1, 1, 1, 1>>, <<1, 1>> >> }}

Transfer == INSTANCE ColumnTransfer
  WITH wire <- bytes, part <- content, Tables <- [1 .. 2 -> Columns],
       MarshallSize <- 4, MaxDecompressed <- 4, FlushThreshold <- 3,
       BufferSize <- 1, Spare <- 2, QueueSize <- 1

ASSUME Transfer!TransferAssumption

EitherInit ==
  /\ part \in {"calls", "table"}
  /\ Init
  /\ Transfer!Init
  /\ part = "calls" => \A k \in {1, 2} : table[k] = [compressed |-> FALSE, strings |-> <<>>]
  /\ part = "table" => mode = CHOOSE m \in Modes : TRUE

InCalls(A) == part = "calls" /\ A /\ UNCHANGED <<part, transferVars>>
InTable(A) == part = "table" /\ A /\ UNCHANGED <<part, vars>>

EitherNext == InCalls(Next) \/ InTable(Transfer!Next)

allVars == <<part, vars, transferVars>>

EitherSpec ==
  /\ EitherInit
  /\ [][EitherNext]_allVars
  /\ WF_allVars(InCalls(ClientStep))
  /\ WF_allVars(InCalls(\E m \in wire : Awaited(m) /\ Execute(m)))
  /\ WF_allVars(InTable(Transfer!Sending))
  /\ WF_allVars(InTable(Transfer!Reading))
  /\ WF_allVars(InTable(Transfer!Decoding))

(* Every call of the application on the connection ends, and so does the     *)
(* reading of a table from it.                                              *)
CallsAndReadingEnd ==
  /\ part = "calls" => CallsEnd
  /\ part = "table" => Transfer!ReadingEnds

(* The columns of a table come as they were sent.                           *)
ColumnsAsSent == Transfer!ColumnsAsSent
=============================================================================
