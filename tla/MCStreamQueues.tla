--------------------------- MODULE MCStreamQueues ---------------------------
(***************************************************************************)
(* The queues between the threads of the streaming clients for TLC: a      *)
(* BlockingQueue by itself, the UDP subscriptions with theirs, and what    *)
(* goes through those of one connection.  They share nothing, so that a    *)
(* behaviour is one of any: of the others it shows an initial state.       *)
(***************************************************************************)
EXTENDS BlockingQueue, UdpStreaming, MessageDelivery

CONSTANTS p1, p2, q1, q2

VARIABLE part   \* "queue", "udp" or "messages"

(* Datagrams of rows around a row that was filtered out, and a schema.      *)
TheStream ==
  << [kind |-> "rows",   offset |-> 0, length |-> 2],
     [kind |-> "schema", offset |-> 2, length |-> 0],
     [kind |-> "beat",   offset |-> 2, length |-> 1],
     [kind |-> "rows",   offset |-> 3, length |-> 1],
     [kind |-> "rows",   offset |-> 4, length |-> 2] >>

TheStarts == {-1, 0, 3}

(* Messages of which an earlier tuple serves a later row, and of which the  *)
(* last is not known.                                                       *)
TheMessages ==
  << [offset |-> 0, rows |-> 2, known |-> TRUE], [offset |-> 2, rows |-> 1, known |-> TRUE],
     [offset |-> 3, rows |-> 1, known |-> FALSE] >>

ASSUME UdpAssumption

EitherInit ==
  /\ part \in {"queue", "udp", "messages"}
  /\ Init
  /\ UdpInit
  /\ DeliveryInit
  /\ part # "messages" => \A t \in Topics : form[t] = "rows"

EitherNext ==
  /\ UNCHANGED part
  /\ \/ part = "queue" /\ Next /\ UNCHANGED <<udpVars, deliveryVars>>
     \/ part = "udp" /\ UdpNext /\ UNCHANGED <<vars, deliveryVars>>
     \/ part = "messages" /\ DeliveryNext /\ UNCHANGED <<vars, udpVars>>

EitherSpec ==
  /\ EitherInit
  /\ [][EitherNext]_<<part, vars, udpVars, deliveryVars>>
  /\ UdpFairness
=============================================================================
