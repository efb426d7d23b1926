---------------------------- MODULE UdpStreaming ----------------------------
(***************************************************************************)
(* The UDP subscriptions of the streaming client (UDPStreamingImpl in      *)
(* src/src/Streaming.cpp): one table, subscribed, unsubscribed and         *)
(* subscribed again by the application, each time with a receive thread    *)
(* that filters datagrams by their offset and a callback thread that gives *)
(* the rows to the handler.  The handler may call unsubscribe() itself.    *)
(*                                                                         *)
(* The datagrams are not part of the code: any of those of the stream may  *)
(* come next, so that they are lost, repeated and out of order at will.    *)
(***************************************************************************)
EXTENDS Integers, Sequences, FiniteSets

CONSTANTS
  Stream,       \* the datagrams of the publisher, in the order of their offsets
  QueueSize,    \* capacity of msgQueue
  StartAt,      \* offsets subscribe() may ask for, -1 for "from now on"
  MaxClients    \* bound: subscriptions created in one behaviour

(* "rows"; "beat", which has the msgId -1 and stands for rows that are      *)
(* filtered out; "schema", a table.                                         *)
DatagramKinds == {"rows", "beat", "schema"}

(* What the constants must be: the rows of a heartbeat are of no other      *)
(* datagram.                                                                *)
Span(d) == d.offset .. d.offset + d.length - 1

UdpAssumption ==
  /\ QueueSize \in Nat \ {0}
  /\ StartAt \subseteq Nat \cup {-1}
  /\ MaxClients \in Nat
  /\ \A i \in DOMAIN Stream :
       Stream[i] \in [kind : DatagramKinds, offset : Nat, length : Nat]
  /\ \A i, j \in DOMAIN Stream :
       Stream[i].kind = "rows" /\ Stream[j].kind = "beat" =>
         Span(Stream[i]) \cap Span(Stream[j]) = {}

Clients == 1 .. MaxClients
App == 0           \* the application's thread; thread c is the callback thread of c
UdpThreads == {App} \cup Clients
NoClient == 0
NoThread == -1
Null == [offset |-> -1, first |-> -1, length |-> 0]     \* Message()

VARIABLES
  clientsMutex,   \* holder of clientsMutex_
  client,         \* the entry of clients_, or NoClient
  deadClients,    \* deadClients_
  created,        \* SubscribeClients created so far
  destroyed,      \* the destructor has begun
  at,             \* where a thread is in subscribe(), unsubscribe() or the destructor
  (* per SubscribeClient *)
  exit,           \* exit
  offset,         \* offset
  msgQueue,       \* msgQueue: the offset of each message and the rows it holds
  receive,        \* where the receive thread is
  got,            \* the message it has parsed
  callback,       \* where the callback thread is
  rows,           \* the message whose rows it is giving to the handler
  (* history *)
  asked,          \* the offset subscribe() asked for
  given,          \* rows the handler got: each with its offset
  wasFull,        \* a queue was full when its client was to stop
  crossed         \* a call of a handler and another one were under way together

clientVars == <<exit, offset, msgQueue, receive, got, callback, rows, given, asked>>
callVars == <<clientsMutex, client, deadClients, created, destroyed, at, wasFull, crossed>>
udpVars == <<clientVars, callVars>>

UdpInit ==
  /\ clientsMutex = NoThread
  /\ client = NoClient
  /\ deadClients = {}
  /\ created = 0
  /\ destroyed = FALSE
  /\ at = [t \in UdpThreads |-> "idle"]
  /\ exit = [c \in Clients |-> FALSE]
  /\ offset = [c \in Clients |-> -1]
  /\ msgQueue = [c \in Clients |-> <<>>]
  /\ receive = [c \in Clients |-> "none"]
  /\ got = [c \in Clients |-> Null]
  /\ callback = [c \in Clients |-> "none"]
  /\ rows = [c \in Clients |-> Null]
  /\ given = [c \in Clients |-> <<>>]
  /\ asked = [c \in Clients |-> -1]
  /\ wasFull = FALSE
  /\ crossed = FALSE

Enter(t, label) == at' = [at EXCEPT ![t] = label]
HasRoom(c) == Len(msgQueue[c]) < QueueSize

-----------------------------------------------------------------------------
(* The receive thread *)

Polls(c) == receive[c] = "poll" /\ ~exit[c]

(* parseMessage(): a datagram whose offset is not the expected one, if one  *)
(* is expected, is dropped.  Mutant: only an earlier one is.                *)
NotOlder(c, d) == offset[c] <= d.offset
Expects(c, d) == offset[c] \in {-1, d.offset}

(* A heartbeat moves the expected offset past the rows that were filtered   *)
(* out; the first datagram fixes it, even if it is a schema.                *)
OffsetAfter(d) == IF d.kind = "beat" THEN d.offset + d.length ELSE d.offset

ParseMessage(c, d) ==
  /\ Polls(c)
  /\ Expects(c, d)
  /\ offset' = [offset EXCEPT ![c] = OffsetAfter(d)]
  /\ IF d.kind = "rows"
     THEN /\ receive' = [receive EXCEPT ![c] = "push"]
          /\ got' = [got EXCEPT ![c] =
                       [offset |-> OffsetAfter(d), first |-> d.offset, length |-> d.length]]
     ELSE UNCHANGED <<receive, got>>
  /\ UNCHANGED <<exit, msgQueue, callback, rows, given, asked, callVars>>

(* push() waits for room; the expected offset moves on after it.            *)
PushMessage(c) ==
  /\ receive[c] = "push"
  /\ HasRoom(c)
  /\ msgQueue' = [msgQueue EXCEPT ![c] = Append(@, got[c])]
  /\ offset' = [offset EXCEPT ![c] = @ + got[c].length]
  /\ receive' = [receive EXCEPT ![c] = "poll"]
  /\ got' = [got EXCEPT ![c] = Null]
  /\ UNCHANGED <<exit, callback, rows, given, asked, callVars>>

ReceiveEnds(c) ==
  /\ receive[c] = "poll"
  /\ exit[c]
  /\ receive' = [receive EXCEPT ![c] = "done"]
  /\ UNCHANGED <<exit, offset, msgQueue, got, callback, rows, given, asked, callVars>>

-----------------------------------------------------------------------------
(* The callback thread *)

CallbackGoes(c, label) == callback' = [callback EXCEPT ![c] = label]

CallbackLoop(c) ==
  /\ callback[c] = "loop"
  /\ CallbackGoes(c, IF exit[c] THEN "done" ELSE "pop")
  /\ UNCHANGED <<exit, offset, msgQueue, receive, got, rows, given, asked, callVars>>

PopMessage(c) ==
  /\ callback[c] = "pop"
  /\ msgQueue[c] # <<>>
  /\ msgQueue' = [msgQueue EXCEPT ![c] = Tail(@)]
  /\ LET m == Head(msgQueue[c]) IN
     IF m = Null
     THEN CallbackGoes(c, "done") /\ UNCHANGED rows
     ELSE CallbackGoes(c, "row") /\ rows' = [rows EXCEPT ![c] = m]
  /\ UNCHANGED <<exit, offset, receive, got, given, asked, callVars>>

(* The rows are given one by one, under consecutive offsets, until exit; in *)
(* the handler the thread may call unsubscribe().                           *)
GiveRow(c) ==
  /\ callback[c] = "row"
  /\ at[c] = "idle"
  /\ LET m == rows[c] IN
     IF m.length = 0 \/ exit[c]
     THEN CallbackGoes(c, "loop") /\ UNCHANGED <<rows, given>>
     ELSE /\ given' = [given EXCEPT ![c] = Append(@, <<m.first, m.offset>>)]
          /\ rows' = [rows EXCEPT ![c] = [offset |-> m.offset + 1, first |-> m.first + 1,
                                          length |-> m.length - 1]]
          /\ UNCHANGED callback
  /\ UNCHANGED <<exit, offset, msgQueue, receive, got, asked, callVars>>

-----------------------------------------------------------------------------
(* The calls *)

Calling(t) == at[t] # "idle"
Crosses(t) == \E u \in UdpThreads \ {t} : Calling(u)

(* subscribe(): under the lock the dead clients are joined and a second     *)
(* subscription is refused ...                                              *)
Subscribe ==
  /\ at[App] = "idle" /\ ~destroyed
  /\ created < MaxClients
  /\ clientsMutex = NoThread
  /\ clientsMutex' = App
  /\ Enter(App, "subscribe")
  /\ crossed' = (crossed \/ Crosses(App))
  /\ UNCHANGED <<client, deadClients, created, destroyed, wasFull, clientVars>>

(* cleanup(): both threads of every dead client are joined, except those of *)
(* the client whose callback thread makes the call.  Mutant: those, too.    *)
EveryDead(t) == deadClients
Joinable(t) == deadClients \ {t}
Cleaning(t) == at[t] \in {"subscribe", "unsubscribe", "cleanup", "destroy"}

(* The client goes with its threads, and what it held.                      *)
Free(c) ==
  /\ offset' = [offset EXCEPT ![c] = -1]
  /\ msgQueue' = [msgQueue EXCEPT ![c] = <<>>]
  /\ rows' = [rows EXCEPT ![c] = Null]
  /\ given' = [given EXCEPT ![c] = <<>>]
  /\ asked' = [asked EXCEPT ![c] = -1]

Join(t, c) ==
  /\ Cleaning(t)
  /\ c \in Joinable(t)
  /\ callback[c] = "done" /\ receive[c] = "done"
  /\ deadClients' = deadClients \ {c}
  /\ Free(c)
  /\ UNCHANGED <<clientsMutex, client, created, destroyed, at, wasFull, crossed, exit, receive,
                 got, callback>>

SubscribeCleaned ==
  /\ at[App] = "subscribe"
  /\ Joinable(App) = {}
  /\ clientsMutex' = NoThread
  /\ Enter(App, IF client = NoClient THEN "create" ELSE "idle")
  /\ UNCHANGED <<client, deadClients, created, destroyed, wasFull, crossed, clientVars>>

(* ... the server is asked for the table, which it may refuse; the threads  *)
(* are started without the lock, and the entry is made.                     *)
SubscribeFails ==
  /\ at[App] = "create"
  /\ Enter(App, "idle")
  /\ UNCHANGED <<clientsMutex, client, deadClients, created, destroyed, wasFull, crossed,
                 clientVars>>

SubscribeCreates ==
  /\ at[App] = "create"
  /\ created' = created + 1
  /\ \E o \in StartAt : /\ offset' = [offset EXCEPT ![created'] = o]
                        /\ asked' = [asked EXCEPT ![created'] = o]
  /\ receive' = [receive EXCEPT ![created'] = "poll"]
  /\ callback' = [callback EXCEPT ![created'] = "loop"]
  /\ Enter(App, "insert")
  /\ UNCHANGED <<clientsMutex, client, deadClients, destroyed, wasFull, crossed, exit, msgQueue,
                 got, rows, given>>

SubscribeInserts ==
  /\ at[App] = "insert"
  /\ clientsMutex = NoThread
  /\ client' = created
  /\ Enter(App, "idle")
  /\ UNCHANGED <<clientsMutex, deadClients, created, destroyed, wasFull, crossed, clientVars>>

(* unsubscribe(), called by the application or, in the handler, by the      *)
(* callback thread of c; a handler calls it for the entry of its own table. *)
Unsubscribe(t) ==
  /\ at[t] = "idle" /\ ~destroyed
  /\ client # NoClient
  /\ t # App => callback[t] = "row" /\ given[t] # <<>>
  /\ Enter(t, "lock")
  /\ crossed' = (crossed \/ Crosses(t))
  /\ UNCHANGED <<clientsMutex, client, deadClients, created, destroyed, wasFull, clientVars>>

UnsubscribeLocks(t) ==
  /\ at[t] = "lock"
  /\ clientsMutex = NoThread
  /\ clientsMutex' = t
  /\ Enter(t, "unsubscribe")
  /\ UNCHANGED <<client, deadClients, created, destroyed, wasFull, crossed, clientVars>>

(* stop(): the entry is erased, exit set, and the null message pushed, for  *)
(* which push() waits for room.                                             *)
StopClient(t, label) ==
  /\ exit' = [exit EXCEPT ![client] = TRUE]
  /\ Enter(t, label)
  /\ wasFull' = (wasFull \/ ~HasRoom(client) \/ receive[client] = "push")
  /\ UNCHANGED <<clientsMutex, client, deadClients, created, destroyed, crossed, offset, msgQueue,
                 receive, got, callback, rows, given, asked>>

Stop(t) ==
  /\ at[t] = "unsubscribe"
  /\ Joinable(t) = {}
  /\ client # NoClient
  /\ StopClient(t, "push")

(* The server refuses to stop, or there is no entry: the call throws.       *)
UnsubscribeThrows(t) ==
  /\ at[t] = "unsubscribe"
  /\ Joinable(t) = {}
  /\ clientsMutex' = NoThread
  /\ Enter(t, "idle")
  /\ UNCHANGED <<client, deadClients, created, destroyed, wasFull, crossed, clientVars>>

PushNull(t) ==
  /\ at[t] \in {"push", "destroyPush"}
  /\ HasRoom(client)
  /\ msgQueue' = [msgQueue EXCEPT ![client] = Append(@, Null)]
  /\ deadClients' = deadClients \cup {client}
  /\ client' = NoClient
  /\ Enter(t, IF at[t] = "push" THEN "cleanup" ELSE "destroy")
  /\ UNCHANGED <<clientsMutex, created, destroyed, wasFull, crossed, exit, offset, receive, got,
                 callback, rows, given, asked>>

UnsubscribeReturns(t) ==
  /\ at[t] = "cleanup"
  /\ Joinable(t) = {}
  /\ clientsMutex' = NoThread
  /\ Enter(t, "idle")
  /\ UNCHANGED <<client, deadClients, created, destroyed, wasFull, crossed, clientVars>>

(* The destructor takes no lock: the application makes sure that no call is *)
(* under way and that no handler makes one any more.                        *)
Destroy ==
  /\ ~destroyed
  /\ \A t \in UdpThreads : ~Calling(t)
  /\ destroyed' = TRUE
  /\ Enter(App, "destroy")
  /\ UNCHANGED <<clientsMutex, client, deadClients, created, wasFull, crossed, clientVars>>

DestroyStops ==
  /\ at[App] = "destroy"
  /\ client # NoClient
  /\ StopClient(App, "destroyPush")

Destroyed ==
  /\ at[App] = "destroy"
  /\ client = NoClient
  /\ Joinable(App) = {}
  /\ Enter(App, "idle")
  /\ UNCHANGED <<clientsMutex, client, deadClients, created, destroyed, wasFull, crossed, clientVars>>

-----------------------------------------------------------------------------
(* The specification *)

ReceiveStep(c) == PushMessage(c) \/ ReceiveEnds(c)
CallbackStep(c) == CallbackLoop(c) \/ PopMessage(c) \/ GiveRow(c)
CallStep(t) ==
  \/ \E c \in Clients : Join(t, c)
  \/ UnsubscribeLocks(t) \/ Stop(t) \/ UnsubscribeThrows(t) \/ PushNull(t)
  \/ UnsubscribeReturns(t)
AppStep ==
  \/ SubscribeCleaned \/ SubscribeFails \/ SubscribeCreates \/ SubscribeInserts
  \/ DestroyStops \/ Destroyed

UdpNext ==
  \/ \E c \in Clients :
       \/ \E i \in DOMAIN Stream : ParseMessage(c, Stream[i])
       \/ ReceiveStep(c) \/ CallbackStep(c)
  \/ Subscribe \/ AppStep \/ Destroy
  \/ \E t \in UdpThreads : Unsubscribe(t) \/ CallStep(t)

UdpSpec == UdpInit /\ [][UdpNext]_udpVars

(* Every thread runs; nothing obliges a datagram to come, the application   *)
(* to make a call or a handler to make one.                                 *)
UdpFairness ==
  /\ WF_udpVars(AppStep)
  /\ \A t \in UdpThreads : WF_udpVars(CallStep(t))
  /\ \A c \in Clients : WF_udpVars(ReceiveStep(c)) /\ WF_udpVars(CallbackStep(c))

UdpFairSpec == UdpSpec /\ UdpFairness

-----------------------------------------------------------------------------
(* Properties *)

(* The rows of the stream that are not filtered out.                        *)
StreamRows ==
  UNION {Span(Stream[i]) : i \in {j \in DOMAIN Stream : Stream[j].kind = "rows"}}

(* No row of the stream lies between a row and the one given next.         *)
NoneSkipped(r, next) == r < next /\ StreamRows \cap (r + 1 .. next - 1) = {}

(* Whatever is lost, repeated or out of order, the handler gets every row   *)
(* of the table from the one it asked for, or from some row on, and no row  *)
(* twice, under its own offset, up to the first datagram that is lost: no   *)
(* row is skipped but those the publisher has filtered out.                 *)
RowsAsPublished ==
  \A c \in Clients :
    /\ \A i \in DOMAIN given[c] : given[c][i][1] = given[c][i][2]
    /\ \A i \in 1 .. Len(given[c]) - 1 : NoneSkipped(given[c][i][1], given[c][i + 1][1])
    /\ asked[c] # -1 /\ given[c] # <<>> => NoneSkipped(asked[c] - 1, given[c][1][1])

(* Every call returns, and the threads of a client that was unsubscribed    *)
(* end, unless the queue was full when it was to stop or the call of a      *)
(* handler overlaps with another: the first leaves nobody to make room, and *)
(* in the second one thread may join another that waits for the lock the    *)
(* first one holds.                                                         *)
CallsReturn ==
  [](~wasFull /\ ~crossed) =>
    /\ \A t \in UdpThreads : Calling(t) ~> ~Calling(t)
    /\ \A c \in Clients : exit[c] ~> receive[c] = "done" /\ callback[c] = "done"
=============================================================================
