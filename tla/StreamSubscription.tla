-------------------------- MODULE StreamSubscription -------------------------
(***************************************************************************)
(* Subscriptions of a streaming client that connects to the publisher      *)
(* itself (src/src/Streaming.cpp, ThreadedClient and ThreadPooledClient    *)
(* with listening port 0, no backup sites, resub set).                     *)
(*                                                                         *)
(* The application subscribes to a table and unsubscribes again, one call  *)
(* at a time.  Every successful subscription opens a connection, for which *)
(* daemon() starts a parse thread: it pushes the rows that arrive on the   *)
(* bounded queue of whatever subscription the topic has at that moment.    *)
(* Handler threads pop them.  When a connection breaks, its parse thread   *)
(* marks the topic and the reconnect thread opens another connection from  *)
(* the offset recorded by then.                                            *)
(*                                                                         *)
(* There is one topic.  Its subscriptions are numbered as they are made,   *)
(* as are the connections and, from 0, the rows of the table.              *)
(***************************************************************************)
EXTENDS Integers, Sequences, FiniteSets

CONSTANTS
  Handlers,    \* handler threads of a subscription
  Capacity,    \* capacity of a message queue
  Offsets,     \* offsets the application subscribes from; -1 for none
  MaxSubs,     \* bound: subscriptions in one behaviour
  MaxConns,    \* bound: connections in one behaviour
  MaxRows,     \* bound: rows of the publisher's table
  InitFails    \* whether the first attempt of a subscription may fail

ASSUME SubscriptionAssumption ==
  /\ Capacity \in Nat \ {0}
  /\ Offsets \subseteq Nat \cup {-1}
  /\ MaxSubs \in Nat /\ MaxConns \in Nat /\ MaxRows \in Nat
  /\ InitFails \in BOOLEAN

Subs == 1 .. MaxSubs
Conns == 1 .. MaxConns

(* Who holds readyMutex_ when it is not the parse thread of a connection. *)
Nobody == 0
App == -1
Reconnect == -2

(* The keys of topicSubInfos_: the topic, and the empty string under which  *)
(* a subscription is kept while its topic is not known.                     *)
Keys == {"topic", "unknown"}

(* A SubscribeInfo: its subscription stands for queue_ and stopped_, which  *)
(* all copies share.  Blank is the one operator[] makes, with a null queue  *)
(* and resub_ false; Absent is no entry.                                    *)
Info(s, o) == [sub |-> s, offset |-> o, socket |-> 0, handlers |-> {}]
Blank == Info(0, -1)
Absent == Info(-1, -1)

VARIABLES
  (* the client *)
  topicSubInfos,  \* topicSubInfos_
  topicReconn,    \* topicReconn_ holds the topic
  liveSubs,       \* liveSubsOnSite_ holds the topic
  actionCnt,      \* actionCntOnTable_ of the table
  topics,         \* topics_: the key of the subscription's ID, or "none"
  initResub,      \* initResub_
  readyMutex,     \* the holder of readyMutex_
  queue,          \* the number of messages on queue_ of every subscription
  stopped,        \* stopped_ of every subscription
  (* the application and the reconnect thread *)
  appPc, appInfo, appKey, lastSub,
  reconPc, reconInfo,
  (* connections and their parse threads *)
  made,           \* connections made so far
  connSub,        \* the subscription a connection was opened for
  open,           \* the connection is neither cut nor closed
  pc,             \* where the parse thread is
  met,            \* its topicMsg is not empty: it has received a message
  hand,           \* the rows it has read and not yet pushed, first to last
  target,         \* the subscription it has found for them
  (* handler threads *)
  hpc,            \* where a handler thread is
  (* history *)
  delivered,      \* rows ever pushed on the queue of a subscription
  outdated,       \* a parse thread acted for a connection that was replaced
  early,          \* a parse thread ended between publishTable and insertMeta
  moved           \* subscriptions the reconnect thread made, not subscribe()

mapVars  == <<topicSubInfos, liveSubs, actionCnt, topics>>
appVars  == <<appPc, appInfo, appKey, lastSub>>
reconVars == <<reconPc, reconInfo>>
connVars == <<made, connSub, open>>
parseVars == <<pc, met, hand, target>>
histVars == <<delivered, outdated, early, moved>>
vars == <<mapVars, topicReconn, initResub, readyMutex, queue, stopped,
          appVars, reconVars, connVars, parseVars, hpc, histVars>>

Init ==
  /\ topicSubInfos = [k \in Keys |-> Absent]
  /\ topicReconn = FALSE /\ liveSubs = FALSE /\ actionCnt = 0
  /\ topics = "none" /\ initResub = <<>> /\ readyMutex = Nobody
  /\ queue = [s \in Subs |-> 0] /\ stopped = [s \in Subs |-> FALSE]
  /\ appPc = "idle" /\ appInfo = Absent /\ appKey = "topic" /\ lastSub = 0
  /\ reconPc = "idle" /\ reconInfo = Absent
  /\ made = 0 /\ connSub = [c \in Conns |-> 0]
  /\ open = [c \in Conns |-> FALSE]
  /\ pc = [c \in Conns |-> "none"] /\ met = [c \in Conns |-> FALSE]
  /\ hand = [c \in Conns |-> <<0, -1>>] /\ target = [c \in Conns |-> 0]
  /\ hpc = [s \in Subs |-> [h \in Handlers |-> "none"]]
  /\ delivered = [s \in Subs |-> <<>>] /\ outdated = FALSE
  /\ early = FALSE /\ moved = {}

(* reconnect() keeps topicReconn_ locked while it visits the topics, and    *)
(* mtx_ while it tries the subscriptions of initResub_.                     *)
ReconnLocked == reconPc = "resub"
MtxLocked == reconPc \in {"init", "initInsert"}

-----------------------------------------------------------------------------
(* The publisher. *)

(* publishTable() without allowExists refuses a topic that has a live       *)
(* connection.                                                              *)
Accepts == \A c \in Conns : ~open[c]

(* The publisher starts from the offset; without one, from the first row or *)
(* from the row that comes whichever that is.                         *)
StartRows(offset) == IF offset < 0 THEN 0 .. MaxRows ELSE {offset}

(* subscribeInternal(conn, info): publishTable, and publishers_.push, upon  *)
(* which daemon() starts the parse thread; it first waits for a message.    *)
Connect(info) ==
  /\ Accepts
  /\ made < MaxConns
  /\ \E row \in StartRows(info.offset) :
       hand' = [hand EXCEPT ![made + 1] = <<row, row - 1>>]
  /\ made' = made + 1
  /\ connSub' = [connSub EXCEPT ![made'] = info.sub]
  /\ open' = [open EXCEPT ![made'] = TRUE]
  /\ pc' = [pc EXCEPT ![made'] = "read"]
  /\ UNCHANGED <<met, target>>

(* A connection breaks; the bound leaves one to recover with. *)
CutConnection(c) ==
  /\ open[c] /\ made < MaxConns
  /\ open' = [open EXCEPT ![c] = FALSE]
  /\ UNCHANGED <<mapVars, topicReconn, initResub, readyMutex, queue, stopped,
                 appVars, reconVars, made, connSub, parseVars, hpc, histVars>>

-----------------------------------------------------------------------------
(* The application. *)

AppGoes(label) == appPc' = label

(* insertMeta(info, topic). *)
InsertMeta(info, k) ==
  /\ topicSubInfos' = [topicSubInfos EXCEPT ![k] = info]
  /\ topics' = k
  /\ IF k = "topic" THEN liveSubs' = TRUE /\ actionCnt' = actionCnt + 1
                    ELSE UNCHANGED <<liveSubs, actionCnt>>

(* The application has no subscription at present and makes one. *)
Subscribe ==
  /\ appPc = "idle" /\ topics = "none" /\ lastSub < MaxSubs
  /\ lastSub' = lastSub + 1
  /\ \E o \in Offsets : appInfo' = Info(lastSub', o)
  /\ AppGoes("connect")
  /\ UNCHANGED <<mapVars, topicReconn, initResub, readyMutex, queue, stopped,
                 appKey, reconVars, connVars, parseVars, hpc, histVars>>

SubscribeConnects ==
  /\ appPc = "connect" /\ readyMutex = Nobody
  /\ Connect(appInfo)
  /\ appInfo' = [appInfo EXCEPT !.socket = made']
  /\ readyMutex' = App
  /\ AppGoes("insert")
  /\ UNCHANGED <<mapVars, topicReconn, initResub, queue, stopped, appKey,
                 lastSub, reconVars, hpc, histVars>>

SubscribeInserts ==
  /\ appPc = "insert"
  /\ InsertMeta(appInfo, "topic")
  /\ readyMutex' = Nobody
  /\ AppGoes("threads")
  /\ UNCHANGED <<topicReconn, initResub, queue, stopped, appInfo, appKey,
                 lastSub, reconVars, connVars, parseVars, hpc, histVars>>

(* The attempt fails: the reconnect thread will try again, and the          *)
(* subscription is entered under the topic not yet known.                   *)
SubscribeFails ==
  /\ InitFails
  /\ appPc = "connect" /\ ~MtxLocked
  /\ initResub' = Append(initResub, appInfo)
  /\ InsertMeta(appInfo, "unknown")
  /\ AppGoes("threads")
  /\ UNCHANGED <<topicReconn, readyMutex, queue, stopped, appInfo, appKey,
                 lastSub, reconVars, connVars, parseVars, hpc, histVars>>

(* The thread is recorded in the first entry met that has the queue, or in  *)
(* none when there is none.                                                 *)
Record(h) ==
  \/ \E k \in Keys :
       /\ topicSubInfos[k].sub = appInfo.sub
       /\ topicSubInfos' = [topicSubInfos EXCEPT ![k].handlers = @ \cup {h}]
  \/ /\ \A k \in Keys : topicSubInfos[k].sub # appInfo.sub
     /\ UNCHANGED topicSubInfos

(* addHandleThread(queue, thread), thread->start(). *)
AddHandleThread(h) ==
  /\ appPc = "threads" /\ hpc[appInfo.sub][h] = "none"
  /\ hpc' = [hpc EXCEPT ![appInfo.sub][h] = "loop"]
  /\ Record(h)
  /\ IF \A i \in Handlers : hpc'[appInfo.sub][i] # "none"
     THEN AppGoes("idle") /\ appInfo' = Absent
     ELSE AppGoes("threads") /\ UNCHANGED appInfo
  /\ UNCHANGED <<topicReconn, liveSubs, actionCnt, topics, initResub,
                 readyMutex, queue, stopped, appKey, lastSub,
                 reconVars, connVars, parseVars, histVars>>

(* unsubscribeInternal() of a subscription in topics_, up to delMeta(): a   *)
(* call without one is left out.                                            *)
Unsubscribe ==
  /\ appPc = "idle" /\ topics # "none"
  /\ appKey' = topics
  /\ topicSubInfos[topics] # Absent
  /\ AppGoes("erase")
  /\ UNCHANGED <<mapVars, topicReconn, initResub, readyMutex, queue, stopped,
                 appInfo, lastSub, reconVars, connVars, parseVars, hpc, histVars>>

(* delMeta(): the entry ...                                                 *)
EraseInfo ==
  /\ appPc = "erase"
  /\ appInfo' = topicSubInfos[appKey]
  /\ topicSubInfos' = [topicSubInfos EXCEPT ![appKey] = Absent]
  /\ topics' = IF appInfo'.sub > 0 THEN "none" ELSE topics  \* topics_.erase(ID_)
  /\ AppGoes("eraseLive")
  /\ UNCHANGED <<topicReconn, liveSubs, actionCnt, initResub, readyMutex,
                 queue, stopped, appKey, lastSub, reconVars, connVars,
                 parseVars, hpc, histVars>>

(* ... the topics of the site ...                                           *)
EraseLive ==
  /\ appPc = "eraseLive"
  /\ liveSubs' = (liveSubs /\ appKey # "topic")
  /\ AppGoes("eraseCount")
  /\ UNCHANGED <<topicSubInfos, topicReconn, actionCnt, topics, initResub,
                 readyMutex, queue, stopped, appInfo, appKey, lastSub,
                 reconVars, connVars, parseVars, hpc, histVars>>

(* ... and the count of the table.                                          *)
EraseCount ==
  /\ appPc = "eraseCount"
  /\ actionCnt' = IF appKey = "topic" THEN actionCnt - 1 ELSE actionCnt
  /\ AppGoes("close")
  /\ UNCHANGED <<topicSubInfos, topicReconn, liveSubs, topics, initResub,
                 readyMutex, queue, stopped, appInfo, appKey, lastSub,
                 reconVars, connVars, parseVars, hpc, histVars>>

(* SubscribeInfo::exit(): socket_->close() closes the connection the entry  *)
(* was made with; a blank entry has no queue and nothing more to do.        *)
CloseSocket ==
  /\ appPc = "close"
  /\ open' = [c \in Conns |-> open[c] /\ c # appInfo.socket]
  /\ IF appInfo.sub = 0
     THEN AppGoes("idle") /\ UNCHANGED stopped
     ELSE /\ stopped' = [stopped EXCEPT ![appInfo.sub] = TRUE]
          /\ AppGoes("poison")
  /\ UNCHANGED <<mapVars, topicReconn, initResub, readyMutex, queue, appInfo,
                 appKey, lastSub, reconVars, made, connSub, parseVars,
                 hpc, histVars>>

HasRoom(s) == queue[s] < Capacity

PushNull ==
  /\ appPc = "poison" /\ HasRoom(appInfo.sub)
  /\ queue' = [queue EXCEPT ![appInfo.sub] = @ + 1]
  /\ AppGoes("join")
  /\ UNCHANGED <<mapVars, topicReconn, initResub, readyMutex, stopped, appInfo,
                 appKey, lastSub, reconVars, connVars, parseVars, hpc, histVars>>

(* The threads recorded in the entry are joined.  Mutant: they are not. *)
NotJoined(info) == info.handlers \subseteq Handlers
Joined(info) == \A h \in info.handlers : hpc[info.sub][h] = "done"

JoinHandlers ==
  /\ appPc = "join" /\ Joined(appInfo)
  /\ AppGoes("idle") /\ appInfo' = Absent
  /\ UNCHANGED <<mapVars, topicReconn, initResub, readyMutex, queue, stopped,
                 appKey, lastSub, reconVars, connVars, parseVars, hpc, histVars>>

-----------------------------------------------------------------------------
(* A parse thread. *)

Goto(c, label) == pc' = [pc EXCEPT ![c] = label]
OthersKeep == UNCHANGED <<initResub, stopped, appVars, reconVars, made, connSub,
                          open, hpc>>

(* The first message of a connection is the empty table of the schema. *)
ReadSchema(c) ==
  /\ pc[c] = "read" /\ open[c] /\ ~met[c]
  /\ met' = [met EXCEPT ![c] = TRUE]
  /\ Goto(c, "schema")
  /\ UNCHANGED <<mapVars, topicReconn, readyMutex, queue, hand, target, histVars>>
  /\ OthersKeep

(* topicReconn_.erase(t) *)
SchemaParsed(c) ==
  /\ pc[c] = "schema" /\ ~ReconnLocked
  /\ topicReconn' = FALSE
  /\ Goto(c, "read")
  /\ UNCHANGED <<mapVars, readyMutex, queue, met, hand, target, histVars>>
  /\ OthersKeep

(* A message has one or more consecutive rows. *)
ReadRows(c) ==
  /\ pc[c] = "read" /\ open[c] /\ met[c]
  /\ \E last \in hand[c][1] .. MaxRows - 1 : hand' = [hand EXCEPT ![c][2] = last]
  /\ Goto(c, "lock")
  /\ UNCHANGED <<mapVars, topicReconn, readyMutex, queue, met, target, histVars>>
  /\ OthersKeep

(* The topic has a later connection, or another subscription, than c. *)
Outdated(c) == c < made \/ connSub[c] # topicSubInfos["topic"].sub

(* The rows are for whatever subscription the topic has now, if any; else   *)
(* they are dropped.                                                        *)
FindInfo(c) ==
  /\ pc[c] = "lock" /\ readyMutex = Nobody
  /\ IF topicSubInfos["topic"].sub > 0
     THEN /\ target' = [target EXCEPT ![c] = topicSubInfos["topic"].sub]
          /\ outdated' = (outdated \/ Outdated(c))
          /\ readyMutex' = c
          /\ Goto(c, "push")
          /\ UNCHANGED hand
     ELSE /\ hand' = [hand EXCEPT ![c][1] = hand[c][2] + 1]
          /\ Goto(c, "read")
          /\ UNCHANGED <<target, readyMutex, outdated>>
  /\ UNCHANGED <<mapVars, topicReconn, queue, met, delivered, early, moved>>
  /\ OthersKeep

Rest(rows) == <<rows[1] + 1, rows[2]>>
NoRows(rows) == rows[1] > rows[2]

(* queue_->push() waits for room while readyMutex_ is held. *)
PushRow(c) ==
  LET s == target[c]
  IN /\ pc[c] = "push" /\ HasRoom(s)
     /\ queue' = [queue EXCEPT ![s] = @ + 1]
     /\ delivered' = [delivered EXCEPT ![s] = Append(@, hand[c][1])]
     /\ hand' = [hand EXCEPT ![c] = Rest(@)]
     /\ Goto(c, IF NoRows(hand'[c]) THEN "offset" ELSE "push")
     /\ UNCHANGED <<mapVars, topicReconn, readyMutex, met, target, outdated,
                    early, moved>>
     /\ OthersKeep

(* offset_ becomes the row after the message, if the topic is still there.  *)
(* Mutant: the last row of the message.                                     *)
OffsetOfLast(info, row) == IF info = Absent THEN info ELSE [info EXCEPT !.offset = row]
OffsetAfter(info, row) == IF info = Absent THEN info ELSE [info EXCEPT !.offset = row + 1]

SetOffset(c) ==
  /\ pc[c] = "offset"
  /\ topicSubInfos' = [topicSubInfos EXCEPT !["topic"] = OffsetAfter(@, hand[c][2])]
  /\ readyMutex' = Nobody
  /\ target' = [target EXCEPT ![c] = 0]
  /\ Goto(c, "read")
  /\ UNCHANGED <<topicReconn, liveSubs, actionCnt, topics, queue, met, hand, histVars>>
  /\ OthersKeep

(* The connection is gone.  Before the first message the thread does not    *)
(* know its topic, and without a subscription on the table it has nothing   *)
(* to recover.  Mutant: it takes another subscription for that.             *)
RecoversOthers(c) == met[c] /\ actionCnt > 1
Recovers(c) == met[c] /\ actionCnt # 0

Connecting == readyMutex \in {App, Reconnect}

ReadFails(c) ==
  /\ pc[c] = "read" /\ ~open[c]
  /\ Goto(c, IF Recovers(c) THEN "lost" ELSE "done")
  /\ hand' = [hand EXCEPT ![c] = <<0, -1>>]
  /\ early' = (early \/ (met[c] /\ ~Recovers(c) /\ Connecting))
  /\ UNCHANGED <<mapVars, topicReconn, readyMutex, queue, met,
                 target, delivered, outdated, moved>>
  /\ OthersKeep

FindLive(c) ==
  /\ pc[c] = "lost"
  /\ Goto(c, IF liveSubs THEN "stamp" ELSE "done")
  /\ early' = (early \/ (~liveSubs /\ Connecting))
  /\ UNCHANGED <<mapVars, topicReconn, readyMutex, queue, met, hand,
                 target, delivered, outdated, moved>>
  /\ OthersKeep

(* mp[t].subscribeTime_ = now: operator[] makes a blank entry if an         *)
(* unsubscribe has just erased the topic.                                   *)
StampTime(c) ==
  /\ pc[c] = "stamp"
  /\ topicSubInfos' = [topicSubInfos EXCEPT !["topic"] = IF @ = Absent THEN Blank ELSE @]
  /\ Goto(c, "mark")
  /\ UNCHANGED <<topicReconn, liveSubs, actionCnt, topics, readyMutex, queue,
                 met, hand, target, histVars>>
  /\ OthersKeep

(* topicReconn_.insert(t, ...) *)
MarkTopic(c) ==
  /\ pc[c] = "mark" /\ ~ReconnLocked
  /\ topicReconn' = TRUE
  /\ outdated' = (outdated \/ Outdated(c))
  /\ Goto(c, "done")
  /\ UNCHANGED <<mapVars, readyMutex, queue, met, hand, target, delivered,
                 early, moved>>
  /\ OthersKeep

-----------------------------------------------------------------------------
(* The reconnect thread. *)

ReconGoes(label) == reconPc' = label
ReconIdle == reconPc' = "idle" /\ reconInfo' = Absent

(* The topic is marked and has a subscription: try it, from a copy. *)
VisitTopic ==
  /\ reconPc = "idle" /\ topicReconn /\ topicSubInfos["topic"].sub > 0
  /\ reconInfo' = topicSubInfos["topic"]
  /\ ReconGoes("resub")
  /\ UNCHANGED <<mapVars, topicReconn, initResub, readyMutex, queue, stopped,
                 appVars, connVars, parseVars, hpc, histVars>>

(* One of the three attempts succeeds.  The topic is the one it was, so     *)
(* that the entry is left as it is: its socket_ stays the old one.          *)
Resubscribes ==
  /\ reconPc = "resub" /\ readyMutex = Nobody
  /\ Connect(reconInfo)
  /\ ReconIdle
  /\ UNCHANGED <<mapVars, topicReconn, initResub, readyMutex, queue, stopped,
                 appVars, hpc, histVars>>

(* The topic stays marked when the attempts fail.  Mutant: it does not. *)
MarkGivenUp == FALSE
MarkAfterFailure == topicReconn

ResubscribeFails ==
  /\ reconPc = "resub"
  /\ topicReconn' = MarkAfterFailure
  /\ ReconIdle
  /\ UNCHANGED <<mapVars, initResub, readyMutex, queue, stopped,
                 appVars, connVars, parseVars, hpc, histVars>>

(* A subscription of initResub_ is tried. *)
VisitInitResub ==
  /\ reconPc = "idle" /\ initResub # <<>>
  /\ reconInfo' = Head(initResub)
  /\ initResub' = Tail(initResub)
  /\ ReconGoes("init")
  /\ UNCHANGED <<mapVars, topicReconn, readyMutex, queue, stopped, appVars,
                 connVars, parseVars, hpc, histVars>>

InitConnects ==
  /\ reconPc = "init" /\ readyMutex = Nobody
  /\ Connect(reconInfo)
  /\ reconInfo' = [reconInfo EXCEPT !.socket = made']
  /\ readyMutex' = Reconnect
  /\ ReconGoes("initInsert")
  /\ UNCHANGED <<mapVars, topicReconn, initResub, queue, stopped, appVars, hpc, histVars>>

InitInserts ==
  /\ reconPc = "initInsert"
  /\ InsertMeta(reconInfo, "topic")
  /\ readyMutex' = Nobody
  /\ ReconIdle
  /\ moved' = moved \cup {reconInfo.sub}
  /\ UNCHANGED <<topicReconn, initResub, queue, stopped, appVars,
                 connVars, parseVars, hpc, delivered, outdated, early>>

InitFailsAgain ==
  /\ reconPc = "init"
  /\ initResub' = Append(initResub, reconInfo)
  /\ ReconIdle
  /\ UNCHANGED <<mapVars, topicReconn, readyMutex, queue, stopped, appVars,
                 connVars, parseVars, hpc, histVars>>

-----------------------------------------------------------------------------
(* A handler thread h of subscription s: the user's handler runs at "loop", *)
(* before the next test.                                                    *)

HandlerGoes(s, h, label) == hpc' = [hpc EXCEPT ![s][h] = label]
HandlerKeeps == UNCHANGED <<mapVars, topicReconn, initResub, readyMutex, stopped,
                            appVars, reconVars, connVars, parseVars,
                            histVars>>

LoopTest(s, h) ==
  /\ hpc[s][h] = "loop"
  /\ HandlerGoes(s, h, IF stopped[s] THEN "bye" ELSE "pop")
  /\ UNCHANGED queue
  /\ HandlerKeeps

PopMessage(s, h) ==
  /\ hpc[s][h] = "pop" /\ queue[s] > 0
  /\ queue' = [queue EXCEPT ![s] = @ - 1]
  /\ HandlerGoes(s, h, IF stopped[s] THEN "bye" ELSE "loop")
  /\ HandlerKeeps

(* The thread passes the null message on to the next one; push() waits for  *)
(* room.  Mutant: it keeps it.                                              *)
KeepNull(s) == queue[s]
PassOn(s) == queue[s] + 1

SayBye(s, h) ==
  /\ hpc[s][h] = "bye" /\ HasRoom(s)
  /\ queue' = [queue EXCEPT ![s] = PassOn(s)]
  /\ HandlerGoes(s, h, "done")
  /\ HandlerKeeps

-----------------------------------------------------------------------------
AppGoesOn ==
  \/ SubscribeConnects \/ SubscribeInserts \/ SubscribeFails
  \/ \E h \in Handlers : AddHandleThread(h)
  \/ EraseInfo \/ EraseLive \/ EraseCount \/ CloseSocket \/ PushNull \/ JoinHandlers

ParseStep(c) ==
  \/ ReadSchema(c) \/ SchemaParsed(c) \/ ReadRows(c)
  \/ FindInfo(c) \/ PushRow(c) \/ SetOffset(c) \/ ReadFails(c) \/ FindLive(c)
  \/ StampTime(c) \/ MarkTopic(c)

ReconnectStep ==
  \/ VisitTopic \/ Resubscribes \/ ResubscribeFails
  \/ VisitInitResub \/ InitConnects \/ InitInserts \/ InitFailsAgain

HandlerStep(s, h) ==
  LoopTest(s, h) \/ PopMessage(s, h) \/ SayBye(s, h)

Next ==
  \/ \E c \in Conns : CutConnection(c) \/ ParseStep(c)
  \/ Subscribe \/ Unsubscribe \/ AppGoesOn
  \/ ReconnectStep
  \/ \E s \in Subs, h \in Handlers : HandlerStep(s, h)

Spec == Init /\ [][Next]_vars

(* Threads run and begun calls go on.  The locks of the maps are free again *)
(* and again, because the reconnect thread sleeps between its rounds, and   *)
(* the publisher can be reached in the end.  Nothing obliges the publisher  *)
(* to publish or the application to make a call.                            *)
Fairness ==
  /\ SF_vars(AppGoesOn)
  /\ WF_vars(ReconnectStep)
  /\ SF_vars(Resubscribes \/ InitConnects)
  /\ SF_vars(\E c \in Conns : ParseStep(c))
  /\ \A s \in Subs, h \in Handlers : WF_vars(HandlerStep(s, h))

FairSpec == Spec /\ Fairness

-----------------------------------------------------------------------------
(* Type invariant. *)

AppLabels == {"idle", "connect", "insert", "threads", "erase", "eraseLive",
              "eraseCount", "close", "poison", "join"}
ParseLabels == {"none", "read", "schema", "lock", "push", "offset",
                "lost", "stamp", "mark", "done"}
HandlerLabels == {"none", "loop", "pop", "bye", "done"}
Infos == [sub : Subs \cup {0, -1}, offset : Int, socket : Conns \cup {0},
          handlers : SUBSET Handlers]

(* Every variable has its type, no queue holds more than its capacity, and  *)
(* readyMutex_ is held exactly by who is between its lock and its unlock.   *)
TypeOK ==
  /\ topicSubInfos \in [Keys -> Infos]
  /\ topicReconn \in BOOLEAN /\ liveSubs \in BOOLEAN /\ actionCnt \in Int
  /\ topics \in Keys \cup {"none"}
  /\ initResub \in Seq(Infos)
  /\ readyMutex \in Conns \cup {App, Reconnect, Nobody}
  /\ readyMutex = App <=> appPc = "insert"
  /\ readyMutex = Reconnect <=> reconPc = "initInsert"
  /\ \A c \in Conns : readyMutex = c <=> pc[c] \in {"push", "offset"}
  /\ queue \in [Subs -> 0 .. Capacity]
  /\ stopped \in [Subs -> BOOLEAN]
  /\ appPc \in AppLabels /\ appInfo \in Infos /\ appKey \in Keys
  /\ lastSub \in 0 .. MaxSubs
  /\ reconPc \in {"idle", "resub", "init", "initInsert"} /\ reconInfo \in Infos
  /\ made \in 0 .. MaxConns /\ connSub \in [Conns -> Subs \cup {0}]
  /\ open \in [Conns -> BOOLEAN]
  /\ pc \in [Conns -> ParseLabels] /\ met \in [Conns -> BOOLEAN]
  /\ hand \in [Conns -> Nat \X Int] /\ target \in [Conns -> Subs \cup {0}]
  /\ hpc \in [Subs -> [Handlers -> HandlerLabels]]
  /\ delivered \in [Subs -> Seq(Nat)] /\ outdated \in BOOLEAN /\ early \in BOOLEAN
  /\ moved \subseteq Subs

-----------------------------------------------------------------------------
(* Safety. *)

(* Whatever breaks and is resumed, the rows a subscription gets are         *)
(* consecutive rows of the table: none is lost and none comes twice, as     *)
(* long as no parse thread is so slow that the topic has been connected     *)
(* anew, or subscribed anew, when it delivers its rows or reports its loss. *)
ConsecutiveRows ==
  ~outdated =>
    \A s \in Subs : \A i \in 1 .. Len(delivered[s]) - 1 :
      delivered[s][i + 1] = delivered[s][i] + 1

(* A subscription that has received a message is never forgotten: it has a  *)
(* connection, or the reconnect thread is told of it, or a parse thread is  *)
(* about to find out.                                                       *)
Watched ==
  \/ topicReconn
  \/ \E c \in Conns : pc[c] \notin {"none", "done"} /\ met[c]

HasReceived(s) == \E c \in Conns : connSub[c] = s /\ met[c]

NeverForgotten ==
  ~early => \A s \in Subs :
    topicSubInfos["topic"].sub = s /\ HasReceived(s) /\ liveSubs /\ ~stopped[s]
      => Watched

(* readyMutex_ is held by who is between its lock and its unlock, no queue  *)
(* exceeds its capacity, and no subscription is forgotten.                  *)
SubscriptionsKept == TypeOK /\ NeverForgotten

(* When unsubscribe returns, every handler thread of the subscription has   *)
(* ended.  Only one that failed at first and was connected later has its    *)
(* threads recorded in another entry, which unsubscribe does not look at.   *)
HandlersEndFirst ==
  [][appPc = "join" /\ appPc' = "idle" /\ appInfo.sub \notin moved =>
       \A h \in Handlers : hpc[appInfo.sub][h] = "done"]_vars

-----------------------------------------------------------------------------
(* Liveness. *)

(* A topic that is marked and subscribed is connected again. *)
MarkedIsConnected ==
  topicReconn /\ topicSubInfos["topic"].sub > 0
    ~> (topicSubInfos["topic"].sub <= 0 \/ \E c \in Conns : open[c])

(* As long as no queue is full, the null message reaches every handler      *)
(* thread of a subscription that was ended ...                              *)
HandlersStopUnlessFull ==
  [](\A s \in Subs : HasRoom(s)) =>
    \A s \in Subs, h \in Handlers : stopped[s] ~> hpc[s][h] \in {"none", "done"}

(* ... and the README says of the threads that subscribe() returns that     *)
(* they "will stop when unsubscribe on the same topic is called".           *)
HandlersStop ==
  \A s \in Subs, h \in Handlers : stopped[s] ~> hpc[s][h] \in {"none", "done"}

=============================================================================
