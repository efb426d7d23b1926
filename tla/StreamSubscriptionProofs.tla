---------------------- MODULE StreamSubscriptionProofs ----------------------
(***************************************************************************)
(* Proofs about StreamSubscription: the types and locks, that unsubscribe  *)
(* waits for the handler threads, that the rows a subscription gets are    *)
(* consecutive, and that one that has received a message is not forgotten. *)
(***************************************************************************)
EXTENDS StreamSubscription, TLAPS

-----------------------------------------------------------------------------
(* The parts of the invariant. *)

(* The last subscription that has been entered in the maps. *)
Entered == IF appPc \in {"connect", "insert"} THEN lastSub - 1 ELSE lastSub

SubInfos == [sub : Subs, offset : Int, socket : Conns \cup {0}, handlers : SUBSET Handlers]
Closing == {"eraseLive", "eraseCount", "close", "poison", "join"}
Trying == {"init", "initInsert"}

(* The infos that calls and the reconnect thread work with are those of     *)
(* subscriptions, and what topics_ points at is in the maps until the call  *)
(* that erases it.                                                          *)
InfoShape ==
  /\ initResub \in Seq(SubInfos)
  /\ reconPc # "idle" => reconInfo \in SubInfos
  /\ appPc \in {"connect", "insert", "threads"} => appInfo \in SubInfos /\ appInfo.sub = lastSub
  /\ appPc \in {"connect", "insert"} => appInfo.handlers = {}
  /\ appPc \in Closing => appInfo \in SubInfos
  /\ topics # "none" => topicSubInfos[topics].sub \in Subs
  /\ appPc = "erase" => topicSubInfos[appKey].sub \in Subs

(* s waits to be connected at first, for the reconnect thread ... *)
Pending(s) ==
  \/ \E i \in 1 .. Len(initResub) : initResub[i].sub = s
  \/ reconPc \in Trying /\ reconInfo.sub = s

(* ... or for subscribe() itself. *)
Waiting(s) == s > Entered \/ Pending(s)

Connects(s) ==
  \/ appPc = "insert" /\ appInfo.sub = s
  \/ reconPc = "initInsert" /\ reconInfo.sub = s

(* The reconnect thread tries every such subscription once. *)
PendingApart ==
  /\ \A i, j \in 1 .. Len(initResub) : initResub[i].sub = initResub[j].sub => i = j
  /\ reconPc \in Trying => \A i \in 1 .. Len(initResub) : initResub[i].sub # reconInfo.sub
  /\ \A s \in Subs : Pending(s) => s <= Entered

(* No entry is of a subscription that has not been entered yet, ...         *)
EntriesKnown ==
  /\ \A k \in Keys : topicSubInfos[k].sub <= Entered
  /\ reconPc # "idle" => reconInfo.sub <= Entered

(* ... and one that waits has no entry under its topic, no connection but   *)
(* the one just made, and no rows.                                          *)
IsNew(s) ==
  /\ topicSubInfos["topic"].sub # s
  /\ delivered[s] = <<>>
  /\ reconPc = "resub" => reconInfo.sub # s
  /\ \A c \in Conns : /\ pc[c] \in {"push", "offset"} => target[c] # s
                      /\ connSub[c] = s => c = made /\ Connects(s)

WaitingIsNew == \A s \in Subs : Waiting(s) => IsNew(s)

(* Subscriptions not entered yet have no threads.                           *)
NotStarted ==
  /\ \A s \in moved : s <= Entered
  /\ \A s \in Subs : s > Entered => \A h \in Handlers : hpc[s][h] = "none"

(* The handler threads of a subscription that subscribe() has connected are *)
(* those of its one entry, once they are started.                           *)
Recorded(s) ==
  /\ \A k \in Keys : topicSubInfos[k].sub = s =>
       \A h \in Handlers : \/ h \in topicSubInfos[k].handlers
                           \/ appPc = "threads" /\ appInfo.sub = s /\ hpc[s][h] = "none"
  /\ topicSubInfos["topic"].sub = s => topicSubInfos["unknown"].sub # s
  /\ appPc \in Closing /\ appInfo.sub = s => appInfo.handlers = Handlers

HandlersRecorded == \A s \in Subs \ moved : Recorded(s)

(* Connections are made in turn, and a parse thread knows its topic from    *)
(* its first message on, and when it pushes a subscription as well.         *)
ConnShape ==
  /\ \A c \in Conns : c > made => pc[c] = "none" /\ ~met[c] /\ connSub[c] = 0 /\ ~open[c]
  /\ \A c \in Conns : c <= made => pc[c] # "none" /\ connSub[c] \in Subs
  /\ \A c \in Conns : pc[c] \in {"schema", "lock", "push", "offset", "lost", "stamp", "mark"} => met[c]
  /\ \A c \in Conns : pc[c] \in {"push", "offset"} => target[c] \in Subs
  /\ \A c \in Conns : IF pc[c] \in {"lock", "push"} THEN hand[c][1] <= hand[c][2]
                                                    ELSE hand[c][1] = hand[c][2] + 1

(* A parse thread pushes rows of the latest connection for the subscription *)
(* the topic has, unless that is ended meanwhile.                           *)
PushShape ==
  \A c \in Conns : pc[c] \in {"push", "offset"} =>
    /\ topicSubInfos["topic"].sub \in {target[c], 0, -1}
    /\ ~outdated => c = made /\ connSub[c] = target[c]

(* While the topic is marked, the latest connection is lost or has not      *)
(* delivered anything.                                                      *)
MarkShape ==
  /\ reconPc = "resub" => topicReconn
  /\ topicReconn => made > 0
  /\ topicReconn /\ ~outdated =>
       pc[made] \in {"done", "schema"} \/ (pc[made] = "read" /\ ~met[made])

Last(s) == delivered[s][Len(delivered[s])]
Follows(row, s) == delivered[s] = <<>> \/ row = Last(s) + 1

(* The row to go on with is known: to the entry of the topic, to the copy   *)
(* the reconnect thread has of it, to the parse thread of the latest        *)
(* connection, and to the one that pushes.                                  *)
EntryRow ==
  topicSubInfos["topic"].sub \in Subs /\ (\A c \in Conns : pc[c] \notin {"push", "offset"})
    => Follows(topicSubInfos["topic"].offset, topicSubInfos["topic"].sub)
CopyRow ==
  reconPc = "resub" /\ reconInfo.sub = topicSubInfos["topic"].sub
    => reconInfo.offset = topicSubInfos["topic"].offset
ConnRow ==
  made > 0 /\ connSub[made] = topicSubInfos["topic"].sub /\ pc[made] \in {"read", "schema", "lock"}
    => Follows(hand[made][1], connSub[made])
PushedRow ==
  \A c \in Conns :
    /\ pc[c] = "push" => Follows(hand[c][1], target[c])
    /\ pc[c] = "offset" => delivered[target[c]] # <<>> /\ hand[c][2] = Last(target[c])
NextKnown == EntryRow /\ CopyRow /\ ConnRow /\ PushedRow

RowsFollow ==
  \A s \in Subs : \A i \in 1 .. Len(delivered[s]) - 1 : delivered[s][i + 1] = delivered[s][i] + 1

DeliveryShape == ~outdated => NextKnown /\ RowsFollow

(* Every insertMeta() of the topic is counted, and at most one of them is   *)
(* undone by the call in progress.                                          *)
Erasing == appPc \in {"erase", "eraseLive", "eraseCount"} /\ appKey = "topic"
Due == IF Erasing THEN 1 ELSE 0
CountShape ==
  /\ topics = "topic" /\ ~(Erasing /\ appPc = "erase") => actionCnt >= Due + 1
  /\ liveSubs /\ ~(Erasing /\ appPc \in {"erase", "eraseLive"}) => actionCnt >= Due + 1
  /\ actionCnt >= Due

(* A connection that breaks while its subscription is being entered is not  *)
(* forgotten either.                                                        *)
ConnectingWatched ==
  ~early => \A s \in Subs : Connects(s) /\ HasReceived(s) => Watched

TypeInv == TypeOK /\ InfoShape /\ ConnShape
EntryInv == PendingApart /\ EntriesKnown /\ WaitingIsNew /\ NotStarted /\ HandlersRecorded
RowInv == PushShape /\ MarkShape /\ DeliveryShape
WatchInv == CountShape /\ NeverForgotten /\ ConnectingWatched

-----------------------------------------------------------------------------
(* Types. *)

MapTypes ==
  /\ topicSubInfos \in [Keys -> Infos] /\ topicReconn \in BOOLEAN /\ liveSubs \in BOOLEAN
  /\ actionCnt \in Int /\ topics \in Keys \cup {"none"}
LockTypes ==
  /\ readyMutex \in Conns \cup {App, Reconnect, Nobody}
  /\ readyMutex = App <=> appPc = "insert"
  /\ readyMutex = Reconnect <=> reconPc = "initInsert"
  /\ \A c \in Conns : readyMutex = c <=> pc[c] \in {"push", "offset"}
QueueTypes ==
  /\ queue \in [Subs -> 0 .. Capacity] /\ stopped \in [Subs -> BOOLEAN]
  /\ delivered \in [Subs -> Seq(Nat)] /\ hpc \in [Subs -> [Handlers -> HandlerLabels]]
  /\ outdated \in BOOLEAN /\ early \in BOOLEAN /\ moved \subseteq Subs
CallTypes ==
  /\ appPc \in AppLabels /\ appInfo \in Infos /\ appKey \in Keys /\ lastSub \in 0 .. MaxSubs
  /\ reconPc \in {"idle", "resub", "init", "initInsert"} /\ reconInfo \in Infos
ConnTypes ==
  /\ made \in 0 .. MaxConns /\ connSub \in [Conns -> Subs \cup {0}]
  /\ open \in [Conns -> BOOLEAN]
  /\ pc \in [Conns -> ParseLabels] /\ met \in [Conns -> BOOLEAN]
  /\ hand \in [Conns -> Nat \X Int] /\ target \in [Conns -> Subs \cup {0}]

-----------------------------------------------------------------------------
(* Single steps. *)

LEMMA InfoFields ==
  ASSUME NEW i \in Infos
  PROVE  /\ i.sub \in Subs \cup {0, -1} /\ i.offset \in Int
         /\ i.socket \in Conns \cup {0} /\ i.handlers \subseteq Handlers
         /\ i = [sub |-> i.sub, offset |-> i.offset, socket |-> i.socket, handlers |-> i.handlers]
  BY DEF Infos

LEMMA InfosWith ==
  ASSUME NEW i \in Infos
  PROVE  /\ \A o \in Int : [i EXCEPT !.offset = o] \in Infos
         /\ \A c \in Conns : [i EXCEPT !.socket = c] \in Infos
         /\ \A h \in Handlers : [i EXCEPT !.handlers = @ \cup {h}] \in Infos
  BY DEF Infos

LEMMA SubInfosAre ==
  /\ SubInfos \subseteq Infos
  /\ \A i \in SubInfos : \A c \in Conns :
       [i EXCEPT !.socket = c] \in SubInfos /\ [i EXCEPT !.socket = c].sub = i.sub
  BY DEF SubInfos, Infos

LEMMA SpecialInfos ==
  /\ Absent \in Infos /\ Blank \in Infos
  /\ Absent.sub = -1 /\ Blank.sub = 0
  BY DEF Infos, Absent, Blank, Info

(* What a connection changes. *)
LEMMA ConnectSteps ==
  ASSUME ConnTypes, NEW info \in SubInfos, Connect(info)
  PROVE  /\ ConnTypes' /\ made' = made + 1 /\ made' \in Conns
         /\ connSub' = [connSub EXCEPT ![made'] = info.sub]
         /\ open' = [open EXCEPT ![made'] = TRUE]
         /\ pc' = [pc EXCEPT ![made'] = "read"]
         /\ \E row \in Nat : /\ hand' = [hand EXCEPT ![made'] = <<row, row - 1>>]
                             /\ info.offset >= 0 => row = info.offset
<1>1. made' = made + 1 /\ made' \in Conns
  BY SubscriptionAssumption DEF Connect, ConnTypes, Conns
<1>2. PICK row \in StartRows(info.offset) : hand' = [hand EXCEPT ![made + 1] = <<row, row - 1>>]
  BY DEF Connect
<1>3. row \in Nat /\ (info.offset >= 0 => row = info.offset)
  BY <1>2, SubscriptionAssumption DEF StartRows, SubInfos
<1>4. info.sub \in Subs
  BY DEF SubInfos
<1>5. hand' \in [Conns -> Nat \X Int]
  BY <1>1, <1>2, <1>3 DEF ConnTypes
<1>6. ConnTypes'
  BY <1>1, <1>4, <1>5 DEF Connect, ConnTypes, Conns, ParseLabels
<1>7. QED
  BY <1>1, <1>2, <1>3, <1>6 DEF Connect

LEMMA ConnectShape ==
  ASSUME ConnTypes, ConnShape, NEW info \in SubInfos, Connect(info)
  PROVE  ConnShape'
<1>1. PICK row \in Nat : hand' = [hand EXCEPT ![made'] = <<row, row - 1>>]
  BY ConnectSteps
<1>2. /\ made' = made + 1 /\ made' \in Conns /\ info.sub \in Subs
      /\ connSub' = [connSub EXCEPT ![made'] = info.sub]
      /\ open' = [open EXCEPT ![made'] = TRUE]
      /\ pc' = [pc EXCEPT ![made'] = "read"]
      /\ met' = met /\ target' = target
  BY ConnectSteps DEF Connect, SubInfos
<1>3. made \in Int /\ \A c \in Conns : c \in Int
  BY SubscriptionAssumption DEF ConnTypes, Conns
<1> DEFINE n == made'
<1>4. n = made + 1 /\ n \in Conns /\ ~met[n]
  BY <1>2, <1>3 DEF ConnShape
<1>5. \A c \in Conns : c # n => /\ pc'[c] = pc[c] /\ connSub'[c] = connSub[c]
                                /\ open'[c] = open[c] /\ hand'[c] = hand[c]
  BY <1>1, <1>2 DEF ConnTypes
<1>6. pc'[n] = "read" /\ connSub'[n] \in Subs /\ hand'[n] = <<row, row - 1>>
  BY <1>1, <1>2, <1>4 DEF ConnTypes
<1> HIDE DEF n
<1>7. \A c \in Conns : c > n => pc'[c] = "none" /\ ~met'[c] /\ connSub'[c] = 0 /\ ~open'[c]
  BY <1>2, <1>3, <1>4, <1>5 DEF ConnShape
<1>8. \A c \in Conns : c <= n => pc'[c] # "none" /\ connSub'[c] \in Subs
  <2> SUFFICES ASSUME NEW c \in Conns, c <= n
               PROVE  pc'[c] # "none" /\ connSub'[c] \in Subs
    OBVIOUS
  <2>1. c = n \/ c <= made
    BY <1>3, <1>4
  <2>2. QED
    BY <2>1, <1>3, <1>4, <1>5, <1>6 DEF ConnShape
<1>9. \A c \in Conns : pc'[c] \in {"schema", "lock", "push", "offset", "lost", "stamp", "mark"}
                         => met'[c]
  BY <1>2, <1>5, <1>6 DEF ConnShape
<1>10. \A c \in Conns : pc'[c] \in {"push", "offset"} => target'[c] \in Subs
  BY <1>2, <1>5, <1>6 DEF ConnShape
<1>11. \A c \in Conns : IF pc'[c] \in {"lock", "push"} THEN hand'[c][1] <= hand'[c][2]
                                                       ELSE hand'[c][1] = hand'[c][2] + 1
  BY <1>5, <1>6 DEF ConnShape
<1>12. made' = n
  BY DEF n
<1>13. QED
  BY <1>7, <1>8, <1>9, <1>10, <1>11, <1>12 DEF ConnShape

(* Recording a thread or an offset leaves the rest of an entry alone. *)
LEMMA RecordKeeps ==
  ASSUME MapTypes, NEW h \in Handlers, Record(h)
  PROVE  \A k \in Keys : /\ topicSubInfos'[k].sub = topicSubInfos[k].sub
                         /\ topicSubInfos'[k].offset = topicSubInfos[k].offset
                         /\ topicSubInfos'[k] \in Infos
                         /\ topicSubInfos[k].handlers \subseteq topicSubInfos'[k].handlers
<1> SUFFICES ASSUME NEW k \in Keys
             PROVE  /\ topicSubInfos'[k].sub = topicSubInfos[k].sub
                    /\ topicSubInfos'[k].offset = topicSubInfos[k].offset
                    /\ topicSubInfos'[k] \in Infos
                    /\ topicSubInfos[k].handlers \subseteq topicSubInfos'[k].handlers
  OBVIOUS
<1>1. topicSubInfos[k] \in Infos
  BY DEF MapTypes
<1>2. topicSubInfos'[k] \in {topicSubInfos[k], [topicSubInfos[k] EXCEPT !.handlers = @ \cup {h}]}
  BY DEF Record, MapTypes
<1>3. QED
  BY <1>1, <1>2 DEF Infos

LEMMA OffsetKeeps ==
  ASSUME NEW i \in Infos, NEW row \in Int
  PROVE  /\ OffsetAfter(i, row) \in Infos
         /\ OffsetAfter(i, row).sub = i.sub /\ OffsetAfter(i, row).handlers = i.handlers
         /\ i # Absent => OffsetAfter(i, row).offset = row + 1
  BY DEF OffsetAfter, Infos

LEMMA SetOffsetKeeps ==
  ASSUME MapTypes, ConnTypes, NEW c \in Conns, SetOffset(c)
  PROVE  /\ \A k \in Keys : /\ topicSubInfos'[k].sub = topicSubInfos[k].sub
                            /\ topicSubInfos'[k].handlers = topicSubInfos[k].handlers
         /\ topicSubInfos["topic"] # Absent => topicSubInfos'["topic"].offset = hand[c][2] + 1
<1>1. topicSubInfos["topic"] \in Infos /\ hand[c][2] \in Int
  BY DEF MapTypes, ConnTypes, Keys
<1> DEFINE new == OffsetAfter(topicSubInfos["topic"], hand[c][2])
<1>2. /\ new.sub = topicSubInfos["topic"].sub /\ new.handlers = topicSubInfos["topic"].handlers
      /\ topicSubInfos["topic"] # Absent => new.offset = hand[c][2] + 1
  BY <1>1, OffsetKeeps
<1>3. topicSubInfos' = [topicSubInfos EXCEPT !["topic"] = new]
  BY DEF SetOffset
<1> HIDE DEF new
<1>4. QED
  BY <1>2, <1>3 DEF MapTypes, Keys

LEMMA MapTypesNext == MapTypes /\ CallTypes /\ ConnTypes /\ InfoShape /\
  [Next]_vars => MapTypes'
<1> SUFFICES ASSUME MapTypes, CallTypes, ConnTypes, InfoShape, [Next]_vars
               PROVE MapTypes'
  OBVIOUS
<1>1. ASSUME UNCHANGED <<topicSubInfos, topicReconn, liveSubs, actionCnt,
             topics>>
     PROVE  MapTypes'
  BY <1>1 DEF MapTypes
<1>2. ASSUME NEW c \in Conns, CutConnection(c) \/ ReadSchema(c) \/ ReadRows(c)
             \/ FindInfo(c) \/ PushRow(c) \/ ReadFails(c)
      PROVE  UNCHANGED <<topicSubInfos, topicReconn, liveSubs, actionCnt,
             topics>>
  BY <1>2 DEF CutConnection, mapVars, appVars, reconVars, parseVars, histVars,
              ReadSchema, Goto, OthersKeep, ReadRows, FindInfo, PushRow,
              ReadFails
<1>3. ASSUME NEW c \in Conns, FindLive(c)
      PROVE  UNCHANGED <<topicSubInfos, topicReconn, liveSubs, actionCnt,
             topics>>
  BY <1>3 DEF FindLive, Goto, mapVars, OthersKeep, appVars, reconVars
<1>4. ASSUME NEW s \in Subs, NEW h \in Handlers, LoopTest(s, h) \/
             PopMessage(s, h) \/ SayBye(s, h)
      PROVE  UNCHANGED <<topicSubInfos, topicReconn, liveSubs, actionCnt,
             topics>>
  BY <1>4 DEF LoopTest, HandlerGoes, HandlerKeeps, mapVars, appVars,
              reconVars, connVars, parseVars, histVars, PopMessage, SayBye
<1>5. ASSUME Subscribe \/ Unsubscribe \/ SubscribeConnects \/ CloseSocket \/
             PushNull \/ JoinHandlers
      PROVE  UNCHANGED <<topicSubInfos, topicReconn, liveSubs, actionCnt,
             topics>>
  BY <1>5 DEF Subscribe, AppGoes, mapVars, reconVars, connVars, parseVars,
              histVars, Unsubscribe, SubscribeConnects, Connect, CloseSocket,
              PushNull, JoinHandlers
<1>6. ASSUME VisitTopic \/ Resubscribes \/ ResubscribeFails \/ VisitInitResub
             \/ InitConnects \/ InitFailsAgain
      PROVE  UNCHANGED <<topicSubInfos, topicReconn, liveSubs, actionCnt,
             topics>>
  BY <1>6 DEF VisitTopic, ReconGoes, mapVars, appVars, connVars, parseVars,
              histVars, Resubscribes, Connect, ReconIdle, ResubscribeFails,
              VisitInitResub, InitConnects, InitFailsAgain, MarkAfterFailure
<1>7. ASSUME NEW c \in Conns, SchemaParsed(c) PROVE MapTypes'
  BY <1>7 DEF SchemaParsed, Goto, mapVars, histVars, OthersKeep, appVars,
              reconVars, MapTypes, CallTypes, Keys, MarkAfterFailure
<1>8. ASSUME NEW c \in Conns, SetOffset(c) PROVE MapTypes'
  <2>1. OffsetAfter(topicSubInfos["topic"], hand[c][2]) \in Infos
    BY OffsetKeeps DEF MapTypes, ConnTypes, Keys
  <2>2. QED
    BY <1>8, <2>1 DEF SetOffset, histVars, OthersKeep, MapTypes
<1>9. ASSUME NEW c \in Conns, StampTime(c) PROVE MapTypes'
  BY <1>9, SpecialInfos DEF StampTime, Goto, histVars, OthersKeep, appVars,
                            reconVars, MapTypes, CallTypes, Keys,
                            MarkAfterFailure
<1>10. ASSUME NEW c \in Conns, MarkTopic(c) PROVE MapTypes'
  BY <1>10 DEF MarkTopic, Goto, mapVars, OthersKeep, appVars, reconVars,
               MapTypes, CallTypes, Keys, MarkAfterFailure
<1>11. ASSUME SubscribeInserts PROVE MapTypes'
  BY <1>11 DEF SubscribeInserts, InsertMeta, AppGoes, reconVars, connVars,
               parseVars, histVars, MapTypes, CallTypes, Keys,
               MarkAfterFailure
<1>12. ASSUME SubscribeFails PROVE MapTypes'
  BY <1>12 DEF SubscribeFails, InsertMeta, AppGoes, reconVars, connVars,
               parseVars, histVars, MapTypes, CallTypes, Keys,
               MarkAfterFailure
<1>13. ASSUME NEW h \in Handlers, AddHandleThread(h) PROVE MapTypes'
  <2>2. topicSubInfos' \in [Keys -> Infos]
    BY <1>13, RecordKeeps DEF AddHandleThread, Record, MapTypes
  <2>3. QED
    BY <1>13, <2>2 DEF AddHandleThread, MapTypes
<1>14. ASSUME EraseInfo PROVE MapTypes'
  BY <1>14, SpecialInfos DEF EraseInfo, AppGoes, reconVars, connVars,
                             parseVars, histVars, MapTypes, CallTypes, Keys,
                             MarkAfterFailure
<1>15. ASSUME EraseLive PROVE MapTypes'
  BY <1>15 DEF EraseLive, AppGoes, reconVars, connVars, parseVars, histVars,
               MapTypes, CallTypes, Keys, MarkAfterFailure
<1>16. ASSUME EraseCount PROVE MapTypes'
  BY <1>16 DEF EraseCount, AppGoes, reconVars, connVars, parseVars, histVars,
               MapTypes, CallTypes, Keys, MarkAfterFailure
<1>17. ASSUME InitInserts PROVE MapTypes'
  BY <1>17 DEF InitInserts, InsertMeta, ReconIdle, appVars, connVars,
               parseVars, MapTypes, CallTypes, Keys, MarkAfterFailure
<1>18. CASE UNCHANGED vars
  BY <1>1, <1>18 DEF vars, mapVars, appVars, reconVars, connVars, parseVars,
                     histVars
<1>19. QED
  BY <1>1, <1>2, <1>3, <1>4, <1>5, <1>6, <1>7, <1>8, <1>9, <1>10, <1>11,
     <1>12, <1>13, <1>14, <1>15, <1>16, <1>17, <1>18 DEF Next, AppGoesOn,
     ParseStep, ReconnectStep, HandlerStep

LEMMA LockTypesNext == LockTypes /\ ConnTypes /\ [Next]_vars => LockTypes'
<1> SUFFICES ASSUME LockTypes, ConnTypes, [Next]_vars PROVE LockTypes'
  OBVIOUS
<1>1. ASSUME UNCHANGED <<readyMutex, appPc, reconPc, pc>> PROVE LockTypes'
  BY <1>1 DEF LockTypes
<1>2. ASSUME NEW c \in Conns, CutConnection(c)
      PROVE  UNCHANGED <<readyMutex, appPc, reconPc, pc>>
  BY <1>2 DEF CutConnection, mapVars, appVars, reconVars, parseVars, histVars
<1>3. ASSUME NEW s \in Subs, NEW h \in Handlers, LoopTest(s, h) \/
             PopMessage(s, h) \/ SayBye(s, h)
      PROVE  UNCHANGED <<readyMutex, appPc, reconPc, pc>>
  BY <1>3 DEF LoopTest, HandlerGoes, HandlerKeeps, mapVars, appVars,
              reconVars, connVars, parseVars, histVars, PopMessage, SayBye
<1>4. ASSUME NEW c \in Conns, ReadSchema(c) PROVE LockTypes'
  <2>1. /\ UNCHANGED <<readyMutex, appPc, reconPc>>
        /\ \A d \in Conns : pc'[d] \in {"push", "offset"} <=> pc[d] \in {"push", "offset"}
    BY <1>4 DEF ReadSchema, Goto, OthersKeep, appVars, reconVars, ConnTypes
  <2>2. QED
    BY <2>1 DEF LockTypes
<1>5. ASSUME NEW c \in Conns, SchemaParsed(c) PROVE LockTypes'
  <2>1. /\ UNCHANGED <<readyMutex, appPc, reconPc>>
        /\ \A d \in Conns : pc'[d] \in {"push", "offset"} <=> pc[d] \in {"push", "offset"}
    BY <1>5 DEF SchemaParsed, Goto, OthersKeep, appVars, reconVars, ConnTypes
  <2>2. QED
    BY <2>1 DEF LockTypes
<1>6. ASSUME NEW c \in Conns, ReadRows(c) PROVE LockTypes'
  <2>1. /\ UNCHANGED <<readyMutex, appPc, reconPc>>
        /\ \A d \in Conns : pc'[d] \in {"push", "offset"} <=> pc[d] \in {"push", "offset"}
    BY <1>6 DEF ReadRows, Goto, OthersKeep, appVars, reconVars, ConnTypes
  <2>2. QED
    BY <2>1 DEF LockTypes
<1>7. ASSUME NEW c \in Conns, FindInfo(c) PROVE LockTypes'
  BY <1>7, SubscriptionAssumption DEF FindInfo, Goto, mapVars, OthersKeep,
                                      appVars, reconVars, LockTypes,
                                      ConnTypes, Conns, Nobody, App, Reconnect
<1>8. ASSUME NEW c \in Conns, PushRow(c) PROVE LockTypes'
  BY <1>8, SubscriptionAssumption DEF PushRow, Goto, mapVars, OthersKeep,
                                      appVars, reconVars, LockTypes,
                                      ConnTypes, Conns, Nobody, App, Reconnect
<1>9. ASSUME NEW c \in Conns, SetOffset(c) PROVE LockTypes'
  BY <1>9, SubscriptionAssumption DEF SetOffset, Goto, histVars, OthersKeep,
                                      appVars, reconVars, LockTypes,
                                      ConnTypes, Conns, Nobody, App, Reconnect
<1>10. ASSUME NEW c \in Conns, ReadFails(c) PROVE LockTypes'
  <2>1. /\ UNCHANGED <<readyMutex, appPc, reconPc>>
        /\ \A d \in Conns : pc'[d] \in {"push", "offset"} <=> pc[d] \in {"push", "offset"}
    BY <1>10 DEF ReadFails, Goto, OthersKeep, appVars, reconVars, ConnTypes
  <2>2. QED
    BY <2>1 DEF LockTypes
<1>11. ASSUME NEW c \in Conns, FindLive(c) PROVE LockTypes'
  <2>1. /\ UNCHANGED <<readyMutex, appPc, reconPc>>
        /\ \A d \in Conns : pc'[d] \in {"push", "offset"} <=> pc[d] \in {"push", "offset"}
    BY <1>11 DEF FindLive, Goto, OthersKeep, appVars, reconVars, ConnTypes
  <2>2. QED
    BY <2>1 DEF LockTypes
<1>12. ASSUME NEW c \in Conns, StampTime(c) PROVE LockTypes'
  <2>1. /\ UNCHANGED <<readyMutex, appPc, reconPc>>
        /\ \A d \in Conns : pc'[d] \in {"push", "offset"} <=> pc[d] \in {"push", "offset"}
    BY <1>12 DEF StampTime, Goto, OthersKeep, appVars, reconVars, ConnTypes
  <2>2. QED
    BY <2>1 DEF LockTypes
<1>13. ASSUME NEW c \in Conns, MarkTopic(c) PROVE LockTypes'
  <2>1. /\ UNCHANGED <<readyMutex, appPc, reconPc>>
        /\ \A d \in Conns : pc'[d] \in {"push", "offset"} <=> pc[d] \in {"push", "offset"}
    BY <1>13 DEF MarkTopic, Goto, OthersKeep, appVars, reconVars, ConnTypes
  <2>2. QED
    BY <2>1 DEF LockTypes
<1>14. ASSUME Subscribe PROVE LockTypes'
  BY <1>14, SubscriptionAssumption DEF Subscribe, AppGoes, mapVars, reconVars,
                                       connVars, parseVars, histVars,
                                       LockTypes, ConnTypes, Conns, Nobody,
                                       App, Reconnect
<1>15. ASSUME Unsubscribe PROVE LockTypes'
  BY <1>15, SubscriptionAssumption DEF Unsubscribe, AppGoes, mapVars,
                                       reconVars, connVars, parseVars,
                                       histVars, LockTypes, ConnTypes, Conns,
                                       Nobody, App, Reconnect
<1>16. ASSUME SubscribeConnects PROVE LockTypes'
  BY <1>16, SubscriptionAssumption DEF SubscribeConnects, Connect, AppGoes,
                                       mapVars, reconVars, histVars,
                                       LockTypes, ConnTypes, Conns, Nobody,
                                       App, Reconnect
<1>17. ASSUME SubscribeInserts PROVE LockTypes'
  BY <1>17, SubscriptionAssumption DEF SubscribeInserts, InsertMeta, AppGoes,
                                       reconVars, connVars, parseVars,
                                       histVars, LockTypes, ConnTypes, Conns,
                                       Nobody, App, Reconnect
<1>18. ASSUME SubscribeFails PROVE LockTypes'
  BY <1>18, SubscriptionAssumption DEF SubscribeFails, InsertMeta, AppGoes,
                                       reconVars, connVars, parseVars,
                                       histVars, LockTypes, ConnTypes, Conns,
                                       Nobody, App, Reconnect
<1>19. ASSUME NEW h \in Handlers, AddHandleThread(h) PROVE LockTypes'
  BY <1>19, SubscriptionAssumption DEF AddHandleThread, Record, AppGoes,
                                       reconVars, connVars, parseVars,
                                       histVars, LockTypes, ConnTypes, Conns,
                                       Nobody, App, Reconnect
<1>20. ASSUME EraseInfo PROVE LockTypes'
  BY <1>20, SubscriptionAssumption DEF EraseInfo, AppGoes, reconVars,
                                       connVars, parseVars, histVars,
                                       LockTypes, ConnTypes, Conns, Nobody,
                                       App, Reconnect
<1>21. ASSUME EraseLive PROVE LockTypes'
  BY <1>21, SubscriptionAssumption DEF EraseLive, AppGoes, reconVars,
                                       connVars, parseVars, histVars,
                                       LockTypes, ConnTypes, Conns, Nobody,
                                       App, Reconnect
<1>22. ASSUME EraseCount PROVE LockTypes'
  BY <1>22, SubscriptionAssumption DEF EraseCount, AppGoes, reconVars,
                                       connVars, parseVars, histVars,
                                       LockTypes, ConnTypes, Conns, Nobody,
                                       App, Reconnect
<1>23. ASSUME CloseSocket PROVE LockTypes'
  BY <1>23, SubscriptionAssumption DEF CloseSocket, AppGoes, mapVars,
                                       reconVars, parseVars, histVars,
                                       LockTypes, ConnTypes, Conns, Nobody,
                                       App, Reconnect
<1>24. ASSUME PushNull PROVE LockTypes'
  BY <1>24, SubscriptionAssumption DEF PushNull, AppGoes, mapVars, reconVars,
                                       connVars, parseVars, histVars,
                                       LockTypes, ConnTypes, Conns, Nobody,
                                       App, Reconnect
<1>25. ASSUME JoinHandlers PROVE LockTypes'
  BY <1>25, SubscriptionAssumption DEF JoinHandlers, AppGoes, mapVars,
                                       reconVars, connVars, parseVars,
                                       histVars, LockTypes, ConnTypes, Conns,
                                       Nobody, App, Reconnect
<1>26. ASSUME VisitTopic PROVE LockTypes'
  BY <1>26, SubscriptionAssumption DEF VisitTopic, ReconGoes, mapVars,
                                       appVars, connVars, parseVars, histVars,
                                       LockTypes, ConnTypes, Conns, Nobody,
                                       App, Reconnect
<1>27. ASSUME Resubscribes PROVE LockTypes'
  BY <1>27, SubscriptionAssumption DEF Resubscribes, Connect, ReconIdle,
                                       mapVars, appVars, histVars, LockTypes,
                                       ConnTypes, Conns, Nobody, App,
                                       Reconnect
<1>28. ASSUME ResubscribeFails PROVE LockTypes'
  BY <1>28, SubscriptionAssumption DEF ResubscribeFails, ReconIdle, mapVars,
                                       appVars, connVars, parseVars, histVars,
                                       LockTypes, ConnTypes, Conns, Nobody,
                                       App, Reconnect
<1>29. ASSUME VisitInitResub PROVE LockTypes'
  BY <1>29, SubscriptionAssumption DEF VisitInitResub, ReconGoes, mapVars,
                                       appVars, connVars, parseVars, histVars,
                                       LockTypes, ConnTypes, Conns, Nobody,
                                       App, Reconnect
<1>30. ASSUME InitConnects PROVE LockTypes'
  BY <1>30, SubscriptionAssumption DEF InitConnects, Connect, ReconGoes,
                                       mapVars, appVars, histVars, LockTypes,
                                       ConnTypes, Conns, Nobody, App,
                                       Reconnect
<1>31. ASSUME InitInserts PROVE LockTypes'
  BY <1>31, SubscriptionAssumption DEF InitInserts, InsertMeta, ReconIdle,
                                       appVars, connVars, parseVars,
                                       LockTypes, ConnTypes, Conns, Nobody,
                                       App, Reconnect
<1>32. ASSUME InitFailsAgain PROVE LockTypes'
  BY <1>32, SubscriptionAssumption DEF InitFailsAgain, ReconIdle, mapVars,
                                       appVars, connVars, parseVars, histVars,
                                       LockTypes, ConnTypes, Conns, Nobody,
                                       App, Reconnect
<1>33. CASE UNCHANGED vars
  BY <1>1, <1>33 DEF vars, mapVars, appVars, reconVars, connVars, parseVars,
                     histVars
<1>34. QED
  BY <1>1, <1>2, <1>3, <1>4, <1>5, <1>6, <1>7, <1>8, <1>9, <1>10, <1>11,
     <1>12, <1>13, <1>14, <1>15, <1>16, <1>17, <1>18, <1>19, <1>20, <1>21,
     <1>22, <1>23, <1>24, <1>25, <1>26, <1>27, <1>28, <1>29, <1>30, <1>31,
     <1>32, <1>33 DEF Next, AppGoesOn, ParseStep, ReconnectStep, HandlerStep

LEMMA QueueTypesNext == QueueTypes /\ CallTypes /\ ConnTypes /\ InfoShape /\
  ConnShape /\ [Next]_vars => QueueTypes'
<1> SUFFICES ASSUME QueueTypes, CallTypes, ConnTypes, InfoShape, ConnShape,
               [Next]_vars PROVE QueueTypes'
  OBVIOUS
<1>1. ASSUME UNCHANGED <<queue, stopped, delivered, hpc, outdated, early,
             moved>>
     PROVE  QueueTypes'
  BY <1>1 DEF QueueTypes
<1>2. ASSUME NEW c \in Conns, CutConnection(c) \/ ReadSchema(c) \/
             SchemaParsed(c) \/ ReadRows(c) \/ SetOffset(c) \/ StampTime(c)
      PROVE  UNCHANGED <<queue, stopped, delivered, hpc, outdated, early,
             moved>>
  BY <1>2 DEF CutConnection, mapVars, appVars, reconVars, parseVars, histVars,
              ReadSchema, Goto, OthersKeep, SchemaParsed, ReadRows, SetOffset,
              StampTime
<1>3. ASSUME Subscribe \/ Unsubscribe \/ SubscribeConnects \/ SubscribeInserts
             \/ SubscribeFails \/ EraseInfo
      PROVE  UNCHANGED <<queue, stopped, delivered, hpc, outdated, early,
             moved>>
  BY <1>3 DEF Subscribe, AppGoes, mapVars, reconVars, connVars, parseVars,
              histVars, Unsubscribe, SubscribeConnects, Connect,
              SubscribeInserts, InsertMeta, SubscribeFails, EraseInfo
<1>4. ASSUME EraseLive \/ EraseCount \/ JoinHandlers \/ VisitTopic \/
             Resubscribes \/ ResubscribeFails
      PROVE  UNCHANGED <<queue, stopped, delivered, hpc, outdated, early,
             moved>>
  BY <1>4 DEF EraseLive, AppGoes, reconVars, connVars, parseVars, histVars,
              EraseCount, JoinHandlers, mapVars, VisitTopic, ReconGoes,
              appVars, Resubscribes, Connect, ReconIdle, ResubscribeFails,
              MarkAfterFailure
<1>5. ASSUME VisitInitResub \/ InitConnects \/ InitFailsAgain
      PROVE  UNCHANGED <<queue, stopped, delivered, hpc, outdated, early,
             moved>>
  BY <1>5 DEF VisitInitResub, ReconGoes, mapVars, appVars, connVars,
              parseVars, histVars, InitConnects, Connect, InitFailsAgain,
              ReconIdle
<1>6. ASSUME NEW c \in Conns, FindInfo(c) PROVE QueueTypes'
  BY <1>6 DEF FindInfo, Goto, mapVars, OthersKeep, appVars, reconVars,
              QueueTypes, Outdated
<1>7. ASSUME NEW c \in Conns, PushRow(c) PROVE QueueTypes'
  <2>1. target[c] \in Subs /\ hand[c][1] \in Nat
    BY <1>7 DEF PushRow, ConnShape, ConnTypes
  <2>2. queue' \in [Subs -> 0 .. Capacity]
    BY <1>7, <2>1, SubscriptionAssumption DEF PushRow, HasRoom, QueueTypes
  <2>3. delivered' \in [Subs -> Seq(Nat)]
    BY <1>7, <2>1 DEF PushRow, QueueTypes
  <2>4. QED
    BY <1>7, <2>2, <2>3 DEF PushRow, OthersKeep, QueueTypes
<1>8. ASSUME NEW c \in Conns, ReadFails(c) PROVE QueueTypes'
  BY <1>8 DEF ReadFails, Goto, mapVars, OthersKeep, appVars, reconVars,
              QueueTypes
<1>9. ASSUME NEW c \in Conns, FindLive(c) PROVE QueueTypes'
  BY <1>9 DEF FindLive, Goto, mapVars, OthersKeep, appVars, reconVars,
              QueueTypes
<1>10. ASSUME NEW c \in Conns, MarkTopic(c) PROVE QueueTypes'
  BY <1>10 DEF MarkTopic, Goto, mapVars, OthersKeep, appVars, reconVars,
               QueueTypes, Outdated
<1>11. ASSUME NEW h \in Handlers, AddHandleThread(h) PROVE QueueTypes'
  BY <1>11 DEF AddHandleThread, Record, AppGoes, reconVars, connVars,
               parseVars, histVars, QueueTypes, HandlerLabels
<1>12. ASSUME CloseSocket PROVE QueueTypes'
  BY <1>12 DEF CloseSocket, AppGoes, mapVars, reconVars, parseVars, histVars,
               QueueTypes, CallTypes
<1>13. ASSUME PushNull PROVE QueueTypes'
  <2>1. appInfo.sub \in Subs
    BY <1>13 DEF PushNull, InfoShape, Closing, SubInfos
  <2>2. queue' \in [Subs -> 0 .. Capacity]
    BY <1>13, <2>1, SubscriptionAssumption DEF PushNull, HasRoom, QueueTypes
  <2>3. QED
    BY <1>13, <2>2 DEF PushNull, histVars, QueueTypes
<1>14. ASSUME InitInserts PROVE QueueTypes'
  BY <1>14 DEF InitInserts, InsertMeta, ReconIdle, appVars, connVars,
               parseVars, QueueTypes, InfoShape, SubInfos
<1>15. ASSUME NEW s \in Subs, NEW h \in Handlers, LoopTest(s, h) PROVE
              QueueTypes'
  BY <1>15 DEF LoopTest, HandlerGoes, HandlerKeeps, mapVars, appVars,
               reconVars, connVars, parseVars, histVars, QueueTypes,
               HandlerLabels
<1>16. ASSUME NEW s \in Subs, NEW h \in Handlers, PopMessage(s, h) PROVE
              QueueTypes'
  BY <1>16, SubscriptionAssumption DEF PopMessage, HandlerGoes, HandlerKeeps,
                                       mapVars, appVars, reconVars, connVars,
                                       parseVars, histVars, QueueTypes,
                                       HandlerLabels
<1>17. ASSUME NEW s \in Subs, NEW h \in Handlers, SayBye(s, h) PROVE
              QueueTypes'
  BY <1>17, SubscriptionAssumption DEF SayBye, HandlerGoes, HandlerKeeps,
                                       mapVars, appVars, reconVars, connVars,
                                       parseVars, histVars, QueueTypes,
                                       HandlerLabels, HasRoom, PassOn
<1>18. CASE UNCHANGED vars
  BY <1>1, <1>18 DEF vars, mapVars, appVars, reconVars, connVars, parseVars,
                     histVars
<1>19. QED
  BY <1>1, <1>2, <1>3, <1>4, <1>5, <1>6, <1>7, <1>8, <1>9, <1>10, <1>11,
     <1>12, <1>13, <1>14, <1>15, <1>16, <1>17, <1>18 DEF Next, AppGoesOn,
     ParseStep, ReconnectStep, HandlerStep

LEMMA CallTypesNext == CallTypes /\ MapTypes /\ ConnTypes /\ InfoShape /\
  [Next]_vars => CallTypes'
<1> SUFFICES ASSUME CallTypes, MapTypes, ConnTypes, InfoShape, [Next]_vars
               PROVE CallTypes'
  OBVIOUS
<1>1. ASSUME UNCHANGED <<appPc, appInfo, appKey, lastSub, reconPc, reconInfo>>
     PROVE  CallTypes'
  BY <1>1 DEF CallTypes
<1>2. ASSUME NEW c \in Conns, CutConnection(c) \/ ReadSchema(c) \/
             SchemaParsed(c) \/ ReadRows(c) \/ FindInfo(c) \/ PushRow(c)
      PROVE  UNCHANGED <<appPc, appInfo, appKey, lastSub, reconPc, reconInfo>>
  BY <1>2 DEF CutConnection, mapVars, appVars, reconVars, parseVars, histVars,
              ReadSchema, Goto, OthersKeep, SchemaParsed, ReadRows, FindInfo,
              PushRow
<1>3. ASSUME NEW c \in Conns, SetOffset(c) \/ ReadFails(c) \/ FindLive(c) \/
             StampTime(c) \/ MarkTopic(c)
      PROVE  UNCHANGED <<appPc, appInfo, appKey, lastSub, reconPc, reconInfo>>
  BY <1>3 DEF SetOffset, Goto, histVars, OthersKeep, appVars, reconVars,
              ReadFails, mapVars, FindLive, StampTime, MarkTopic
<1>4. ASSUME NEW s \in Subs, NEW h \in Handlers, LoopTest(s, h) \/
             PopMessage(s, h) \/ SayBye(s, h)
      PROVE  UNCHANGED <<appPc, appInfo, appKey, lastSub, reconPc, reconInfo>>
  BY <1>4 DEF LoopTest, HandlerGoes, HandlerKeeps, mapVars, appVars,
              reconVars, connVars, parseVars, histVars, PopMessage, SayBye
<1>5. ASSUME Subscribe PROVE CallTypes'
  BY <1>5, SubscriptionAssumption DEF Subscribe, AppGoes, mapVars, reconVars,
                                      connVars, parseVars, histVars,
                                      CallTypes, AppLabels, Infos, Info, Subs
<1>6. ASSUME Unsubscribe PROVE CallTypes'
  BY <1>6 DEF Unsubscribe, AppGoes, mapVars, reconVars, connVars, parseVars,
              histVars, CallTypes, AppLabels, MapTypes, Keys
<1>7. ASSUME SubscribeConnects PROVE CallTypes'
  <2>1. appInfo' \in Infos
    BY <1>7, ConnectSteps, InfosWith DEF SubscribeConnects, CallTypes, InfoShape
  <2>2. QED
    BY <1>7, <2>1 DEF SubscribeConnects, AppGoes, reconVars, CallTypes, AppLabels
<1>8. ASSUME SubscribeInserts PROVE CallTypes'
  BY <1>8 DEF SubscribeInserts, InsertMeta, AppGoes, reconVars, connVars,
              parseVars, histVars, CallTypes, AppLabels
<1>9. ASSUME SubscribeFails PROVE CallTypes'
  BY <1>9 DEF SubscribeFails, InsertMeta, AppGoes, reconVars, connVars,
              parseVars, histVars, CallTypes, AppLabels
<1>10. ASSUME NEW h \in Handlers, AddHandleThread(h) PROVE CallTypes'
  BY <1>10, SpecialInfos DEF AddHandleThread, Record, AppGoes, reconVars,
                             connVars, parseVars, histVars, CallTypes,
                             AppLabels
<1>11. ASSUME EraseInfo PROVE CallTypes'
  BY <1>11 DEF EraseInfo, AppGoes, reconVars, connVars, parseVars, histVars,
               CallTypes, AppLabels, MapTypes
<1>12. ASSUME EraseLive PROVE CallTypes'
  BY <1>12 DEF EraseLive, AppGoes, reconVars, connVars, parseVars, histVars,
               CallTypes, AppLabels
<1>13. ASSUME EraseCount PROVE CallTypes'
  BY <1>13 DEF EraseCount, AppGoes, reconVars, connVars, parseVars, histVars,
               CallTypes, AppLabels
<1>14. ASSUME CloseSocket PROVE CallTypes'
  BY <1>14 DEF CloseSocket, AppGoes, mapVars, reconVars, parseVars, histVars,
               CallTypes, AppLabels
<1>15. ASSUME PushNull PROVE CallTypes'
  BY <1>15 DEF PushNull, AppGoes, mapVars, reconVars, connVars, parseVars,
               histVars, CallTypes, AppLabels
<1>16. ASSUME JoinHandlers PROVE CallTypes'
  BY <1>16, SpecialInfos DEF JoinHandlers, AppGoes, mapVars, reconVars,
                             connVars, parseVars, histVars, CallTypes,
                             AppLabels
<1>17. ASSUME VisitTopic PROVE CallTypes'
  BY <1>17 DEF VisitTopic, ReconGoes, mapVars, appVars, connVars, parseVars,
               histVars, CallTypes, AppLabels, MapTypes, Keys
<1>18. ASSUME Resubscribes PROVE CallTypes'
  BY <1>18, SpecialInfos DEF Resubscribes, Connect, ReconIdle, mapVars,
                             appVars, histVars, CallTypes, AppLabels
<1>19. ASSUME ResubscribeFails PROVE CallTypes'
  BY <1>19, SpecialInfos DEF ResubscribeFails, ReconIdle, mapVars, appVars,
                             connVars, parseVars, histVars, CallTypes,
                             AppLabels
<1>20. ASSUME VisitInitResub PROVE CallTypes'
  <2>1. Head(initResub) \in SubInfos
    BY <1>20 DEF VisitInitResub, InfoShape
  <2>2. QED
    BY <1>20, <2>1, SubInfosAre DEF VisitInitResub, ReconGoes, appVars, CallTypes
<1>21. ASSUME InitConnects PROVE CallTypes'
  <2>1. reconInfo' \in Infos
    BY <1>21, ConnectSteps, InfosWith DEF InitConnects, CallTypes, InfoShape
  <2>2. QED
    BY <1>21, <2>1 DEF InitConnects, ReconGoes, appVars, CallTypes
<1>22. ASSUME InitInserts PROVE CallTypes'
  BY <1>22, SpecialInfos DEF InitInserts, InsertMeta, ReconIdle, appVars,
                             connVars, parseVars, CallTypes, AppLabels
<1>23. ASSUME InitFailsAgain PROVE CallTypes'
  BY <1>23, SpecialInfos DEF InitFailsAgain, ReconIdle, mapVars, appVars,
                             connVars, parseVars, histVars, CallTypes,
                             AppLabels
<1>24. CASE UNCHANGED vars
  BY <1>1, <1>24 DEF vars, mapVars, appVars, reconVars, connVars, parseVars,
                     histVars
<1>25. QED
  BY <1>1, <1>2, <1>3, <1>4, <1>5, <1>6, <1>7, <1>8, <1>9, <1>10, <1>11,
     <1>12, <1>13, <1>14, <1>15, <1>16, <1>17, <1>18, <1>19, <1>20, <1>21,
     <1>22, <1>23, <1>24 DEF Next, AppGoesOn, ParseStep, ReconnectStep,
     HandlerStep

LEMMA ConnTypesNext == ConnTypes /\ CallTypes /\ MapTypes /\ InfoShape /\
  ConnShape /\ [Next]_vars => ConnTypes'
<1> SUFFICES ASSUME ConnTypes, CallTypes, MapTypes, InfoShape, ConnShape,
               [Next]_vars PROVE ConnTypes'
  OBVIOUS
<1>1. ASSUME UNCHANGED <<made, connSub, open, pc, met, hand, target>> PROVE ConnTypes'
  BY <1>1 DEF ConnTypes
<1>2. ASSUME NEW h \in Handlers, AddHandleThread(h)
      PROVE  UNCHANGED <<made, connSub, open, pc, met, hand, target>>
  BY <1>2 DEF AddHandleThread, Record, AppGoes, reconVars, connVars,
              parseVars, histVars
<1>3. ASSUME NEW s \in Subs, NEW h \in Handlers, LoopTest(s, h) \/
             PopMessage(s, h) \/ SayBye(s, h)
      PROVE  UNCHANGED <<made, connSub, open, pc, met, hand, target>>
  BY <1>3 DEF LoopTest, HandlerGoes, HandlerKeeps, mapVars, appVars,
              reconVars, connVars, parseVars, histVars, PopMessage, SayBye
<1>4. ASSUME Subscribe \/ Unsubscribe \/ SubscribeInserts \/ SubscribeFails \/
             EraseInfo \/ EraseLive
      PROVE  UNCHANGED <<made, connSub, open, pc, met, hand, target>>
  BY <1>4 DEF Subscribe, AppGoes, mapVars, reconVars, connVars, parseVars,
              histVars, Unsubscribe, SubscribeInserts, InsertMeta,
              SubscribeFails, EraseInfo, EraseLive
<1>5. ASSUME EraseCount \/ PushNull \/ JoinHandlers \/ VisitTopic \/
             ResubscribeFails \/ VisitInitResub
      PROVE  UNCHANGED <<made, connSub, open, pc, met, hand, target>>
  BY <1>5 DEF EraseCount, AppGoes, reconVars, connVars, parseVars, histVars,
              PushNull, mapVars, JoinHandlers, VisitTopic, ReconGoes, appVars,
              ResubscribeFails, ReconIdle, VisitInitResub, MarkAfterFailure
<1>6. ASSUME InitInserts \/ InitFailsAgain
      PROVE  UNCHANGED <<made, connSub, open, pc, met, hand, target>>
  BY <1>6 DEF InitInserts, InsertMeta, ReconIdle, appVars, connVars,
              parseVars, InitFailsAgain, mapVars, histVars
<1>7. ASSUME NEW c \in Conns, CutConnection(c) PROVE ConnTypes'
  BY <1>7 DEF CutConnection, mapVars, appVars, reconVars, parseVars, histVars,
              ConnTypes, ParseLabels
<1>8. ASSUME NEW c \in Conns, ReadSchema(c) PROVE ConnTypes'
  BY <1>8 DEF ReadSchema, Goto, mapVars, histVars, OthersKeep, appVars,
              reconVars, ConnTypes, ParseLabels
<1>9. ASSUME NEW c \in Conns, SchemaParsed(c) PROVE ConnTypes'
  BY <1>9 DEF SchemaParsed, Goto, mapVars, histVars, OthersKeep, appVars,
              reconVars, ConnTypes, ParseLabels
<1>10. ASSUME NEW c \in Conns, ReadRows(c) PROVE ConnTypes'
  BY <1>10, SubscriptionAssumption DEF ReadRows, Goto, mapVars, histVars,
                                       OthersKeep, appVars, reconVars,
                                       ConnTypes, ParseLabels
<1>11. ASSUME NEW c \in Conns, FindInfo(c) PROVE ConnTypes'
  <2>1. hand[c][2] + 1 \in Nat
    BY <1>11 DEF FindInfo, ConnShape, ConnTypes
  <2>2. topicSubInfos["topic"].sub > 0 => topicSubInfos["topic"].sub \in Subs
    BY InfoFields DEF MapTypes, Keys
  <2>3. CASE topicSubInfos["topic"].sub > 0
    BY <1>11, <2>2, <2>3 DEF FindInfo, Goto, OthersKeep, ConnTypes, ParseLabels
  <2>4. CASE ~(topicSubInfos["topic"].sub > 0)
    <3>1. hand' \in [Conns -> Nat \X Int]
      BY <1>11, <2>1, <2>4 DEF FindInfo, ConnTypes
    <3>2. QED
      BY <1>11, <2>4, <3>1 DEF FindInfo, Goto, OthersKeep, ConnTypes, ParseLabels
  <2>5. QED
    BY <2>3, <2>4
<1>12. ASSUME NEW c \in Conns, PushRow(c) PROVE ConnTypes'
  BY <1>12 DEF PushRow, Goto, mapVars, OthersKeep, appVars, reconVars,
               ConnTypes, ParseLabels, Rest, NoRows
<1>13. ASSUME NEW c \in Conns, SetOffset(c) PROVE ConnTypes'
  BY <1>13 DEF SetOffset, Goto, histVars, OthersKeep, appVars, reconVars,
               ConnTypes, ParseLabels
<1>14. ASSUME NEW c \in Conns, ReadFails(c) PROVE ConnTypes'
  BY <1>14 DEF ReadFails, Goto, mapVars, OthersKeep, appVars, reconVars,
               ConnTypes, ParseLabels
<1>15. ASSUME NEW c \in Conns, FindLive(c) PROVE ConnTypes'
  BY <1>15 DEF FindLive, Goto, mapVars, OthersKeep, appVars, reconVars,
               ConnTypes, ParseLabels
<1>16. ASSUME NEW c \in Conns, StampTime(c) PROVE ConnTypes'
  BY <1>16 DEF StampTime, Goto, histVars, OthersKeep, appVars, reconVars,
               ConnTypes, ParseLabels
<1>17. ASSUME NEW c \in Conns, MarkTopic(c) PROVE ConnTypes'
  BY <1>17 DEF MarkTopic, Goto, mapVars, OthersKeep, appVars, reconVars,
               ConnTypes, ParseLabels
<1>18. ASSUME SubscribeConnects PROVE ConnTypes'
  BY <1>18, ConnectSteps DEF SubscribeConnects, InfoShape
<1>19. ASSUME CloseSocket PROVE ConnTypes'
  BY <1>19 DEF CloseSocket, AppGoes, mapVars, reconVars, parseVars, histVars,
               ConnTypes, ParseLabels
<1>20. ASSUME Resubscribes PROVE ConnTypes'
  BY <1>20, ConnectSteps DEF Resubscribes, InfoShape
<1>21. ASSUME InitConnects PROVE ConnTypes'
  BY <1>21, ConnectSteps DEF InitConnects, InfoShape
<1>22. CASE UNCHANGED vars
  BY <1>1, <1>22 DEF vars, mapVars, appVars, reconVars, connVars, parseVars,
                     histVars
<1>23. QED
  BY <1>1, <1>2, <1>3, <1>4, <1>5, <1>6, <1>7, <1>8, <1>9, <1>10, <1>11,
     <1>12, <1>13, <1>14, <1>15, <1>16, <1>17, <1>18, <1>19, <1>20, <1>21,
     <1>22 DEF Next, AppGoesOn, ParseStep, ReconnectStep, HandlerStep

LEMMA ConnShapeNext == ConnShape /\ ConnTypes /\ CallTypes /\ MapTypes /\
  InfoShape /\ [Next]_vars => ConnShape'
<1> SUFFICES ASSUME ConnShape, ConnTypes, CallTypes, MapTypes, InfoShape,
               [Next]_vars PROVE ConnShape'
  OBVIOUS
<1>1. ASSUME UNCHANGED <<made, connSub, open, pc, met, hand, target>> PROVE ConnShape'
  BY <1>1 DEF ConnShape
<1>2. ASSUME NEW h \in Handlers, AddHandleThread(h)
      PROVE  UNCHANGED <<made, connSub, open, pc, met, hand, target>>
  BY <1>2 DEF AddHandleThread, Record, AppGoes, reconVars, connVars,
              parseVars, histVars
<1>3. ASSUME NEW s \in Subs, NEW h \in Handlers, LoopTest(s, h) \/
             PopMessage(s, h) \/ SayBye(s, h)
      PROVE  UNCHANGED <<made, connSub, open, pc, met, hand, target>>
  BY <1>3 DEF LoopTest, HandlerGoes, HandlerKeeps, mapVars, appVars,
              reconVars, connVars, parseVars, histVars, PopMessage, SayBye
<1>4. ASSUME Subscribe \/ Unsubscribe \/ SubscribeInserts \/ SubscribeFails \/
             EraseInfo \/ EraseLive
      PROVE  UNCHANGED <<made, connSub, open, pc, met, hand, target>>
  BY <1>4 DEF Subscribe, AppGoes, mapVars, reconVars, connVars, parseVars,
              histVars, Unsubscribe, SubscribeInserts, InsertMeta,
              SubscribeFails, EraseInfo, EraseLive
<1>5. ASSUME EraseCount \/ PushNull \/ JoinHandlers \/ VisitTopic \/
             ResubscribeFails \/ VisitInitResub
      PROVE  UNCHANGED <<made, connSub, open, pc, met, hand, target>>
  BY <1>5 DEF EraseCount, AppGoes, reconVars, connVars, parseVars, histVars,
              PushNull, mapVars, JoinHandlers, VisitTopic, ReconGoes, appVars,
              ResubscribeFails, ReconIdle, VisitInitResub, MarkAfterFailure
<1>6. ASSUME InitInserts \/ InitFailsAgain
      PROVE  UNCHANGED <<made, connSub, open, pc, met, hand, target>>
  BY <1>6 DEF InitInserts, InsertMeta, ReconIdle, appVars, connVars,
              parseVars, InitFailsAgain, mapVars, histVars
<1>7. ASSUME NEW c \in Conns, CutConnection(c) PROVE ConnShape'
  BY <1>7 DEF CutConnection, mapVars, appVars, reconVars, parseVars, histVars,
              ConnShape, ConnTypes
<1>8. ASSUME NEW c \in Conns, ReadSchema(c) PROVE ConnShape'
  BY <1>8 DEF ReadSchema, Goto, mapVars, histVars, OthersKeep, appVars,
              reconVars, ConnShape, ConnTypes
<1>9. ASSUME NEW c \in Conns, SchemaParsed(c) PROVE ConnShape'
  BY <1>9 DEF SchemaParsed, Goto, mapVars, histVars, OthersKeep, appVars,
              reconVars, ConnShape, ConnTypes
<1>10. ASSUME NEW c \in Conns, ReadRows(c) PROVE ConnShape'
  BY <1>10 DEF ReadRows, Goto, mapVars, histVars, OthersKeep, appVars,
               reconVars, ConnShape, ConnTypes
<1>11. ASSUME NEW c \in Conns, FindInfo(c) PROVE ConnShape'
  <2>1. topicSubInfos["topic"].sub > 0 => topicSubInfos["topic"].sub \in Subs
    BY InfoFields DEF MapTypes, Keys
  <2>2. QED
    BY <1>11, <2>1 DEF FindInfo, Goto, OthersKeep, ConnShape, ConnTypes
<1>12. ASSUME NEW c \in Conns, PushRow(c) PROVE ConnShape'
  BY <1>12 DEF PushRow, Goto, mapVars, OthersKeep, appVars, reconVars,
               ConnShape, ConnTypes, Rest, NoRows
<1>13. ASSUME NEW c \in Conns, SetOffset(c) PROVE ConnShape'
  BY <1>13 DEF SetOffset, Goto, histVars, OthersKeep, appVars, reconVars,
               ConnShape, ConnTypes
<1>14. ASSUME NEW c \in Conns, ReadFails(c) PROVE ConnShape'
  BY <1>14 DEF ReadFails, Goto, mapVars, OthersKeep, appVars, reconVars,
               ConnShape, ConnTypes, Recovers
<1>15. ASSUME NEW c \in Conns, FindLive(c) PROVE ConnShape'
  BY <1>15 DEF FindLive, Goto, mapVars, OthersKeep, appVars, reconVars,
               ConnShape, ConnTypes
<1>16. ASSUME NEW c \in Conns, StampTime(c) PROVE ConnShape'
  BY <1>16 DEF StampTime, Goto, histVars, OthersKeep, appVars, reconVars,
               ConnShape, ConnTypes
<1>17. ASSUME NEW c \in Conns, MarkTopic(c) PROVE ConnShape'
  BY <1>17 DEF MarkTopic, Goto, mapVars, OthersKeep, appVars, reconVars,
               ConnShape, ConnTypes
<1>18. ASSUME SubscribeConnects PROVE ConnShape'
  BY <1>18, ConnectShape DEF SubscribeConnects, InfoShape
<1>19. ASSUME CloseSocket PROVE ConnShape'
  BY <1>19 DEF CloseSocket, AppGoes, mapVars, reconVars, parseVars, histVars,
               ConnShape, ConnTypes
<1>20. ASSUME Resubscribes PROVE ConnShape'
  BY <1>20, ConnectShape DEF Resubscribes, InfoShape
<1>21. ASSUME InitConnects PROVE ConnShape'
  BY <1>21, ConnectShape DEF InitConnects, InfoShape
<1>22. CASE UNCHANGED vars
  BY <1>1, <1>22 DEF vars, mapVars, appVars, reconVars, connVars, parseVars,
                     histVars
<1>23. QED
  BY <1>1, <1>2, <1>3, <1>4, <1>5, <1>6, <1>7, <1>8, <1>9, <1>10, <1>11,
     <1>12, <1>13, <1>14, <1>15, <1>16, <1>17, <1>18, <1>19, <1>20, <1>21,
     <1>22 DEF Next, AppGoesOn, ParseStep, ReconnectStep, HandlerStep

LEMMA InfoShapeNext == InfoShape /\ MapTypes /\ CallTypes /\ ConnTypes /\
  [Next]_vars => InfoShape'
<1> SUFFICES ASSUME InfoShape, MapTypes, CallTypes, ConnTypes, [Next]_vars
               PROVE InfoShape'
  OBVIOUS
<1>1. ASSUME UNCHANGED <<initResub, reconPc, reconInfo, appPc, appInfo,
             lastSub, topics, topicSubInfos, appKey>>
     PROVE  InfoShape'
  BY <1>1 DEF InfoShape
<1>2. ASSUME NEW c \in Conns, CutConnection(c) \/ ReadSchema(c) \/
             SchemaParsed(c) \/ ReadRows(c) \/ FindInfo(c) \/ PushRow(c)
      PROVE  UNCHANGED <<initResub, reconPc, reconInfo, appPc, appInfo,
             lastSub, topics, topicSubInfos, appKey>>
  BY <1>2 DEF CutConnection, mapVars, appVars, reconVars, parseVars, histVars,
              ReadSchema, Goto, OthersKeep, SchemaParsed, ReadRows, FindInfo,
              PushRow
<1>3. ASSUME NEW c \in Conns, ReadFails(c) \/ FindLive(c) \/ MarkTopic(c)
      PROVE  UNCHANGED <<initResub, reconPc, reconInfo, appPc, appInfo,
             lastSub, topics, topicSubInfos, appKey>>
  BY <1>3 DEF ReadFails, Goto, mapVars, OthersKeep, appVars, reconVars,
              FindLive, MarkTopic
<1>4. ASSUME NEW s \in Subs, NEW h \in Handlers, LoopTest(s, h) \/
             PopMessage(s, h) \/ SayBye(s, h)
      PROVE  UNCHANGED <<initResub, reconPc, reconInfo, appPc, appInfo,
             lastSub, topics, topicSubInfos, appKey>>
  BY <1>4 DEF LoopTest, HandlerGoes, HandlerKeeps, mapVars, appVars,
              reconVars, connVars, parseVars, histVars, PopMessage, SayBye
<1>5. ASSUME NEW c \in Conns, SetOffset(c) PROVE InfoShape'
  BY <1>5, SpecialInfos DEF SetOffset, Goto, histVars, OthersKeep, appVars,
                            reconVars, InfoShape, Closing, CallTypes,
                            MapTypes, OffsetAfter, ConnTypes
<1>6. ASSUME NEW c \in Conns, StampTime(c) PROVE InfoShape'
  BY <1>6, SpecialInfos DEF StampTime, Goto, histVars, OthersKeep, appVars,
                            reconVars, InfoShape, Closing, CallTypes,
                            MapTypes, Keys, Subs
<1>7. ASSUME Subscribe PROVE InfoShape'
  BY <1>7, SubscriptionAssumption DEF Subscribe, AppGoes, mapVars, reconVars,
                                      connVars, parseVars, histVars,
                                      InfoShape, Closing, CallTypes, MapTypes,
                                      Info, SubInfos, Subs
<1>8. ASSUME Unsubscribe PROVE InfoShape'
  BY <1>8 DEF Unsubscribe, AppGoes, mapVars, reconVars, connVars, parseVars,
              histVars, InfoShape, Closing, CallTypes, MapTypes
<1>9. ASSUME SubscribeConnects PROVE InfoShape'
  BY <1>9, ConnectSteps, SubInfosAre DEF SubscribeConnects, AppGoes, mapVars, reconVars,
     InfoShape, Closing, CallTypes
<1>10. ASSUME SubscribeInserts PROVE InfoShape'
  BY <1>10 DEF SubscribeInserts, InsertMeta, AppGoes, reconVars, connVars,
               parseVars, histVars, InfoShape, Closing, CallTypes, MapTypes,
               SubInfos, Keys
<1>11. ASSUME SubscribeFails PROVE InfoShape'
  BY <1>11 DEF SubscribeFails, InsertMeta, AppGoes, reconVars, connVars,
               parseVars, histVars, InfoShape, Closing, CallTypes, MapTypes,
               SubInfos, Keys
<1>12. ASSUME NEW h \in Handlers, AddHandleThread(h) PROVE InfoShape'
  BY <1>12, RecordKeeps DEF AddHandleThread, Record, AppGoes, reconVars,
                            connVars, parseVars, histVars, InfoShape, Closing,
                            CallTypes, MapTypes, Keys, Absent, Info
<1>13. ASSUME EraseInfo PROVE InfoShape'
  BY <1>13, SpecialInfos DEF EraseInfo, AppGoes, reconVars, connVars,
                             parseVars, histVars, InfoShape, Closing,
                             CallTypes, MapTypes, SubInfos, Infos, Subs, Keys
<1>14. ASSUME EraseLive PROVE InfoShape'
  BY <1>14 DEF EraseLive, AppGoes, reconVars, connVars, parseVars, histVars,
               InfoShape, Closing, CallTypes, MapTypes
<1>15. ASSUME EraseCount PROVE InfoShape'
  BY <1>15 DEF EraseCount, AppGoes, reconVars, connVars, parseVars, histVars,
               InfoShape, Closing, CallTypes, MapTypes
<1>16. ASSUME CloseSocket PROVE InfoShape'
  BY <1>16 DEF CloseSocket, AppGoes, mapVars, reconVars, parseVars, histVars,
               InfoShape, Closing, CallTypes, MapTypes, SubInfos
<1>17. ASSUME PushNull PROVE InfoShape'
  BY <1>17 DEF PushNull, AppGoes, mapVars, reconVars, connVars, parseVars,
               histVars, InfoShape, Closing, CallTypes, MapTypes
<1>18. ASSUME JoinHandlers PROVE InfoShape'
  BY <1>18 DEF JoinHandlers, AppGoes, mapVars, reconVars, connVars, parseVars,
               histVars, InfoShape, Closing, CallTypes, MapTypes
<1>19. ASSUME VisitTopic PROVE InfoShape'
  BY <1>19, SubscriptionAssumption DEF VisitTopic, ReconGoes, mapVars,
                                       appVars, connVars, parseVars, histVars,
                                       InfoShape, Closing, CallTypes,
                                       MapTypes, SubInfos, Infos, Subs, Keys
<1>20. ASSUME Resubscribes PROVE InfoShape'
  BY <1>20 DEF Resubscribes, Connect, ReconIdle, mapVars, appVars, histVars,
               InfoShape, Closing, CallTypes, MapTypes
<1>21. ASSUME ResubscribeFails PROVE InfoShape'
  BY <1>21 DEF ResubscribeFails, ReconIdle, mapVars, appVars, connVars,
               parseVars, histVars, InfoShape, Closing, CallTypes, MapTypes
<1>22. ASSUME VisitInitResub PROVE InfoShape'
  BY <1>22 DEF VisitInitResub, ReconGoes, mapVars, appVars, connVars,
               parseVars, histVars, InfoShape, Closing, CallTypes, MapTypes
<1>23. ASSUME InitConnects PROVE InfoShape'
  BY <1>23, ConnectSteps, SubInfosAre DEF InitConnects, ReconGoes, mapVars, appVars,
     InfoShape, Closing, CallTypes
<1>24. ASSUME InitInserts PROVE InfoShape'
  BY <1>24 DEF InitInserts, InsertMeta, ReconIdle, appVars, connVars,
               parseVars, InfoShape, Closing, CallTypes, MapTypes, SubInfos,
               Keys
<1>25. ASSUME InitFailsAgain PROVE InfoShape'
  BY <1>25 DEF InitFailsAgain, ReconIdle, mapVars, appVars, connVars,
               parseVars, histVars, InfoShape, Closing, CallTypes, MapTypes
<1>26. CASE UNCHANGED vars
  BY <1>1, <1>26 DEF vars, mapVars, appVars, reconVars, connVars, parseVars,
                     histVars
<1>27. QED
  BY <1>1, <1>2, <1>3, <1>4, <1>5, <1>6, <1>7, <1>8, <1>9, <1>10, <1>11,
     <1>12, <1>13, <1>14, <1>15, <1>16, <1>17, <1>18, <1>19, <1>20, <1>21,
     <1>22, <1>23, <1>24, <1>25, <1>26 DEF Next, AppGoesOn, ParseStep,
     ReconnectStep, HandlerStep

LEMMA TypeGroups ==
  TypeInv <=> /\ MapTypes /\ LockTypes /\ QueueTypes /\ CallTypes /\ ConnTypes
              /\ InfoShape /\ ConnShape
<1>1. InfoShape => initResub \in Seq(Infos)
  BY SubInfosAre DEF InfoShape
<1>2. TypeOK <=> /\ MapTypes /\ LockTypes /\ QueueTypes /\ CallTypes /\ ConnTypes
                 /\ initResub \in Seq(Infos)
  BY DEF TypeOK, MapTypes, LockTypes, QueueTypes, CallTypes, ConnTypes
<1>3. QED
  BY <1>1, <1>2 DEF TypeInv

LEMMA TypeInit == Init => TypeInv
<1> SUFFICES ASSUME Init PROVE TypeInv
  OBVIOUS
<1>1. MapTypes
  <2>1. topicSubInfos \in [Keys -> Infos]
    BY SpecialInfos DEF Init
  <2>2. topicReconn \in BOOLEAN /\ liveSubs \in BOOLEAN
    BY DEF Init
  <2>3. actionCnt \in Int /\ topics \in Keys \cup {"none"}
    BY DEF Init
  <2>4. QED
    BY <2>1, <2>2, <2>3 DEF MapTypes
<1>2. LockTypes
  BY SubscriptionAssumption DEF Init, LockTypes, Conns, App, Reconnect, Nobody
<1>3. QueueTypes
  <2>1. delivered \in [Subs -> Seq(Nat)] /\ queue \in [Subs -> 0 .. Capacity]
    BY SubscriptionAssumption DEF Init
  <2>2. hpc \in [Subs -> [Handlers -> HandlerLabels]] /\ stopped \in [Subs -> BOOLEAN]
    BY DEF Init, HandlerLabels
  <2>3. QED
    BY <2>1, <2>2 DEF Init, QueueTypes
<1>4. CallTypes
  BY SpecialInfos, SubscriptionAssumption DEF Init, CallTypes, AppLabels, Keys
<1>5. ConnTypes
  BY SubscriptionAssumption DEF Init, ConnTypes, ParseLabels
<1>6. InfoShape
  BY DEF Init, InfoShape, Closing
<1>7. ConnShape
  BY SubscriptionAssumption DEF Init, ConnShape, Conns
<1>8. QED
  BY <1>1, <1>2, <1>3, <1>4, <1>5, <1>6, <1>7, TypeGroups

LEMMA TypeNext == TypeInv /\ [Next]_vars => TypeInv'
<1> SUFFICES ASSUME TypeInv, [Next]_vars PROVE TypeInv'
  OBVIOUS
<1>1. /\ MapTypes /\ LockTypes /\ QueueTypes /\ CallTypes /\ ConnTypes
      /\ InfoShape /\ ConnShape
  BY TypeGroups
<1>2. MapTypes' /\ LockTypes' /\ QueueTypes' /\ CallTypes' /\ ConnTypes'
  BY <1>1, MapTypesNext, LockTypesNext, QueueTypesNext, CallTypesNext, ConnTypesNext
<1>3. InfoShape' /\ ConnShape'
  BY <1>1, InfoShapeNext, ConnShapeNext
<1>4. QED
  BY <1>2, <1>3, TypeGroups, PTL

(* Every variable has its type, readyMutex_ is held exactly by who is       *)
(* between its lock and its unlock, no queue exceeds its capacity, and what *)
(* the calls and the parse threads refer to exists.                         *)
THEOREM TypeCorrect == Spec => []TypeInv
  BY TypeInit, TypeNext, PTL DEF Spec

-----------------------------------------------------------------------------
(* Subscriptions that wait. *)

LEMMA EnteredType == TypeInv => Entered \in Nat
  BY TypeGroups, SubscriptionAssumption DEF CallTypes, InfoShape, Entered, SubInfos, Subs


LEMMA PendingApartNext == TypeInv /\ PendingApart /\ [Next]_vars =>
  PendingApart'
<1> SUFFICES ASSUME TypeInv, PendingApart, [Next]_vars PROVE PendingApart'
  OBVIOUS
<1>1. ASSUME UNCHANGED <<initResub, reconPc, reconInfo, appPc, lastSub>>
     PROVE  PendingApart'
  BY <1>1 DEF PendingApart, Pending, Entered
<1>2. ASSUME NEW c \in Conns, CutConnection(c) \/ ReadSchema(c) \/
             SchemaParsed(c) \/ ReadRows(c) \/ FindInfo(c) \/ PushRow(c)
      PROVE  UNCHANGED <<initResub, reconPc, reconInfo, appPc, lastSub>>
  BY <1>2 DEF CutConnection, mapVars, appVars, reconVars, parseVars, histVars,
              ReadSchema, Goto, OthersKeep, SchemaParsed, ReadRows, FindInfo,
              PushRow
<1>3. ASSUME NEW c \in Conns, SetOffset(c) \/ ReadFails(c) \/ FindLive(c) \/
             StampTime(c) \/ MarkTopic(c)
      PROVE  UNCHANGED <<initResub, reconPc, reconInfo, appPc, lastSub>>
  BY <1>3 DEF SetOffset, Goto, histVars, OthersKeep, appVars, reconVars,
              ReadFails, mapVars, FindLive, StampTime, MarkTopic
<1>4. ASSUME NEW s \in Subs, NEW h \in Handlers, LoopTest(s, h) \/
             PopMessage(s, h) \/ SayBye(s, h)
      PROVE  UNCHANGED <<initResub, reconPc, reconInfo, appPc, lastSub>>
  BY <1>4 DEF LoopTest, HandlerGoes, HandlerKeeps, mapVars, appVars,
              reconVars, connVars, parseVars, histVars, PopMessage, SayBye
<1>5. ASSUME Subscribe PROVE PendingApart'
  BY <1>5, TypeGroups, SubscriptionAssumption DEF Subscribe, AppGoes, mapVars,
                                                  reconVars, connVars,
                                                  parseVars, histVars,
                                                  PendingApart, Pending,
                                                  Entered, CallTypes
<1>6. ASSUME Unsubscribe PROVE PendingApart'
  BY <1>6 DEF Unsubscribe, AppGoes, mapVars, reconVars, connVars, parseVars,
              histVars, PendingApart, Pending, Entered
<1>7. ASSUME SubscribeConnects PROVE PendingApart'
  BY <1>7 DEF SubscribeConnects, Connect, AppGoes, mapVars, reconVars,
              histVars, PendingApart, Pending, Entered
<1>8. ASSUME SubscribeInserts PROVE PendingApart'
  BY <1>8, TypeGroups, SubscriptionAssumption DEF SubscribeInserts,
                                                  InsertMeta, AppGoes,
                                                  reconVars, connVars,
                                                  parseVars, histVars,
                                                  PendingApart, Pending,
                                                  Entered, CallTypes, Subs
<1>9. ASSUME SubscribeFails PROVE PendingApart'
  <2>1. appInfo.sub = lastSub /\ lastSub \in Nat /\ Entered' = lastSub /\ Entered = lastSub - 1
    BY <1>9, TypeGroups, SubscriptionAssumption
    DEF SubscribeFails, AppGoes, InfoShape, CallTypes, Entered
  <2>2. Len(initResub) \in Nat /\ initResub' = Append(initResub, appInfo) /\ UNCHANGED reconVars
    BY <1>9, TypeGroups DEF SubscribeFails, InfoShape
  <2>3. \A i \in 1 .. Len(initResub) : initResub[i].sub # lastSub
    <3> SUFFICES ASSUME NEW i \in 1 .. Len(initResub), initResub[i].sub = lastSub PROVE FALSE
      OBVIOUS
    <3>1. initResub[i] \in SubInfos
      BY TypeGroups DEF InfoShape
    <3>2. lastSub \in Subs /\ Pending(lastSub)
      BY <3>1 DEF SubInfos, Pending
    <3>3. QED
      BY <3>2, <2>1 DEF PendingApart
  <2>4. reconPc \in Trying => reconInfo.sub # lastSub
    <3>1. reconPc \in Trying /\ reconInfo.sub = lastSub => Pending(lastSub) /\ lastSub \in Subs
      BY TypeGroups DEF Pending, InfoShape, SubInfos, Trying
    <3>2. QED
      BY <3>1, <2>1 DEF PendingApart
  <2>5. \A s \in Subs : Pending(s)' => s = lastSub \/ Pending(s)
    BY <2>1, <2>2 DEF Pending, reconVars
  <2>6. \A s \in Subs : s \in Int
    BY DEF Subs
  <2>7. QED
    BY <2>1, <2>2, <2>3, <2>4, <2>5, <2>6, TypeGroups DEF PendingApart, InfoShape, reconVars
<1>10. ASSUME NEW h \in Handlers, AddHandleThread(h) PROVE PendingApart'
  BY <1>10 DEF AddHandleThread, Record, AppGoes, reconVars, connVars,
               parseVars, histVars, PendingApart, Pending, Entered
<1>11. ASSUME EraseInfo PROVE PendingApart'
  BY <1>11 DEF EraseInfo, AppGoes, reconVars, connVars, parseVars, histVars,
               PendingApart, Pending, Entered
<1>12. ASSUME EraseLive PROVE PendingApart'
  BY <1>12 DEF EraseLive, AppGoes, reconVars, connVars, parseVars, histVars,
               PendingApart, Pending, Entered
<1>13. ASSUME EraseCount PROVE PendingApart'
  BY <1>13 DEF EraseCount, AppGoes, reconVars, connVars, parseVars, histVars,
               PendingApart, Pending, Entered
<1>14. ASSUME CloseSocket PROVE PendingApart'
  BY <1>14 DEF CloseSocket, AppGoes, mapVars, reconVars, parseVars, histVars,
               PendingApart, Pending, Entered
<1>15. ASSUME PushNull PROVE PendingApart'
  BY <1>15 DEF PushNull, AppGoes, mapVars, reconVars, connVars, parseVars,
               histVars, PendingApart, Pending, Entered
<1>16. ASSUME JoinHandlers PROVE PendingApart'
  BY <1>16 DEF JoinHandlers, AppGoes, mapVars, reconVars, connVars, parseVars,
               histVars, PendingApart, Pending, Entered
<1>17. ASSUME VisitTopic PROVE PendingApart'
  BY <1>17 DEF VisitTopic, ReconGoes, mapVars, appVars, connVars, parseVars,
               histVars, PendingApart, Pending, Entered, Trying
<1>18. ASSUME Resubscribes PROVE PendingApart'
  BY <1>18 DEF Resubscribes, Connect, ReconIdle, mapVars, appVars, histVars,
               PendingApart, Pending, Entered, Trying
<1>19. ASSUME ResubscribeFails PROVE PendingApart'
  BY <1>19 DEF ResubscribeFails, ReconIdle, mapVars, appVars, connVars,
               parseVars, histVars, PendingApart, Pending, Entered, Trying
<1>20. ASSUME VisitInitResub PROVE PendingApart'
  <2>1. Len(initResub) \in Nat /\ Len(initResub) > 0 /\ initResub \in Seq(SubInfos)
    BY <1>20, TypeGroups DEF VisitInitResub, InfoShape
  <2>2. /\ reconInfo' = initResub[1] /\ Len(initResub') = Len(initResub) - 1
        /\ \A i \in 1 .. Len(initResub') : initResub'[i] = initResub[i + 1]
        /\ UNCHANGED <<appPc, lastSub>>
    BY <1>20, <2>1 DEF VisitInitResub, appVars
  <2>3. \A s \in Subs : Pending(s)' => Pending(s)
    BY <2>1, <2>2 DEF Pending
  <2>4. \A i, j \in 1 .. Len(initResub') : initResub'[i].sub = initResub'[j].sub => i = j
    BY <2>1, <2>2 DEF PendingApart
  <2>5. \A i \in 1 .. Len(initResub') : initResub'[i].sub # reconInfo'.sub
    BY <2>1, <2>2 DEF PendingApart
  <2>6. \A s \in Subs : Pending(s)' => s <= Entered'
    BY <2>2, <2>3 DEF PendingApart, Entered
  <2>7. QED
    BY <2>4, <2>5, <2>6 DEF PendingApart
<1>21. ASSUME InitConnects PROVE PendingApart'
  BY <1>21, ConnectSteps, SubInfosAre, TypeGroups DEF InitConnects, ReconGoes, appVars,
     PendingApart, Pending, Entered, Trying, InfoShape
<1>22. ASSUME InitInserts PROVE PendingApart'
  BY <1>22 DEF InitInserts, InsertMeta, ReconIdle, appVars, connVars,
               parseVars, PendingApart, Pending, Entered, Trying
<1>23. ASSUME InitFailsAgain PROVE PendingApart'
  <2>1. Len(initResub) \in Nat /\ initResub' = Append(initResub, reconInfo) /\ reconPc' = "idle"
        /\ UNCHANGED appVars /\ initResub \in Seq(SubInfos) /\ reconPc \in Trying
    BY <1>23, TypeGroups DEF InitFailsAgain, ReconIdle, InfoShape, Trying
  <2>2. \A s \in Subs : Pending(s)' => Pending(s)
    BY <2>1 DEF Pending, Trying
  <2>3. QED
    BY <2>1, <2>2 DEF PendingApart, Entered, Trying, appVars
<1>24. CASE UNCHANGED vars
  BY <1>1, <1>24 DEF vars, mapVars, appVars, reconVars, connVars, parseVars,
                     histVars
<1>25. QED
  BY <1>1, <1>2, <1>3, <1>4, <1>5, <1>6, <1>7, <1>8, <1>9, <1>10, <1>11,
     <1>12, <1>13, <1>14, <1>15, <1>16, <1>17, <1>18, <1>19, <1>20, <1>21,
     <1>22, <1>23, <1>24 DEF Next, AppGoesOn, ParseStep, ReconnectStep,
     HandlerStep

LEMMA EntriesKnownNext == TypeInv /\ PendingApart /\ EntriesKnown /\
  [Next]_vars => EntriesKnown'
<1> SUFFICES ASSUME TypeInv, PendingApart, EntriesKnown, [Next]_vars PROVE
               EntriesKnown'
  OBVIOUS
<1>1. ASSUME UNCHANGED <<topicSubInfos, reconPc, reconInfo, appPc, lastSub>>
     PROVE  EntriesKnown'
  BY <1>1 DEF EntriesKnown, Entered
<1>2. ASSUME NEW c \in Conns, CutConnection(c) \/ ReadSchema(c) \/
             SchemaParsed(c) \/ ReadRows(c) \/ FindInfo(c) \/ PushRow(c)
      PROVE  UNCHANGED <<topicSubInfos, reconPc, reconInfo, appPc, lastSub>>
  BY <1>2 DEF CutConnection, mapVars, appVars, reconVars, parseVars, histVars,
              ReadSchema, Goto, OthersKeep, SchemaParsed, ReadRows, FindInfo,
              PushRow
<1>3. ASSUME NEW c \in Conns, ReadFails(c) \/ FindLive(c) \/ MarkTopic(c)
      PROVE  UNCHANGED <<topicSubInfos, reconPc, reconInfo, appPc, lastSub>>
  BY <1>3 DEF ReadFails, Goto, mapVars, OthersKeep, appVars, reconVars,
              FindLive, MarkTopic
<1>4. ASSUME NEW s \in Subs, NEW h \in Handlers, LoopTest(s, h) \/
             PopMessage(s, h) \/ SayBye(s, h)
      PROVE  UNCHANGED <<topicSubInfos, reconPc, reconInfo, appPc, lastSub>>
  BY <1>4 DEF LoopTest, HandlerGoes, HandlerKeeps, mapVars, appVars,
              reconVars, connVars, parseVars, histVars, PopMessage, SayBye
<1>5. ASSUME NEW c \in Conns, SetOffset(c) PROVE EntriesKnown'
  <2>2. \A k \in Keys : topicSubInfos'[k].sub = topicSubInfos[k].sub
    BY <1>5, SetOffsetKeeps, TypeGroups
  <2>3. QED
    BY <1>5, <2>2 DEF SetOffset, OthersKeep, appVars, reconVars, EntriesKnown, Entered
<1>6. ASSUME NEW c \in Conns, StampTime(c) PROVE EntriesKnown'
  <2>1. \A k \in Keys : topicSubInfos'[k].sub \in {topicSubInfos[k].sub, 0}
    BY <1>6, SpecialInfos, TypeGroups DEF StampTime, MapTypes, Keys
  <2>2. UNCHANGED <<appPc, lastSub, reconPc, reconInfo>>
    BY <1>6 DEF StampTime, OthersKeep, appVars, reconVars
  <2>3. QED
    BY <2>1, <2>2, EnteredType DEF EntriesKnown, Entered
<1>7. ASSUME Subscribe PROVE EntriesKnown'
  BY <1>7, TypeGroups, SubscriptionAssumption DEF Subscribe, AppGoes, mapVars,
                                                  reconVars, connVars,
                                                  parseVars, histVars,
                                                  EntriesKnown, Entered,
                                                  CallTypes
<1>8. ASSUME Unsubscribe PROVE EntriesKnown'
  BY <1>8 DEF Unsubscribe, AppGoes, mapVars, reconVars, connVars, parseVars,
              histVars, EntriesKnown, Entered
<1>9. ASSUME SubscribeConnects PROVE EntriesKnown'
  BY <1>9 DEF SubscribeConnects, Connect, AppGoes, mapVars, reconVars,
              histVars, EntriesKnown, Entered
<1>10. ASSUME SubscribeInserts PROVE EntriesKnown'
  <2>1. Entered = lastSub - 1 /\ Entered' = lastSub /\ appInfo.sub = lastSub /\ lastSub \in Nat
    BY <1>10, TypeGroups, SubscriptionAssumption DEF SubscribeInserts, AppGoes, Entered, InfoShape, CallTypes
  <2>2. \A k \in Keys : topicSubInfos'[k].sub \in {topicSubInfos[k].sub, lastSub}
    BY <1>10, <2>1, TypeGroups DEF SubscribeInserts, InsertMeta, MapTypes
  <2>3. (\A k \in Keys : topicSubInfos[k].sub \in Int) /\ reconInfo.sub \in Int
    BY InfoFields, TypeGroups DEF MapTypes, CallTypes, Subs
  <2>4. QED
    BY <1>10, <2>1, <2>2, <2>3 DEF SubscribeInserts, reconVars, EntriesKnown
<1>11. ASSUME SubscribeFails PROVE EntriesKnown'
  <2>1. Entered = lastSub - 1 /\ Entered' = lastSub /\ appInfo.sub = lastSub /\ lastSub \in Nat
    BY <1>11, TypeGroups, SubscriptionAssumption DEF SubscribeFails, AppGoes, Entered, InfoShape, CallTypes
  <2>2. \A k \in Keys : topicSubInfos'[k].sub \in {topicSubInfos[k].sub, lastSub}
    BY <1>11, <2>1, TypeGroups DEF SubscribeFails, InsertMeta, MapTypes
  <2>3. (\A k \in Keys : topicSubInfos[k].sub \in Int) /\ reconInfo.sub \in Int
    BY InfoFields, TypeGroups DEF MapTypes, CallTypes, Subs
  <2>4. QED
    BY <1>11, <2>1, <2>2, <2>3 DEF SubscribeFails, reconVars, EntriesKnown
<1>12. ASSUME NEW h \in Handlers, AddHandleThread(h) PROVE EntriesKnown'
  <2>1. Entered' = Entered
    BY <1>12 DEF AddHandleThread, AppGoes, Entered
  <2>2. QED
    BY <1>12, <2>1, RecordKeeps, TypeGroups DEF AddHandleThread, reconVars, EntriesKnown
<1>13. ASSUME EraseInfo PROVE EntriesKnown'
  <2>1. \A k \in Keys : topicSubInfos'[k].sub \in {topicSubInfos[k].sub, -1}
    BY <1>13, SpecialInfos, TypeGroups DEF EraseInfo, MapTypes
  <2>2. Entered' = Entered /\ UNCHANGED reconVars
    BY <1>13 DEF EraseInfo, AppGoes, Entered
  <2>3. QED
    BY <2>1, <2>2, EnteredType DEF EntriesKnown, reconVars
<1>14. ASSUME EraseLive PROVE EntriesKnown'
  BY <1>14 DEF EraseLive, AppGoes, reconVars, connVars, parseVars, histVars,
               EntriesKnown, Entered
<1>15. ASSUME EraseCount PROVE EntriesKnown'
  BY <1>15 DEF EraseCount, AppGoes, reconVars, connVars, parseVars, histVars,
               EntriesKnown, Entered
<1>16. ASSUME CloseSocket PROVE EntriesKnown'
  BY <1>16 DEF CloseSocket, AppGoes, mapVars, reconVars, parseVars, histVars,
               EntriesKnown, Entered
<1>17. ASSUME PushNull PROVE EntriesKnown'
  BY <1>17 DEF PushNull, AppGoes, mapVars, reconVars, connVars, parseVars,
               histVars, EntriesKnown, Entered
<1>18. ASSUME JoinHandlers PROVE EntriesKnown'
  BY <1>18 DEF JoinHandlers, AppGoes, mapVars, reconVars, connVars, parseVars,
               histVars, EntriesKnown, Entered
<1>19. ASSUME VisitTopic PROVE EntriesKnown'
  BY <1>19 DEF VisitTopic, ReconGoes, mapVars, appVars, connVars, parseVars,
               histVars, EntriesKnown, Entered, Keys
<1>20. ASSUME Resubscribes PROVE EntriesKnown'
  BY <1>20 DEF Resubscribes, Connect, ReconIdle, mapVars, appVars, histVars,
               EntriesKnown, Entered
<1>21. ASSUME ResubscribeFails PROVE EntriesKnown'
  BY <1>21 DEF ResubscribeFails, ReconIdle, mapVars, appVars, connVars,
               parseVars, histVars, EntriesKnown, Entered
<1>22. ASSUME VisitInitResub PROVE EntriesKnown'
  <2>1. Len(initResub) \in Nat /\ Len(initResub) > 0 /\ initResub \in Seq(SubInfos)
        /\ reconInfo' = initResub[1]
    BY <1>22, TypeGroups DEF VisitInitResub, InfoShape
  <2>2. reconInfo' \in SubInfos
    BY <2>1
  <2>3. reconInfo'.sub \in Subs /\ Pending(reconInfo'.sub)
    BY <2>1, <2>2 DEF SubInfos, Pending
  <2>4. QED
    BY <1>22, <2>3 DEF VisitInitResub, mapVars, appVars, PendingApart, EntriesKnown, Entered
<1>23. ASSUME InitConnects PROVE EntriesKnown'
  BY <1>23, ConnectSteps, SubInfosAre, TypeGroups DEF InitConnects, ReconGoes, mapVars, appVars,
     EntriesKnown, Entered, InfoShape
<1>24. ASSUME InitInserts PROVE EntriesKnown'
  <2>1. \A k \in Keys : topicSubInfos'[k].sub \in {topicSubInfos[k].sub, reconInfo.sub}
    BY <1>24, TypeGroups DEF InitInserts, InsertMeta, MapTypes
  <2>2. QED
    BY <1>24, <2>1 DEF InitInserts, ReconIdle, appVars, EntriesKnown, Entered
<1>25. ASSUME InitFailsAgain PROVE EntriesKnown'
  BY <1>25 DEF InitFailsAgain, ReconIdle, mapVars, appVars, connVars,
               parseVars, histVars, EntriesKnown, Entered
<1>26. CASE UNCHANGED vars
  BY <1>1, <1>26 DEF vars, mapVars, appVars, reconVars, connVars, parseVars,
                     histVars
<1>27. QED
  BY <1>1, <1>2, <1>3, <1>4, <1>5, <1>6, <1>7, <1>8, <1>9, <1>10, <1>11,
     <1>12, <1>13, <1>14, <1>15, <1>16, <1>17, <1>18, <1>19, <1>20, <1>21,
     <1>22, <1>23, <1>24, <1>25, <1>26 DEF Next, AppGoesOn, ParseStep,
     ReconnectStep, HandlerStep

LEMMA WaitingShrinks == TypeInv /\ [Next]_vars => \A s \in Subs : Waiting(s)'
  => Waiting(s)
<1> SUFFICES ASSUME TypeInv, [Next]_vars PROVE \A s \in Subs : Waiting(s)' => Waiting(s)
  OBVIOUS
<1>1. ASSUME UNCHANGED <<initResub, reconPc, reconInfo, appPc, lastSub>>
     PROVE  \A s \in Subs : Waiting(s)' => Waiting(s)
  BY <1>1 DEF Waiting, Pending, Entered
<1>2. ASSUME NEW c \in Conns, CutConnection(c) \/ ReadSchema(c) \/
             SchemaParsed(c) \/ ReadRows(c) \/ FindInfo(c) \/ PushRow(c)
      PROVE  UNCHANGED <<initResub, reconPc, reconInfo, appPc, lastSub>>
  BY <1>2 DEF CutConnection, mapVars, appVars, reconVars, parseVars, histVars,
              ReadSchema, Goto, OthersKeep, SchemaParsed, ReadRows, FindInfo,
              PushRow
<1>3. ASSUME NEW c \in Conns, SetOffset(c) \/ ReadFails(c) \/ FindLive(c) \/
             StampTime(c) \/ MarkTopic(c)
      PROVE  UNCHANGED <<initResub, reconPc, reconInfo, appPc, lastSub>>
  BY <1>3 DEF SetOffset, Goto, histVars, OthersKeep, appVars, reconVars,
              ReadFails, mapVars, FindLive, StampTime, MarkTopic
<1>4. ASSUME NEW s \in Subs, NEW h \in Handlers, LoopTest(s, h) \/
             PopMessage(s, h) \/ SayBye(s, h)
      PROVE  UNCHANGED <<initResub, reconPc, reconInfo, appPc, lastSub>>
  BY <1>4 DEF LoopTest, HandlerGoes, HandlerKeeps, mapVars, appVars,
              reconVars, connVars, parseVars, histVars, PopMessage, SayBye
<1>5. ASSUME Subscribe PROVE \A s \in Subs : Waiting(s)' => Waiting(s)
  BY <1>5, TypeGroups, SubscriptionAssumption DEF Subscribe, AppGoes, mapVars,
                                                  reconVars, connVars,
                                                  parseVars, histVars,
                                                  Waiting, Pending, Entered,
                                                  CallTypes
<1>6. ASSUME Unsubscribe PROVE \A s \in Subs : Waiting(s)' => Waiting(s)
  BY <1>6 DEF Unsubscribe, AppGoes, mapVars, reconVars, connVars, parseVars,
              histVars, Waiting, Pending, Entered, Trying
<1>7. ASSUME SubscribeConnects PROVE \A s \in Subs : Waiting(s)' => Waiting(s)
  BY <1>7 DEF SubscribeConnects, Connect, AppGoes, mapVars, reconVars,
              histVars, Waiting, Pending, Entered, Trying
<1>8. ASSUME SubscribeInserts PROVE \A s \in Subs : Waiting(s)' => Waiting(s)
  BY <1>8, TypeGroups, SubscriptionAssumption DEF SubscribeInserts,
                                                  InsertMeta, AppGoes,
                                                  reconVars, connVars,
                                                  parseVars, histVars,
                                                  Waiting, Pending, Entered,
                                                  CallTypes, Subs
<1>9. ASSUME SubscribeFails PROVE \A s \in Subs : Waiting(s)' => Waiting(s)
  <2>1. appInfo.sub = lastSub /\ lastSub \in Nat /\ Entered' = lastSub /\ Entered = lastSub - 1
    BY <1>9, TypeGroups, SubscriptionAssumption
    DEF SubscribeFails, AppGoes, InfoShape, CallTypes, Entered
  <2>2. Len(initResub) \in Nat /\ initResub' = Append(initResub, appInfo) /\ UNCHANGED reconVars
    BY <1>9, TypeGroups DEF SubscribeFails, InfoShape
  <2>3. \A s \in Subs : Pending(s)' => s = lastSub \/ Pending(s)
    BY <2>1, <2>2 DEF Pending, reconVars
  <2>4. QED
    BY <2>1, <2>3 DEF Waiting, Subs
<1>10. ASSUME NEW h \in Handlers, AddHandleThread(h) PROVE \A s \in Subs : Waiting(s)' => Waiting(s)
  BY <1>10 DEF AddHandleThread, Record, AppGoes, reconVars, connVars,
               parseVars, histVars, Waiting, Pending, Entered, Trying
<1>11. ASSUME EraseInfo PROVE \A s \in Subs : Waiting(s)' => Waiting(s)
  BY <1>11 DEF EraseInfo, AppGoes, reconVars, connVars, parseVars, histVars,
               Waiting, Pending, Entered, Trying
<1>12. ASSUME EraseLive PROVE \A s \in Subs : Waiting(s)' => Waiting(s)
  BY <1>12 DEF EraseLive, AppGoes, reconVars, connVars, parseVars, histVars,
               Waiting, Pending, Entered, Trying
<1>13. ASSUME EraseCount PROVE \A s \in Subs : Waiting(s)' => Waiting(s)
  BY <1>13 DEF EraseCount, AppGoes, reconVars, connVars, parseVars, histVars,
               Waiting, Pending, Entered, Trying
<1>14. ASSUME CloseSocket PROVE \A s \in Subs : Waiting(s)' => Waiting(s)
  BY <1>14 DEF CloseSocket, AppGoes, mapVars, reconVars, parseVars, histVars,
               Waiting, Pending, Entered, Trying
<1>15. ASSUME PushNull PROVE \A s \in Subs : Waiting(s)' => Waiting(s)
  BY <1>15 DEF PushNull, AppGoes, mapVars, reconVars, connVars, parseVars,
               histVars, Waiting, Pending, Entered, Trying
<1>16. ASSUME JoinHandlers PROVE \A s \in Subs : Waiting(s)' => Waiting(s)
  BY <1>16 DEF JoinHandlers, AppGoes, mapVars, reconVars, connVars, parseVars,
               histVars, Waiting, Pending, Entered, Trying
<1>17. ASSUME VisitTopic PROVE \A s \in Subs : Waiting(s)' => Waiting(s)
  BY <1>17 DEF VisitTopic, ReconGoes, mapVars, appVars, connVars, parseVars,
               histVars, Waiting, Pending, Entered, Trying
<1>18. ASSUME Resubscribes PROVE \A s \in Subs : Waiting(s)' => Waiting(s)
  BY <1>18 DEF Resubscribes, Connect, ReconIdle, mapVars, appVars, histVars,
               Waiting, Pending, Entered, Trying
<1>19. ASSUME ResubscribeFails PROVE \A s \in Subs : Waiting(s)' => Waiting(s)
  BY <1>19 DEF ResubscribeFails, ReconIdle, mapVars, appVars, connVars,
               parseVars, histVars, Waiting, Pending, Entered, Trying
<1>20. ASSUME VisitInitResub PROVE \A s \in Subs : Waiting(s)' => Waiting(s)
  <2>1. Len(initResub) \in Nat /\ Len(initResub) > 0 /\ initResub \in Seq(SubInfos)
    BY <1>20, TypeGroups DEF VisitInitResub, InfoShape
  <2>2. /\ reconInfo' = initResub[1] /\ Len(initResub') = Len(initResub) - 1
        /\ \A i \in 1 .. Len(initResub') : initResub'[i] = initResub[i + 1]
        /\ UNCHANGED <<appPc, lastSub>>
    BY <1>20, <2>1 DEF VisitInitResub, appVars
  <2>3. \A s \in Subs : Pending(s)' => Pending(s)
    BY <2>1, <2>2 DEF Pending
  <2>4. QED
    BY <2>2, <2>3 DEF Waiting, Entered
<1>21. ASSUME InitConnects PROVE \A s \in Subs : Waiting(s)' => Waiting(s)
  BY <1>21, ConnectSteps, SubInfosAre, TypeGroups DEF InitConnects, ReconGoes, appVars,
     Waiting, Pending, Entered, Trying, InfoShape
<1>22. ASSUME InitInserts PROVE \A s \in Subs : Waiting(s)' => Waiting(s)
  BY <1>22 DEF InitInserts, InsertMeta, ReconIdle, appVars, connVars,
               parseVars, Waiting, Pending, Entered, Trying
<1>23. ASSUME InitFailsAgain PROVE \A s \in Subs : Waiting(s)' => Waiting(s)
  <2>1. Len(initResub) \in Nat /\ initResub' = Append(initResub, reconInfo) /\ reconPc' = "idle"
        /\ UNCHANGED appVars /\ initResub \in Seq(SubInfos) /\ reconPc \in Trying
    BY <1>23, TypeGroups DEF InitFailsAgain, ReconIdle, InfoShape, Trying
  <2>2. \A s \in Subs : Pending(s)' => Pending(s)
    BY <2>1 DEF Pending, Trying
  <2>3. QED
    BY <2>1, <2>2 DEF Waiting, Entered, appVars
<1>24. CASE UNCHANGED vars
  BY <1>1, <1>24 DEF vars, mapVars, appVars, reconVars, connVars, parseVars,
                     histVars
<1>25. QED
  BY <1>1, <1>2, <1>3, <1>4, <1>5, <1>6, <1>7, <1>8, <1>9, <1>10, <1>11,
     <1>12, <1>13, <1>14, <1>15, <1>16, <1>17, <1>18, <1>19, <1>20, <1>21,
     <1>22, <1>23, <1>24 DEF Next, AppGoesOn, ParseStep, ReconnectStep,
     HandlerStep

LEMMA WaitingIsNewNext ==
  TypeInv /\ PendingApart /\ EntriesKnown /\
  WaitingIsNew /\ [Next]_vars => WaitingIsNew'
<1> SUFFICES ASSUME TypeInv, PendingApart, EntriesKnown, WaitingIsNew, [Next]_vars,
                    NEW w \in Subs, Waiting(w)'
             PROVE  IsNew(w)'
  BY DEF WaitingIsNew
<1>0. IsNew(w)
  BY WaitingShrinks DEF WaitingIsNew
<1>1. ASSUME UNCHANGED <<topicSubInfos, delivered, reconPc, reconInfo, pc,
             target, connSub, made, appPc, appInfo>>
     PROVE  IsNew(w)'
  BY <1>0, <1>1 DEF IsNew, Connects
<1>2. ASSUME NEW c \in Conns, CutConnection(c)
      PROVE  UNCHANGED <<topicSubInfos, delivered, reconPc, reconInfo, pc,
             target, connSub, made, appPc, appInfo>>
  BY <1>2 DEF CutConnection, mapVars, appVars, reconVars, parseVars, histVars
<1>3. ASSUME NEW s \in Subs, NEW h \in Handlers, LoopTest(s, h) \/
             PopMessage(s, h) \/ SayBye(s, h)
      PROVE  UNCHANGED <<topicSubInfos, delivered, reconPc, reconInfo, pc,
             target, connSub, made, appPc, appInfo>>
  BY <1>3 DEF LoopTest, HandlerGoes, HandlerKeeps, mapVars, appVars,
              reconVars, connVars, parseVars, histVars, PopMessage, SayBye
<1>4. ASSUME NEW c \in Conns, ReadSchema(c) PROVE IsNew(w)'
  BY <1>4, <1>0, TypeGroups DEF ReadSchema, Goto, mapVars, histVars,
                                OthersKeep, appVars, reconVars, IsNew,
                                Connects, ConnTypes
<1>5. ASSUME NEW c \in Conns, SchemaParsed(c) PROVE IsNew(w)'
  BY <1>5, <1>0, TypeGroups DEF SchemaParsed, Goto, mapVars, histVars,
                                OthersKeep, appVars, reconVars, IsNew,
                                Connects, ConnTypes
<1>6. ASSUME NEW c \in Conns, ReadRows(c) PROVE IsNew(w)'
  BY <1>6, <1>0, TypeGroups DEF ReadRows, Goto, mapVars, histVars, OthersKeep,
                                appVars, reconVars, IsNew, Connects, ConnTypes
<1>7. ASSUME NEW c \in Conns, FindInfo(c) PROVE IsNew(w)'
  <2>1. target'[c] # w \/ pc'[c] \notin {"push", "offset"}
    BY <1>7, <1>0, TypeGroups DEF FindInfo, Goto, IsNew, ConnTypes
  <2>2. \A d \in Conns : d # c => target'[d] = target[d] /\ pc'[d] = pc[d]
    BY <1>7, TypeGroups DEF FindInfo, Goto, ConnTypes
  <2>3. QED
    BY <1>7, <1>0, <2>1, <2>2 DEF FindInfo, OthersKeep, mapVars, appVars, reconVars, IsNew, Connects
<1>8. ASSUME NEW c \in Conns, PushRow(c) PROVE IsNew(w)'
  <2>1. target[c] # w
    BY <1>8, <1>0 DEF PushRow, IsNew
  <2>2. delivered'[w] = delivered[w]
    BY <1>8, <2>1, TypeGroups DEF PushRow, QueueTypes
  <2>3. \A d \in Conns : pc'[d] \in {"push", "offset"} => pc[d] \in {"push", "offset"}
    BY <1>8, TypeGroups DEF PushRow, Goto, ConnTypes
  <2>4. QED
    BY <1>8, <1>0, <2>2, <2>3 DEF PushRow, OthersKeep, mapVars, appVars, reconVars, IsNew, Connects
<1>9. ASSUME NEW c \in Conns, SetOffset(c) PROVE IsNew(w)'
  <2>1. topicSubInfos'["topic"].sub = topicSubInfos["topic"].sub
    BY <1>9, SetOffsetKeeps, TypeGroups DEF Keys
  <2>2. \A d \in Conns : pc'[d] \in {"push", "offset"} =>
          pc[d] \in {"push", "offset"} /\ target'[d] = target[d]
    BY <1>9, TypeGroups DEF SetOffset, Goto, ConnTypes
  <2>3. QED
    BY <1>9, <1>0, <2>1, <2>2 DEF SetOffset, OthersKeep, appVars, reconVars, histVars, IsNew, Connects
<1>10. ASSUME NEW c \in Conns, ReadFails(c) PROVE IsNew(w)'
  BY <1>10, <1>0, TypeGroups DEF ReadFails, Goto, mapVars, OthersKeep,
                                 appVars, reconVars, IsNew, Connects,
                                 ConnTypes
<1>11. ASSUME NEW c \in Conns, FindLive(c) PROVE IsNew(w)'
  BY <1>11, <1>0, TypeGroups DEF FindLive, Goto, mapVars, OthersKeep, appVars,
                                 reconVars, IsNew, Connects, ConnTypes
<1>12. ASSUME NEW c \in Conns, StampTime(c) PROVE IsNew(w)'
  <2>1. topicSubInfos'["topic"].sub \in {topicSubInfos["topic"].sub, 0}
    BY <1>12, SpecialInfos, TypeGroups DEF StampTime, MapTypes, Keys
  <2>2. \A d \in Conns : pc'[d] \in {"push", "offset"} => pc[d] \in {"push", "offset"}
    BY <1>12, TypeGroups DEF StampTime, Goto, ConnTypes
  <2>3. QED
    BY <1>12, <1>0, <2>1, <2>2 DEF StampTime, OthersKeep, appVars, reconVars, histVars, IsNew, Connects, Subs
<1>13. ASSUME NEW c \in Conns, MarkTopic(c) PROVE IsNew(w)'
  BY <1>13, <1>0, TypeGroups DEF MarkTopic, Goto, mapVars, OthersKeep,
                                 appVars, reconVars, IsNew, Connects,
                                 ConnTypes
<1>14. ASSUME Subscribe PROVE IsNew(w)'
  BY <1>14, <1>0 DEF Subscribe, AppGoes, mapVars, reconVars, connVars,
                     parseVars, histVars, IsNew, Connects
<1>15. ASSUME Unsubscribe PROVE IsNew(w)'
  BY <1>15, <1>0 DEF Unsubscribe, AppGoes, mapVars, reconVars, connVars,
                     parseVars, histVars, IsNew, Connects
<1>16. ASSUME SubscribeConnects PROVE IsNew(w)'
  <2>1. readyMutex = Nobody /\ appPc = "connect" /\ reconPc # "initInsert"
    BY <1>16, TypeGroups DEF SubscribeConnects, LockTypes, Nobody, Reconnect
  <2>2. \A c \in Conns : connSub[c] # w
    BY <1>0, <2>1 DEF IsNew, Connects
  <2>3. appInfo \in SubInfos
    BY <2>1, TypeGroups DEF InfoShape
  <2>4. /\ made' \in Conns /\ connSub' = [connSub EXCEPT ![made'] = appInfo.sub]
        /\ pc' = [pc EXCEPT ![made'] = "read"] /\ target' = target
    BY <1>16, <2>3, ConnectSteps, TypeGroups DEF SubscribeConnects, Connect
  <2>5. \A c \in Conns : connSub'[c] = w => c = made' /\ w = appInfo.sub
    BY <2>2, <2>4, TypeGroups DEF ConnTypes
  <2>6. \A c \in Conns : pc'[c] \in {"push", "offset"} => pc[c] \in {"push", "offset"}
    BY <2>4, TypeGroups DEF ConnTypes
  <2>7. appPc' = "insert" /\ appInfo'.sub = appInfo.sub /\ UNCHANGED <<topicSubInfos, delivered, reconVars>>
    BY <1>16, <2>3, <2>4, SubInfosAre DEF SubscribeConnects, AppGoes, mapVars, histVars
  <2>8. QED
    BY <1>0, <2>4, <2>5, <2>6, <2>7 DEF reconVars, IsNew, Connects
<1>17. ASSUME SubscribeInserts PROVE IsNew(w)'
  <2>1. /\ appInfo.sub = lastSub /\ lastSub \in Nat /\ Entered' = lastSub /\ Entered = lastSub - 1
        /\ UNCHANGED <<initResub, reconVars>>
    BY <1>17, TypeGroups, SubscriptionAssumption
    DEF SubscribeInserts, AppGoes, InfoShape, CallTypes, Entered
  <2>2. w # lastSub
    BY <2>1 DEF Waiting, Pending, PendingApart, reconVars, Subs
  <2>3. topicSubInfos'["topic"].sub \in {topicSubInfos["topic"].sub, lastSub}
    BY <1>17, <2>1, TypeGroups DEF SubscribeInserts, InsertMeta, MapTypes, Keys
  <2>4. QED
    BY <1>17, <1>0, <2>1, <2>2, <2>3 DEF SubscribeInserts, AppGoes, connVars, parseVars, histVars,
       reconVars, IsNew, Connects
<1>18. ASSUME SubscribeFails PROVE IsNew(w)'
  BY <1>18, <1>0, TypeGroups DEF SubscribeFails, InsertMeta, AppGoes,
                                 reconVars, connVars, parseVars, histVars,
                                 IsNew, Connects, MapTypes, Keys
<1>19. ASSUME NEW h \in Handlers, AddHandleThread(h) PROVE IsNew(w)'
  BY <1>19, <1>0, RecordKeeps, TypeGroups DEF AddHandleThread, Record,
                                              AppGoes, reconVars, connVars,
                                              parseVars, histVars, IsNew,
                                              Connects, Keys
<1>20. ASSUME EraseInfo PROVE IsNew(w)'
  <2>1. topicSubInfos'["topic"].sub \in {topicSubInfos["topic"].sub, -1}
    BY <1>20, SpecialInfos, TypeGroups DEF EraseInfo, MapTypes, Keys
  <2>2. QED
    BY <1>20, <1>0, <2>1 DEF EraseInfo, AppGoes, reconVars, connVars, parseVars, histVars,
       IsNew, Connects, Subs
<1>21. ASSUME EraseLive PROVE IsNew(w)'
  BY <1>21, <1>0 DEF EraseLive, AppGoes, reconVars, connVars, parseVars,
                     histVars, IsNew, Connects
<1>22. ASSUME EraseCount PROVE IsNew(w)'
  BY <1>22, <1>0 DEF EraseCount, AppGoes, reconVars, connVars, parseVars,
                     histVars, IsNew, Connects
<1>23. ASSUME CloseSocket PROVE IsNew(w)'
  BY <1>23, <1>0 DEF CloseSocket, AppGoes, mapVars, reconVars, parseVars,
                     histVars, IsNew, Connects
<1>24. ASSUME PushNull PROVE IsNew(w)'
  BY <1>24, <1>0 DEF PushNull, AppGoes, mapVars, reconVars, connVars,
                     parseVars, histVars, IsNew, Connects
<1>25. ASSUME JoinHandlers PROVE IsNew(w)'
  BY <1>25, <1>0 DEF JoinHandlers, AppGoes, mapVars, reconVars, connVars,
                     parseVars, histVars, IsNew, Connects
<1>26. ASSUME VisitTopic PROVE IsNew(w)'
  BY <1>26, <1>0 DEF VisitTopic, ReconGoes, mapVars, appVars, connVars,
                     parseVars, histVars, IsNew, Connects
<1>27. ASSUME Resubscribes PROVE IsNew(w)'
  <2>1. reconPc = "resub" /\ reconInfo.sub # w /\ reconInfo \in SubInfos /\ readyMutex = Nobody
    BY <1>27, <1>0, TypeGroups DEF Resubscribes, IsNew, InfoShape
  <2>2. appPc # "insert"
    BY <2>1, TypeGroups DEF LockTypes, Nobody, App
  <2>3. \A c \in Conns : connSub[c] # w
    BY <1>0, <2>1, <2>2 DEF IsNew, Connects
  <2>4. /\ made' \in Conns /\ connSub' = [connSub EXCEPT ![made'] = reconInfo.sub]
        /\ pc' = [pc EXCEPT ![made'] = "read"] /\ target' = target
    BY <1>27, <2>1, ConnectSteps, TypeGroups DEF Resubscribes, Connect
  <2>5. \A c \in Conns : connSub'[c] # w
    BY <2>1, <2>3, <2>4, TypeGroups DEF ConnTypes
  <2>6. \A c \in Conns : pc'[c] \in {"push", "offset"} => pc[c] \in {"push", "offset"}
    BY <2>4, TypeGroups DEF ConnTypes
  <2>7. reconPc' = "idle" /\ UNCHANGED <<topicSubInfos, delivered, appVars>>
    BY <1>27 DEF Resubscribes, ReconIdle, mapVars, histVars
  <2>8. QED
    BY <1>0, <2>4, <2>5, <2>6, <2>7 DEF IsNew
<1>28. ASSUME ResubscribeFails PROVE IsNew(w)'
  BY <1>28, <1>0 DEF ResubscribeFails, ReconIdle, mapVars, appVars, connVars,
                     parseVars, histVars, IsNew, Connects
<1>29. ASSUME VisitInitResub PROVE IsNew(w)'
  BY <1>29, <1>0 DEF VisitInitResub, ReconGoes, mapVars, appVars, connVars,
                     parseVars, histVars, IsNew, Connects
<1>30. ASSUME InitConnects PROVE IsNew(w)'
  <2>1. readyMutex = Nobody /\ reconPc = "init" /\ appPc # "insert"
    BY <1>30, TypeGroups DEF InitConnects, LockTypes, Nobody, App
  <2>2. \A c \in Conns : connSub[c] # w
    BY <1>0, <2>1 DEF IsNew, Connects
  <2>3. reconInfo \in SubInfos
    BY <2>1, TypeGroups DEF InfoShape
  <2>4. /\ made' \in Conns /\ connSub' = [connSub EXCEPT ![made'] = reconInfo.sub]
        /\ pc' = [pc EXCEPT ![made'] = "read"] /\ target' = target
    BY <1>30, <2>3, ConnectSteps, TypeGroups DEF InitConnects, Connect
  <2>5. \A c \in Conns : connSub'[c] = w => c = made' /\ w = reconInfo.sub
    BY <2>2, <2>4, TypeGroups DEF ConnTypes
  <2>6. \A c \in Conns : pc'[c] \in {"push", "offset"} => pc[c] \in {"push", "offset"}
    BY <2>4, TypeGroups DEF ConnTypes
  <2>7. /\ reconPc' = "initInsert" /\ reconInfo'.sub = reconInfo.sub
        /\ UNCHANGED <<topicSubInfos, delivered, appVars>>
    BY <1>30, <2>3, <2>4, SubInfosAre DEF InitConnects, ReconGoes, mapVars, histVars
  <2>8. QED
    BY <1>0, <2>4, <2>5, <2>6, <2>7 DEF appVars, IsNew, Connects
<1>31. ASSUME InitInserts PROVE IsNew(w)'
  <2>1. reconPc = "initInsert" /\ reconInfo.sub \in Int
    BY <1>31, InfoFields, TypeGroups DEF InitInserts, CallTypes, Subs
  <2>2. reconPc' = "idle" /\ UNCHANGED <<initResub, appVars>>
    BY <1>31 DEF InitInserts, ReconIdle
  <2>3. w # reconInfo.sub
    <3>1. CASE w > Entered'
      BY <2>1, <2>2, <3>1, EnteredType DEF EntriesKnown, Entered, appVars, Subs
    <3>2. CASE Pending(w)'
      BY <2>1, <2>2, <3>2 DEF Pending, PendingApart, Trying
    <3>3. QED
      BY <3>1, <3>2 DEF Waiting
  <2>4. topicSubInfos'["topic"].sub \in {topicSubInfos["topic"].sub, reconInfo.sub}
    BY <1>31, TypeGroups DEF InitInserts, InsertMeta, MapTypes, Keys
  <2>5. UNCHANGED <<connVars, parseVars, delivered, appVars>>
    BY <1>31 DEF InitInserts
  <2>6. QED
    BY <1>0, <2>1, <2>2, <2>3, <2>4, <2>5 DEF connVars, parseVars, appVars, IsNew, Connects
<1>32. ASSUME InitFailsAgain PROVE IsNew(w)'
  BY <1>32, <1>0 DEF InitFailsAgain, ReconIdle, mapVars, appVars, connVars,
                     parseVars, histVars, IsNew, Connects
<1>33. CASE UNCHANGED vars
  BY <1>1, <1>33 DEF vars, mapVars, appVars, reconVars, connVars, parseVars,
                     histVars
<1>34. QED
  BY <1>1, <1>2, <1>3, <1>4, <1>5, <1>6, <1>7, <1>8, <1>9, <1>10, <1>11,
     <1>12, <1>13, <1>14, <1>15, <1>16, <1>17, <1>18, <1>19, <1>20, <1>21,
     <1>22, <1>23, <1>24, <1>25, <1>26, <1>27, <1>28, <1>29, <1>30, <1>31,
     <1>32, <1>33 DEF Next, AppGoesOn, ParseStep, ReconnectStep, HandlerStep

LEMMA NotStartedNext == TypeInv /\ EntriesKnown /\ NotStarted /\ [Next]_vars
  => NotStarted'
<1> SUFFICES ASSUME TypeInv, EntriesKnown, NotStarted, [Next]_vars PROVE
               NotStarted'
  OBVIOUS
<1>1. ASSUME UNCHANGED <<moved, appPc, lastSub, hpc>> PROVE NotStarted'
  BY <1>1 DEF NotStarted, Entered
<1>2. ASSUME NEW c \in Conns, CutConnection(c) \/ ReadSchema(c) \/
             SchemaParsed(c) \/ ReadRows(c) \/ FindInfo(c) \/ PushRow(c)
      PROVE  UNCHANGED <<moved, appPc, lastSub, hpc>>
  BY <1>2 DEF CutConnection, mapVars, appVars, reconVars, parseVars, histVars,
              ReadSchema, Goto, OthersKeep, SchemaParsed, ReadRows, FindInfo,
              PushRow
<1>3. ASSUME NEW c \in Conns, SetOffset(c) \/ ReadFails(c) \/ FindLive(c) \/
             StampTime(c) \/ MarkTopic(c)
      PROVE  UNCHANGED <<moved, appPc, lastSub, hpc>>
  BY <1>3 DEF SetOffset, Goto, histVars, OthersKeep, appVars, reconVars,
              ReadFails, mapVars, FindLive, StampTime, MarkTopic
<1>4. ASSUME VisitTopic \/ Resubscribes \/ ResubscribeFails \/ VisitInitResub
             \/ InitConnects \/ InitFailsAgain
      PROVE  UNCHANGED <<moved, appPc, lastSub, hpc>>
  BY <1>4 DEF VisitTopic, ReconGoes, mapVars, appVars, connVars, parseVars,
              histVars, Resubscribes, Connect, ReconIdle, ResubscribeFails,
              VisitInitResub, InitConnects, InitFailsAgain, MarkAfterFailure
<1>5. ASSUME Subscribe PROVE NotStarted'
  BY <1>5, TypeGroups, SubscriptionAssumption DEF Subscribe, AppGoes, mapVars,
                                                  reconVars, connVars,
                                                  parseVars, histVars,
                                                  NotStarted, Entered,
                                                  CallTypes
<1>6. ASSUME Unsubscribe PROVE NotStarted'
  BY <1>6 DEF Unsubscribe, AppGoes, mapVars, reconVars, connVars, parseVars,
              histVars, NotStarted, Entered
<1>7. ASSUME SubscribeConnects PROVE NotStarted'
  BY <1>7 DEF SubscribeConnects, Connect, AppGoes, mapVars, reconVars,
              histVars, NotStarted, Entered
<1>8. ASSUME SubscribeInserts PROVE NotStarted'
  <2>1. Entered = lastSub - 1 /\ Entered' = lastSub /\ lastSub \in Nat
    BY <1>8, TypeGroups, SubscriptionAssumption DEF SubscribeInserts, AppGoes, Entered, CallTypes
  <2>2. moved \subseteq Int
    BY TypeGroups DEF QueueTypes, Subs
  <2>3. QED
    BY <1>8, <2>1, <2>2 DEF SubscribeInserts, histVars, NotStarted, Subs
<1>9. ASSUME SubscribeFails PROVE NotStarted'
  <2>1. Entered = lastSub - 1 /\ Entered' = lastSub /\ lastSub \in Nat
    BY <1>9, TypeGroups, SubscriptionAssumption DEF SubscribeFails, AppGoes, Entered, CallTypes
  <2>2. moved \subseteq Int
    BY TypeGroups DEF QueueTypes, Subs
  <2>3. QED
    BY <1>9, <2>1, <2>2 DEF SubscribeFails, histVars, NotStarted, Subs
<1>10. ASSUME NEW h \in Handlers, AddHandleThread(h) PROVE NotStarted'
  <2>1. /\ appPc = "threads" /\ appInfo.sub = lastSub /\ lastSub \in Subs
        /\ Entered = lastSub /\ Entered' = lastSub
    BY <1>10, TypeGroups DEF AddHandleThread, AppGoes, Entered, InfoShape, SubInfos
  <2>2. \A s \in Subs : s # lastSub => hpc'[s] = hpc[s]
    BY <1>10, <2>1, TypeGroups DEF AddHandleThread, QueueTypes
  <2>3. QED
    BY <1>10, <2>1, <2>2 DEF AddHandleThread, histVars, NotStarted, Subs
<1>11. ASSUME EraseInfo PROVE NotStarted'
  BY <1>11 DEF EraseInfo, AppGoes, reconVars, connVars, parseVars, histVars,
               NotStarted, Entered
<1>12. ASSUME EraseLive PROVE NotStarted'
  BY <1>12 DEF EraseLive, AppGoes, reconVars, connVars, parseVars, histVars,
               NotStarted, Entered
<1>13. ASSUME EraseCount PROVE NotStarted'
  BY <1>13 DEF EraseCount, AppGoes, reconVars, connVars, parseVars, histVars,
               NotStarted, Entered
<1>14. ASSUME CloseSocket PROVE NotStarted'
  BY <1>14 DEF CloseSocket, AppGoes, mapVars, reconVars, parseVars, histVars,
               NotStarted, Entered
<1>15. ASSUME PushNull PROVE NotStarted'
  BY <1>15 DEF PushNull, AppGoes, mapVars, reconVars, connVars, parseVars,
               histVars, NotStarted, Entered
<1>16. ASSUME JoinHandlers PROVE NotStarted'
  BY <1>16 DEF JoinHandlers, AppGoes, mapVars, reconVars, connVars, parseVars,
               histVars, NotStarted, Entered
<1>17. ASSUME InitInserts PROVE NotStarted'
  BY <1>17 DEF InitInserts, InsertMeta, ReconIdle, appVars, connVars,
               parseVars, NotStarted, Entered, EntriesKnown
<1>18. ASSUME NEW s \in Subs, NEW h \in Handlers, LoopTest(s, h) PROVE
              NotStarted'
  BY <1>18, TypeGroups DEF LoopTest, HandlerGoes, HandlerKeeps, mapVars,
                           appVars, reconVars, connVars, parseVars, histVars,
                           NotStarted, Entered, QueueTypes
<1>19. ASSUME NEW s \in Subs, NEW h \in Handlers, PopMessage(s, h) PROVE
              NotStarted'
  BY <1>19, TypeGroups DEF PopMessage, HandlerGoes, HandlerKeeps, mapVars,
                           appVars, reconVars, connVars, parseVars, histVars,
                           NotStarted, Entered, QueueTypes
<1>20. ASSUME NEW s \in Subs, NEW h \in Handlers, SayBye(s, h) PROVE
              NotStarted'
  BY <1>20, TypeGroups DEF SayBye, HandlerGoes, HandlerKeeps, mapVars,
                           appVars, reconVars, connVars, parseVars, histVars,
                           NotStarted, Entered, QueueTypes
<1>21. CASE UNCHANGED vars
  BY <1>1, <1>21 DEF vars, mapVars, appVars, reconVars, connVars, parseVars,
                     histVars
<1>22. QED
  BY <1>1, <1>2, <1>3, <1>4, <1>5, <1>6, <1>7, <1>8, <1>9, <1>10, <1>11,
     <1>12, <1>13, <1>14, <1>15, <1>16, <1>17, <1>18, <1>19, <1>20, <1>21 DEF
     Next, AppGoesOn, ParseStep, ReconnectStep, HandlerStep

LEMMA HandlersRecordedNext ==
  TypeInv /\ EntriesKnown /\ NotStarted /\
  HandlersRecorded /\ [Next]_vars => HandlersRecorded'
<1> SUFFICES ASSUME TypeInv, EntriesKnown, NotStarted, HandlersRecorded, [Next]_vars,
                    NEW w \in Subs, w \notin moved' PROVE Recorded(w)'
  BY DEF HandlersRecorded
<1>a. moved \subseteq moved'
  <2>1. UNCHANGED moved \/ InitInserts
    BY DEF Next, AppGoesOn, ParseStep, ReconnectStep, HandlerStep, vars, histVars, CutConnection, ReadSchema, OthersKeep, SchemaParsed, ReadRows,
       FindInfo, PushRow, SetOffset, ReadFails, FindLive, StampTime,
       MarkTopic, Subscribe, Unsubscribe, SubscribeConnects, SubscribeInserts,
       SubscribeFails, AddHandleThread, EraseInfo, EraseLive, EraseCount,
       CloseSocket, PushNull, JoinHandlers, VisitTopic, Resubscribes,
       ResubscribeFails, VisitInitResub, InitConnects, InitFailsAgain,
       LoopTest, HandlerKeeps, PopMessage, SayBye
  <2>2. QED
    BY <2>1 DEF InitInserts
<1>0. Recorded(w)
  BY <1>a DEF HandlersRecorded
<1>1. ASSUME UNCHANGED <<topicSubInfos, moved, appPc, appInfo, hpc>> PROVE Recorded(w)'
  BY <1>0, <1>1 DEF Recorded
<1>2. ASSUME NEW c \in Conns, CutConnection(c) \/ ReadSchema(c) \/
             SchemaParsed(c) \/ ReadRows(c) \/ FindInfo(c) \/ PushRow(c)
      PROVE  UNCHANGED <<topicSubInfos, moved, appPc, appInfo, hpc>>
  BY <1>2 DEF CutConnection, mapVars, appVars, reconVars, parseVars, histVars,
              ReadSchema, Goto, OthersKeep, SchemaParsed, ReadRows, FindInfo,
              PushRow
<1>3. ASSUME NEW c \in Conns, ReadFails(c) \/ FindLive(c) \/ MarkTopic(c)
      PROVE  UNCHANGED <<topicSubInfos, moved, appPc, appInfo, hpc>>
  BY <1>3 DEF ReadFails, Goto, mapVars, OthersKeep, appVars, reconVars,
              FindLive, MarkTopic
<1>4. ASSUME VisitTopic \/ Resubscribes \/ ResubscribeFails \/ VisitInitResub
             \/ InitConnects \/ InitFailsAgain
      PROVE  UNCHANGED <<topicSubInfos, moved, appPc, appInfo, hpc>>
  BY <1>4 DEF VisitTopic, ReconGoes, mapVars, appVars, connVars, parseVars,
              histVars, Resubscribes, Connect, ReconIdle, ResubscribeFails,
              VisitInitResub, InitConnects, InitFailsAgain, MarkAfterFailure
<1>5. ASSUME NEW c \in Conns, SetOffset(c) PROVE Recorded(w)'
  <2>1. \A k \in Keys : /\ topicSubInfos'[k].sub = topicSubInfos[k].sub
                        /\ topicSubInfos'[k].handlers = topicSubInfos[k].handlers
    BY <1>5, SetOffsetKeeps, TypeGroups
  <2>2. QED
    BY <1>5, <1>0, <2>1 DEF SetOffset, OthersKeep, appVars, Recorded, Keys
<1>6. ASSUME NEW c \in Conns, StampTime(c) PROVE Recorded(w)'
  <2>1. \A k \in Keys : \/ topicSubInfos'[k] = topicSubInfos[k]
                        \/ topicSubInfos'[k].sub = 0
    BY <1>6, SpecialInfos, TypeGroups DEF StampTime, MapTypes, Keys
  <2>2. QED
    BY <1>6, <1>0, <2>1 DEF StampTime, OthersKeep, appVars, Recorded, Keys, Subs
<1>7. ASSUME Subscribe PROVE Recorded(w)'
  BY <1>7, <1>0 DEF Subscribe, AppGoes, mapVars, reconVars, connVars,
                    parseVars, histVars, Recorded, Closing
<1>8. ASSUME Unsubscribe PROVE Recorded(w)'
  BY <1>8, <1>0 DEF Unsubscribe, AppGoes, mapVars, reconVars, connVars,
                    parseVars, histVars, Recorded, Closing
<1>9. ASSUME SubscribeConnects PROVE Recorded(w)'
  BY <1>9, <1>0 DEF SubscribeConnects, Connect, AppGoes, mapVars, reconVars,
                    histVars, Recorded, Closing
<1>10. ASSUME SubscribeInserts PROVE Recorded(w)'
  <2>1. /\ appPc = "insert" /\ appPc' = "threads" /\ UNCHANGED <<appInfo, hpc>>
        /\ appInfo.sub = lastSub /\ Entered = lastSub - 1 /\ lastSub \in Int
    BY <1>10, TypeGroups DEF SubscribeInserts, AppGoes, InfoShape, Entered, CallTypes
  <2>2. topicSubInfos' = [topicSubInfos EXCEPT !["topic"] = appInfo]
    BY <1>10 DEF SubscribeInserts, InsertMeta
  <2>3. CASE w = lastSub
    <3>1. \A k \in Keys : topicSubInfos[k].sub # w
      BY <2>1, <2>3 DEF EntriesKnown
    <3>2. \A h \in Handlers : hpc'[w][h] = "none"
      BY <2>1, <2>3 DEF NotStarted
    <3>3. QED
      BY <2>1, <2>2, <2>3, <3>1, <3>2, TypeGroups DEF Recorded, Closing, MapTypes, Keys
  <2>4. CASE w # lastSub
    BY <1>0, <2>1, <2>2, <2>4, TypeGroups DEF Recorded, Closing, MapTypes, Keys
  <2>5. QED
    BY <2>3, <2>4
<1>11. ASSUME SubscribeFails PROVE Recorded(w)'
  <2>1. /\ appPc = "connect" /\ appPc' = "threads" /\ UNCHANGED <<appInfo, hpc>>
        /\ appInfo.sub = lastSub /\ Entered = lastSub - 1 /\ lastSub \in Int
    BY <1>11, TypeGroups DEF SubscribeFails, AppGoes, InfoShape, Entered, CallTypes
  <2>2. topicSubInfos' = [topicSubInfos EXCEPT !["unknown"] = appInfo]
    BY <1>11 DEF SubscribeFails, InsertMeta
  <2>3. CASE w = lastSub
    <3>1. \A k \in Keys : topicSubInfos[k].sub # w
      BY <2>1, <2>3 DEF EntriesKnown
    <3>2. \A h \in Handlers : hpc'[w][h] = "none"
      BY <2>1, <2>3 DEF NotStarted
    <3>3. QED
      BY <2>1, <2>2, <2>3, <3>1, <3>2, TypeGroups DEF Recorded, Closing, MapTypes, Keys
  <2>4. CASE w # lastSub
    BY <1>0, <2>1, <2>2, <2>4, TypeGroups DEF Recorded, Closing, MapTypes, Keys
  <2>5. QED
    BY <2>3, <2>4
<1>12. ASSUME NEW h \in Handlers, AddHandleThread(h) PROVE Recorded(w)'
  <2>1. /\ appPc = "threads" /\ appInfo.sub \in Subs /\ hpc[appInfo.sub][h] = "none"
        /\ hpc' = [hpc EXCEPT ![appInfo.sub][h] = "loop"]
        /\ appPc' \in {"idle", "threads"} /\ (appPc' = "threads" => appInfo' = appInfo)
        /\ appPc' = "idle" => \A i \in Handlers : hpc'[appInfo.sub][i] # "none"
    BY <1>12, TypeGroups DEF AddHandleThread, AppGoes, InfoShape, SubInfos
  <2>2. \A k \in Keys : /\ topicSubInfos'[k].sub = topicSubInfos[k].sub
                        /\ topicSubInfos[k].handlers \subseteq topicSubInfos'[k].handlers
    BY <1>12, RecordKeeps, TypeGroups DEF AddHandleThread
  <2>3. CASE w # appInfo.sub
    BY <1>0, <2>1, <2>2, <2>3 DEF Recorded, Closing, Keys
  <2>4. CASE w = appInfo.sub
    <3>1. \A k \in Keys : topicSubInfos[k].sub = w => h \in topicSubInfos'[k].handlers
      <4> SUFFICES ASSUME NEW k \in Keys, topicSubInfos[k].sub = w
                   PROVE  h \in topicSubInfos'[k].handlers
        OBVIOUS
      <4>1. PICK j \in Keys :
              /\ topicSubInfos[j].sub = w
              /\ topicSubInfos' = [topicSubInfos EXCEPT ![j].handlers = @ \cup {h}]
        BY <1>12, <2>4 DEF AddHandleThread, Record
      <4>2. j = k
        BY <1>0, <4>1 DEF Recorded, Keys
      <4>3. topicSubInfos[k] \in Infos
        BY TypeGroups DEF MapTypes
      <4>4. topicSubInfos'[k] = [topicSubInfos[k] EXCEPT !.handlers = @ \cup {h}]
        BY <4>1, <4>2, TypeGroups DEF MapTypes
      <4>5. QED
        BY <4>3, <4>4 DEF Infos
    <3>2. \A i \in Handlers : i # h => hpc'[w][i] = hpc[w][i]
      BY <2>1, <2>4, TypeGroups DEF QueueTypes
    <3>3. ASSUME NEW k \in Keys, topicSubInfos'[k].sub = w, NEW i \in Handlers
          PROVE  \/ i \in topicSubInfos'[k].handlers
                 \/ appPc' = "threads" /\ appInfo'.sub = w /\ hpc'[w][i] = "none"
      <4>1. CASE i = h
        BY <2>2, <3>1, <3>3, <4>1
      <4>2. CASE i # h
        <5>1. i \in topicSubInfos[k].handlers \/ hpc[w][i] = "none"
          BY <1>0, <2>2, <3>3 DEF Recorded
        <5>2. QED
          BY <2>1, <2>2, <2>4, <3>2, <4>2, <5>1
      <4>3. QED
        BY <4>1, <4>2
    <3>4. QED
      BY <1>0, <2>1, <2>2, <3>3 DEF Recorded, Closing, Keys
  <2>5. QED
    BY <2>3, <2>4
<1>13. ASSUME EraseInfo PROVE Recorded(w)'
  <2>1. /\ appPc = "erase" /\ appPc' = "eraseLive" /\ appKey \in Keys
        /\ appInfo' = topicSubInfos[appKey] /\ appInfo'.handlers \subseteq Handlers
    BY <1>13, InfoFields, TypeGroups DEF EraseInfo, AppGoes, CallTypes, MapTypes
  <2>2. \A k \in Keys : topicSubInfos'[k] = topicSubInfos[k] \/ topicSubInfos'[k].sub = -1
    BY <1>13, SpecialInfos, TypeGroups DEF EraseInfo, MapTypes
  <2>3. appInfo'.sub = w => Handlers \subseteq appInfo'.handlers
    BY <1>0, <2>1 DEF Recorded
  <2>4. \A k \in Keys : topicSubInfos'[k].sub = w =>
          topicSubInfos[k].sub = w /\ topicSubInfos'[k].handlers = topicSubInfos[k].handlers
    BY <2>2 DEF Subs
  <2>5. QED
    BY <1>0, <2>1, <2>3, <2>4 DEF Recorded, Closing, Keys
<1>14. ASSUME EraseLive PROVE Recorded(w)'
  BY <1>14, <1>0 DEF EraseLive, AppGoes, reconVars, connVars, parseVars,
                     histVars, Recorded, Closing
<1>15. ASSUME EraseCount PROVE Recorded(w)'
  BY <1>15, <1>0 DEF EraseCount, AppGoes, reconVars, connVars, parseVars,
                     histVars, Recorded, Closing
<1>16. ASSUME CloseSocket PROVE Recorded(w)'
  BY <1>16, <1>0 DEF CloseSocket, AppGoes, mapVars, reconVars, parseVars,
                     histVars, Recorded, Closing
<1>17. ASSUME PushNull PROVE Recorded(w)'
  BY <1>17, <1>0 DEF PushNull, AppGoes, mapVars, reconVars, connVars,
                     parseVars, histVars, Recorded, Closing
<1>18. ASSUME JoinHandlers PROVE Recorded(w)'
  BY <1>18, <1>0 DEF JoinHandlers, AppGoes, mapVars, reconVars, connVars,
                     parseVars, histVars, Recorded, Closing
<1>19. ASSUME InitInserts PROVE Recorded(w)'
  <2>1. w # reconInfo.sub /\ topicSubInfos' = [topicSubInfos EXCEPT !["topic"] = reconInfo]
    BY <1>19 DEF InitInserts, InsertMeta
  <2>2. QED
    BY <1>19, <1>0, <2>1, TypeGroups DEF InitInserts, appVars, MapTypes, Recorded, Keys
<1>20. ASSUME NEW s \in Subs, NEW h \in Handlers, LoopTest(s, h) PROVE
              Recorded(w)'
  <2>1. \A i \in Handlers : hpc[w][i] = "none" => hpc'[w][i] = "none"
    BY <1>20, TypeGroups DEF LoopTest, HandlerGoes, QueueTypes
  <2>2. QED
    BY <1>20, <1>0, <2>1 DEF LoopTest, HandlerKeeps, mapVars, appVars, Recorded
<1>21. ASSUME NEW s \in Subs, NEW h \in Handlers, PopMessage(s, h) PROVE
              Recorded(w)'
  <2>1. \A i \in Handlers : hpc[w][i] = "none" => hpc'[w][i] = "none"
    BY <1>21, TypeGroups DEF PopMessage, HandlerGoes, QueueTypes
  <2>2. QED
    BY <1>21, <1>0, <2>1 DEF PopMessage, HandlerKeeps, mapVars, appVars, Recorded
<1>22. ASSUME NEW s \in Subs, NEW h \in Handlers, SayBye(s, h) PROVE
              Recorded(w)'
  <2>1. \A i \in Handlers : hpc[w][i] = "none" => hpc'[w][i] = "none"
    BY <1>22, TypeGroups DEF SayBye, HandlerGoes, QueueTypes
  <2>2. QED
    BY <1>22, <1>0, <2>1 DEF SayBye, HandlerKeeps, mapVars, appVars, Recorded
<1>23. CASE UNCHANGED vars
  BY <1>1, <1>23 DEF vars, mapVars, appVars, reconVars, connVars, parseVars,
                     histVars
<1>24. QED
  BY <1>1, <1>2, <1>3, <1>4, <1>5, <1>6, <1>7, <1>8, <1>9, <1>10, <1>11,
     <1>12, <1>13, <1>14, <1>15, <1>16, <1>17, <1>18, <1>19, <1>20, <1>21,
     <1>22, <1>23 DEF Next, AppGoesOn, ParseStep, ReconnectStep, HandlerStep

LEMMA EntryInit == Init => EntryInv
<1> SUFFICES ASSUME Init PROVE EntryInv
  OBVIOUS
<1>1. Entered = 0 /\ \A k \in Keys : topicSubInfos[k].sub = -1
  BY SpecialInfos DEF Init, Entered
<1>2. \A s \in Subs : ~Pending(s)
  BY DEF Init, Pending, Trying
<1>3. PendingApart
  BY <1>2 DEF Init, PendingApart, Trying
<1>4. EntriesKnown
  BY <1>1 DEF Init, EntriesKnown
<1>5. WaitingIsNew
  BY <1>1 DEF Init, WaitingIsNew, IsNew, Keys, Subs
<1>6. NotStarted
  BY DEF Init, NotStarted
<1>7. HandlersRecorded
  BY <1>1 DEF Init, HandlersRecorded, Recorded, Closing, Keys, Subs
<1>8. QED
  BY <1>3, <1>4, <1>5, <1>6, <1>7 DEF EntryInv

LEMMA EntryNext == TypeInv /\ EntryInv /\ [Next]_vars => EntryInv'
  BY PendingApartNext, EntriesKnownNext, WaitingIsNewNext, NotStartedNext, HandlersRecordedNext
     DEF EntryInv

LEMMA EntryCorrect == Spec => [](TypeInv /\ EntryInv)
  BY TypeInit, TypeNext, EntryInit, EntryNext, PTL DEF Spec

LEMMA JoinWaits ==
  TypeInv /\ EntryInv /\ [Next]_vars =>
    [appPc = "join" /\ appPc' = "idle" /\ appInfo.sub \notin moved =>
       \A h \in Handlers : hpc[appInfo.sub][h] = "done"]_vars
<1> SUFFICES ASSUME TypeInv, EntryInv, Next, appPc = "join", appPc' = "idle",
                    appInfo.sub \notin moved, NEW h \in Handlers
             PROVE  hpc[appInfo.sub][h] = "done"
  OBVIOUS
<1>1. appInfo.sub \in Subs
  BY TypeGroups DEF InfoShape, Closing, SubInfos
<1>2. JoinHandlers
  BY DEF Next, AppGoesOn, ParseStep, ReconnectStep, HandlerStep,
         CutConnection, mapVars, appVars, reconVars, parseVars, histVars,
         ReadSchema, Goto, OthersKeep, SchemaParsed, ReadRows, FindInfo,
         PushRow, SetOffset, ReadFails, FindLive, StampTime, MarkTopic,
         Subscribe, AppGoes, connVars, Unsubscribe, SubscribeConnects,
         Connect, SubscribeInserts, InsertMeta, SubscribeFails,
         AddHandleThread, Record, EraseInfo, EraseLive, EraseCount,
         CloseSocket, PushNull, VisitTopic, ReconGoes, Resubscribes,
         ReconIdle, ResubscribeFails, VisitInitResub, InitConnects,
         InitInserts, InitFailsAgain, LoopTest, HandlerGoes, HandlerKeeps,
         PopMessage, SayBye
<1>3. appInfo.handlers = Handlers
  BY <1>1 DEF EntryInv, HandlersRecorded, Recorded, Closing
<1>4. QED
  BY <1>2, <1>3 DEF JoinHandlers, Joined

(* When unsubscribe returns, every handler thread of the subscription has   *)
(* ended, unless the reconnect thread made it: by then its threads are all  *)
(* recorded in the one entry that has its queue.                            *)
THEOREM HandlersCorrect == Spec => HandlersEndFirst
  BY EntryCorrect, JoinWaits, PTL DEF Spec, HandlersEndFirst

-----------------------------------------------------------------------------
(* Rows. *)

LEMMA NoPush ==
  TypeInv /\ readyMutex \in {Nobody, App, Reconnect} => \A c \in Conns : pc[c] \notin {"push", "offset"}
  BY TypeGroups, SubscriptionAssumption DEF LockTypes, Conns, Nobody, App, Reconnect

LEMMA PushShapeNext == TypeInv /\ PushShape /\ [Next]_vars => PushShape'
<1> SUFFICES ASSUME TypeInv, PushShape, [Next]_vars PROVE PushShape'
  OBVIOUS
<1>1. ASSUME UNCHANGED <<pc, target, topicSubInfos, outdated, made, connSub>>
     PROVE  PushShape'
  BY <1>1 DEF PushShape
<1>2. ASSUME NEW c \in Conns, CutConnection(c)
      PROVE  UNCHANGED <<pc, target, topicSubInfos, outdated, made, connSub>>
  BY <1>2 DEF CutConnection, mapVars, appVars, reconVars, parseVars, histVars
<1>3. ASSUME NEW s \in Subs, NEW h \in Handlers, LoopTest(s, h) \/
             PopMessage(s, h) \/ SayBye(s, h)
      PROVE  UNCHANGED <<pc, target, topicSubInfos, outdated, made, connSub>>
  BY <1>3 DEF LoopTest, HandlerGoes, HandlerKeeps, mapVars, appVars,
              reconVars, connVars, parseVars, histVars, PopMessage, SayBye
<1>4. ASSUME Subscribe \/ Unsubscribe \/ EraseLive \/ EraseCount \/
             CloseSocket \/ PushNull
      PROVE  UNCHANGED <<pc, target, topicSubInfos, outdated, made, connSub>>
  BY <1>4 DEF Subscribe, AppGoes, mapVars, reconVars, connVars, parseVars,
              histVars, Unsubscribe, EraseLive, EraseCount, CloseSocket,
              PushNull
<1>5. ASSUME JoinHandlers \/ VisitTopic \/ ResubscribeFails \/ VisitInitResub
             \/ InitFailsAgain
      PROVE  UNCHANGED <<pc, target, topicSubInfos, outdated, made, connSub>>
  BY <1>5 DEF JoinHandlers, AppGoes, mapVars, reconVars, connVars, parseVars,
              histVars, VisitTopic, ReconGoes, appVars, ResubscribeFails,
              ReconIdle, VisitInitResub, InitFailsAgain, MarkAfterFailure
<1>6. ASSUME NEW c \in Conns, ReadSchema(c) PROVE PushShape'
  BY <1>6, TypeGroups DEF ReadSchema, Goto, mapVars, histVars, OthersKeep,
                          appVars, reconVars, PushShape, ConnTypes
<1>7. ASSUME NEW c \in Conns, SchemaParsed(c) PROVE PushShape'
  BY <1>7, TypeGroups DEF SchemaParsed, Goto, mapVars, histVars, OthersKeep,
                          appVars, reconVars, PushShape, ConnTypes
<1>8. ASSUME NEW c \in Conns, ReadRows(c) PROVE PushShape'
  BY <1>8, TypeGroups DEF ReadRows, Goto, mapVars, histVars, OthersKeep,
                          appVars, reconVars, PushShape, ConnTypes
<1>9. ASSUME NEW c \in Conns, FindInfo(c) PROVE PushShape'
  <2>1. \A d \in Conns : pc[d] \notin {"push", "offset"}
    BY <1>9, NoPush DEF FindInfo
  <2>2. CASE topicSubInfos["topic"].sub > 0
    <3>1. \A d \in Conns : d # c => pc'[d] \notin {"push", "offset"}
      BY <1>9, <2>1, <2>2, TypeGroups DEF FindInfo, Goto, ConnTypes
    <3>2. target'[c] = topicSubInfos["topic"].sub /\ topicSubInfos' = topicSubInfos
      BY <1>9, <2>2, TypeGroups DEF FindInfo, mapVars, ConnTypes
    <3>3. ~outdated' => c = made /\ connSub[c] = topicSubInfos["topic"].sub
      BY <1>9, <2>2, TypeGroups, SubscriptionAssumption DEF FindInfo, Outdated, ConnShape, ConnTypes, Conns
    <3>4. UNCHANGED <<made, connSub>>
      BY <1>9 DEF FindInfo, OthersKeep
    <3>5. QED
      BY <3>1, <3>2, <3>3, <3>4 DEF PushShape
  <2>3. CASE ~(topicSubInfos["topic"].sub > 0)
    <3>1. \A d \in Conns : pc'[d] \notin {"push", "offset"}
      BY <1>9, <2>1, <2>3, TypeGroups DEF FindInfo, Goto, ConnTypes
    <3>2. QED
      BY <3>1 DEF PushShape
  <2>4. QED
    BY <2>2, <2>3
<1>10. ASSUME NEW c \in Conns, PushRow(c) PROVE PushShape'
  BY <1>10, TypeGroups DEF PushRow, Goto, mapVars, OthersKeep, appVars,
                           reconVars, PushShape, ConnTypes
<1>11. ASSUME NEW c \in Conns, SetOffset(c) PROVE PushShape'
  <2>1. topicSubInfos'["topic"].sub = topicSubInfos["topic"].sub
    BY <1>11, SetOffsetKeeps, TypeGroups DEF Keys
  <2>2. \A d \in Conns : pc'[d] \in {"push", "offset"} =>
          pc[d] \in {"push", "offset"} /\ target'[d] = target[d]
    BY <1>11, TypeGroups DEF SetOffset, Goto, ConnTypes
  <2>3. QED
    BY <1>11, <2>1, <2>2 DEF SetOffset, OthersKeep, histVars, PushShape
<1>12. ASSUME NEW c \in Conns, ReadFails(c) PROVE PushShape'
  BY <1>12, TypeGroups DEF ReadFails, Goto, mapVars, OthersKeep, appVars,
                           reconVars, PushShape, ConnTypes
<1>13. ASSUME NEW c \in Conns, FindLive(c) PROVE PushShape'
  BY <1>13, TypeGroups DEF FindLive, Goto, mapVars, OthersKeep, appVars,
                           reconVars, PushShape, ConnTypes
<1>14. ASSUME NEW c \in Conns, StampTime(c) PROVE PushShape'
  <2>1. topicSubInfos'["topic"].sub \in {topicSubInfos["topic"].sub, 0}
    BY <1>14, SpecialInfos, TypeGroups DEF StampTime, MapTypes, Keys
  <2>2. \A d \in Conns : pc'[d] \in {"push", "offset"} => pc[d] \in {"push", "offset"}
    BY <1>14, TypeGroups DEF StampTime, Goto, ConnTypes
  <2>3. QED
    BY <1>14, <2>1, <2>2 DEF StampTime, OthersKeep, histVars, PushShape
<1>15. ASSUME NEW c \in Conns, MarkTopic(c) PROVE PushShape'
  BY <1>15, TypeGroups DEF MarkTopic, Goto, mapVars, OthersKeep, appVars,
                           reconVars, PushShape, ConnTypes, QueueTypes
<1>16. ASSUME SubscribeConnects PROVE PushShape'
  <2>1. (\A c \in Conns : pc[c] \notin {"push", "offset"}) /\ appInfo \in SubInfos
    BY <1>16, NoPush, TypeGroups DEF SubscribeConnects, InfoShape
  <2>2. \A c \in Conns : pc'[c] \notin {"push", "offset"}
    BY <1>16, <2>1, ConnectSteps, TypeGroups DEF SubscribeConnects, ConnTypes
  <2>3. QED
    BY <2>2 DEF PushShape
<1>17. ASSUME SubscribeInserts PROVE PushShape'
  <2>1. \A c \in Conns : pc'[c] \notin {"push", "offset"}
    BY <1>17, NoPush, TypeGroups DEF SubscribeInserts, LockTypes, parseVars
  <2>2. QED
    BY <2>1 DEF PushShape
<1>18. ASSUME SubscribeFails PROVE PushShape'
  BY <1>18, TypeGroups DEF SubscribeFails, InsertMeta, AppGoes, reconVars,
                           connVars, parseVars, histVars, PushShape, MapTypes,
                           Keys
<1>19. ASSUME NEW h \in Handlers, AddHandleThread(h) PROVE PushShape'
  BY <1>19, RecordKeeps, TypeGroups DEF AddHandleThread, Record, AppGoes,
                                        reconVars, connVars, parseVars,
                                        histVars, PushShape, Keys
<1>20. ASSUME EraseInfo PROVE PushShape'
  BY <1>20, SpecialInfos, TypeGroups DEF EraseInfo, AppGoes, reconVars,
                                         connVars, parseVars, histVars,
                                         PushShape, MapTypes, Keys
<1>21. ASSUME Resubscribes PROVE PushShape'
  <2>1. (\A c \in Conns : pc[c] \notin {"push", "offset"}) /\ reconInfo \in SubInfos
    BY <1>21, NoPush, TypeGroups DEF Resubscribes, InfoShape
  <2>2. \A c \in Conns : pc'[c] \notin {"push", "offset"}
    BY <1>21, <2>1, ConnectSteps, TypeGroups DEF Resubscribes, ConnTypes
  <2>3. QED
    BY <2>2 DEF PushShape
<1>22. ASSUME InitConnects PROVE PushShape'
  <2>1. (\A c \in Conns : pc[c] \notin {"push", "offset"}) /\ reconInfo \in SubInfos
    BY <1>22, NoPush, TypeGroups DEF InitConnects, InfoShape
  <2>2. \A c \in Conns : pc'[c] \notin {"push", "offset"}
    BY <1>22, <2>1, ConnectSteps, TypeGroups DEF InitConnects, ConnTypes
  <2>3. QED
    BY <2>2 DEF PushShape
<1>23. ASSUME InitInserts PROVE PushShape'
  <2>1. \A c \in Conns : pc'[c] \notin {"push", "offset"}
    BY <1>23, NoPush, TypeGroups DEF InitInserts, LockTypes, parseVars
  <2>2. QED
    BY <2>1 DEF PushShape
<1>24. CASE UNCHANGED vars
  BY <1>1, <1>24 DEF vars, mapVars, appVars, reconVars, connVars, parseVars,
                     histVars
<1>25. QED
  BY <1>1, <1>2, <1>3, <1>4, <1>5, <1>6, <1>7, <1>8, <1>9, <1>10, <1>11,
     <1>12, <1>13, <1>14, <1>15, <1>16, <1>17, <1>18, <1>19, <1>20, <1>21,
     <1>22, <1>23, <1>24 DEF Next, AppGoesOn, ParseStep, ReconnectStep,
     HandlerStep

LEMMA MarkShapeNext == TypeInv /\ MarkShape /\ [Next]_vars => MarkShape'
<1> SUFFICES ASSUME TypeInv, MarkShape, [Next]_vars PROVE MarkShape'
  OBVIOUS
<1>1. ASSUME UNCHANGED <<reconPc, topicReconn, made, outdated, pc, met>>
     PROVE  MarkShape'
  BY <1>1 DEF MarkShape
<1>2. ASSUME NEW c \in Conns, CutConnection(c)
      PROVE  UNCHANGED <<reconPc, topicReconn, made, outdated, pc, met>>
  BY <1>2 DEF CutConnection, mapVars, appVars, reconVars, parseVars, histVars
<1>3. ASSUME NEW h \in Handlers, AddHandleThread(h)
      PROVE  UNCHANGED <<reconPc, topicReconn, made, outdated, pc, met>>
  BY <1>3 DEF AddHandleThread, Record, AppGoes, reconVars, connVars,
              parseVars, histVars
<1>4. ASSUME NEW s \in Subs, NEW h \in Handlers, LoopTest(s, h) \/
             PopMessage(s, h) \/ SayBye(s, h)
      PROVE  UNCHANGED <<reconPc, topicReconn, made, outdated, pc, met>>
  BY <1>4 DEF LoopTest, HandlerGoes, HandlerKeeps, mapVars, appVars,
              reconVars, connVars, parseVars, histVars, PopMessage, SayBye
<1>5. ASSUME Subscribe \/ Unsubscribe \/ SubscribeInserts \/ SubscribeFails \/
             EraseInfo \/ EraseLive
      PROVE  UNCHANGED <<reconPc, topicReconn, made, outdated, pc, met>>
  BY <1>5 DEF Subscribe, AppGoes, mapVars, reconVars, connVars, parseVars,
              histVars, Unsubscribe, SubscribeInserts, InsertMeta,
              SubscribeFails, EraseInfo, EraseLive
<1>6. ASSUME EraseCount \/ CloseSocket \/ PushNull \/ JoinHandlers
      PROVE  UNCHANGED <<reconPc, topicReconn, made, outdated, pc, met>>
  BY <1>6 DEF EraseCount, AppGoes, reconVars, connVars, parseVars, histVars,
              CloseSocket, mapVars, PushNull, JoinHandlers
<1>7. ASSUME NEW c \in Conns, ReadSchema(c) PROVE MarkShape'
  <2>1. /\ made \in Int /\ \A d \in Conns : d \in Int /\ d > 0
        /\ pc[c] # "none" => c <= made /\ made \in Conns
    BY TypeGroups, SubscriptionAssumption DEF ConnTypes, ConnShape, Conns
  <2>2. QED
    BY <1>7, <2>1, TypeGroups DEF ReadSchema, Goto, mapVars, histVars,
                                 OthersKeep, appVars, reconVars, MarkShape,
                                 ConnTypes
<1>8. ASSUME NEW c \in Conns, SchemaParsed(c) PROVE MarkShape'
  <2>1. /\ made \in Int /\ \A d \in Conns : d \in Int /\ d > 0
        /\ pc[c] # "none" => c <= made /\ made \in Conns
    BY TypeGroups, SubscriptionAssumption DEF ConnTypes, ConnShape, Conns
  <2>2. QED
    BY <1>8, <2>1, TypeGroups DEF SchemaParsed, Goto, mapVars, histVars,
                                 OthersKeep, appVars, reconVars, MarkShape,
                                 ConnTypes, ReconnLocked
<1>9. ASSUME NEW c \in Conns, ReadRows(c) PROVE MarkShape'
  <2>1. /\ made \in Int /\ \A d \in Conns : d \in Int /\ d > 0
        /\ pc[c] # "none" => c <= made /\ made \in Conns
    BY TypeGroups, SubscriptionAssumption DEF ConnTypes, ConnShape, Conns
  <2>2. QED
    BY <1>9, <2>1, TypeGroups DEF ReadRows, Goto, mapVars, histVars, OthersKeep,
                                 appVars, reconVars, MarkShape, ConnTypes
<1>10. ASSUME NEW c \in Conns, FindInfo(c) PROVE MarkShape'
  <2>1. /\ made \in Int /\ \A d \in Conns : d \in Int /\ d > 0
        /\ pc[c] # "none" => c <= made /\ made \in Conns
    BY TypeGroups, SubscriptionAssumption DEF ConnTypes, ConnShape, Conns
  <2>2. QED
    BY <1>10, <2>1, TypeGroups DEF FindInfo, Goto, mapVars, OthersKeep, appVars,
                                 reconVars, MarkShape, ConnTypes, QueueTypes
<1>11. ASSUME NEW c \in Conns, PushRow(c) PROVE MarkShape'
  <2>1. /\ made \in Int /\ \A d \in Conns : d \in Int /\ d > 0
        /\ pc[c] # "none" => c <= made /\ made \in Conns
    BY TypeGroups, SubscriptionAssumption DEF ConnTypes, ConnShape, Conns
  <2>2. QED
    BY <1>11, <2>1, TypeGroups DEF PushRow, Goto, mapVars, OthersKeep, appVars,
                                 reconVars, MarkShape, ConnTypes
<1>12. ASSUME NEW c \in Conns, SetOffset(c) PROVE MarkShape'
  <2>1. /\ made \in Int /\ \A d \in Conns : d \in Int /\ d > 0
        /\ pc[c] # "none" => c <= made /\ made \in Conns
    BY TypeGroups, SubscriptionAssumption DEF ConnTypes, ConnShape, Conns
  <2>2. QED
    BY <1>12, <2>1, TypeGroups DEF SetOffset, Goto, histVars, OthersKeep, appVars,
                                 reconVars, MarkShape, ConnTypes
<1>13. ASSUME NEW c \in Conns, ReadFails(c) PROVE MarkShape'
  <2>1. /\ made \in Int /\ \A d \in Conns : d \in Int /\ d > 0
        /\ pc[c] # "none" => c <= made /\ made \in Conns
    BY TypeGroups, SubscriptionAssumption DEF ConnTypes, ConnShape, Conns
  <2>2. QED
    BY <1>13, <2>1, TypeGroups DEF ReadFails, Goto, mapVars, OthersKeep, appVars,
                                 reconVars, MarkShape, ConnTypes, Recovers
<1>14. ASSUME NEW c \in Conns, FindLive(c) PROVE MarkShape'
  <2>1. /\ made \in Int /\ \A d \in Conns : d \in Int /\ d > 0
        /\ pc[c] # "none" => c <= made /\ made \in Conns
    BY TypeGroups, SubscriptionAssumption DEF ConnTypes, ConnShape, Conns
  <2>2. QED
    BY <1>14, <2>1, TypeGroups DEF FindLive, Goto, mapVars, OthersKeep, appVars,
                                 reconVars, MarkShape, ConnTypes
<1>15. ASSUME NEW c \in Conns, StampTime(c) PROVE MarkShape'
  <2>1. /\ made \in Int /\ \A d \in Conns : d \in Int /\ d > 0
        /\ pc[c] # "none" => c <= made /\ made \in Conns
    BY TypeGroups, SubscriptionAssumption DEF ConnTypes, ConnShape, Conns
  <2>2. QED
    BY <1>15, <2>1, TypeGroups DEF StampTime, Goto, histVars, OthersKeep, appVars,
                                 reconVars, MarkShape, ConnTypes
<1>16. ASSUME NEW c \in Conns, MarkTopic(c) PROVE MarkShape'
  <2>1. /\ made \in Int /\ \A d \in Conns : d \in Int /\ d > 0
        /\ pc[c] # "none" => c <= made /\ made \in Conns
    BY TypeGroups, SubscriptionAssumption DEF ConnTypes, ConnShape, Conns
  <2>2. c = made \/ outdated'
    <3>1. pc[c] = "mark" /\ outdated' = (outdated \/ Outdated(c))
      BY <1>16 DEF MarkTopic
    <3>2. c < made => outdated'
      BY <3>1 DEF Outdated
    <3>3. QED
      BY <2>1, <3>1, <3>2
  <2>3. topicReconn' /\ pc' = [pc EXCEPT ![c] = "done"] /\ made' = made /\ made \in Conns
    BY <1>16, <2>1 DEF MarkTopic, Goto, OthersKeep
  <2>4. QED
    BY <2>1, <2>2, <2>3, TypeGroups DEF MarkShape, ConnTypes
<1>17. ASSUME SubscribeConnects PROVE MarkShape'
  <2>1. readyMutex = Nobody /\ appInfo \in SubInfos
    BY <1>17, TypeGroups DEF SubscribeConnects, InfoShape
  <2>2. /\ made' = made + 1 /\ made' \in Conns /\ pc' = [pc EXCEPT ![made'] = "read"] /\ met' = met
    BY <1>17, <2>1, ConnectSteps, TypeGroups DEF SubscribeConnects, Connect
  <2>3. pc'[made'] = "read" /\ ~met'[made']
    BY <2>2, TypeGroups, SubscriptionAssumption DEF ConnTypes, ConnShape, Conns
  <2>4. QED
    BY <1>17, <2>2, <2>3, TypeGroups, SubscriptionAssumption
    DEF SubscribeConnects, MarkShape, ConnTypes, Conns, reconVars, histVars, ReconGoes, ReconIdle
<1>18. ASSUME VisitTopic PROVE MarkShape'
  BY <1>18 DEF VisitTopic, ReconGoes, mapVars, appVars, connVars, parseVars,
               histVars, MarkShape, ConnTypes
<1>19. ASSUME Resubscribes PROVE MarkShape'
  <2>1. readyMutex = Nobody /\ reconInfo \in SubInfos
    BY <1>19, TypeGroups DEF Resubscribes, InfoShape
  <2>2. /\ made' = made + 1 /\ made' \in Conns /\ pc' = [pc EXCEPT ![made'] = "read"] /\ met' = met
    BY <1>19, <2>1, ConnectSteps, TypeGroups DEF Resubscribes, Connect
  <2>3. pc'[made'] = "read" /\ ~met'[made']
    BY <2>2, TypeGroups, SubscriptionAssumption DEF ConnTypes, ConnShape, Conns
  <2>4. QED
    BY <1>19, <2>2, <2>3, TypeGroups, SubscriptionAssumption
    DEF Resubscribes, MarkShape, ConnTypes, Conns, reconVars, histVars, ReconGoes, ReconIdle
<1>20. ASSUME ResubscribeFails PROVE MarkShape'
  BY <1>20 DEF ResubscribeFails, ReconIdle, mapVars, appVars, connVars,
               parseVars, histVars, MarkShape, ConnTypes, MarkAfterFailure
<1>21. ASSUME VisitInitResub PROVE MarkShape'
  BY <1>21 DEF VisitInitResub, ReconGoes, mapVars, appVars, connVars,
               parseVars, histVars, MarkShape, ConnTypes
<1>22. ASSUME InitConnects PROVE MarkShape'
  <2>1. readyMutex = Nobody /\ reconInfo \in SubInfos
    BY <1>22, TypeGroups DEF InitConnects, InfoShape
  <2>2. /\ made' = made + 1 /\ made' \in Conns /\ pc' = [pc EXCEPT ![made'] = "read"] /\ met' = met
    BY <1>22, <2>1, ConnectSteps, TypeGroups DEF InitConnects, Connect
  <2>3. pc'[made'] = "read" /\ ~met'[made']
    BY <2>2, TypeGroups, SubscriptionAssumption DEF ConnTypes, ConnShape, Conns
  <2>4. QED
    BY <1>22, <2>2, <2>3, TypeGroups, SubscriptionAssumption
    DEF InitConnects, MarkShape, ConnTypes, Conns, reconVars, histVars, ReconGoes, ReconIdle
<1>23. ASSUME InitInserts PROVE MarkShape'
  BY <1>23 DEF InitInserts, InsertMeta, ReconIdle, appVars, connVars,
               parseVars, MarkShape, ConnTypes
<1>24. ASSUME InitFailsAgain PROVE MarkShape'
  BY <1>24 DEF InitFailsAgain, ReconIdle, mapVars, appVars, connVars,
               parseVars, histVars, MarkShape, ConnTypes
<1>25. CASE UNCHANGED vars
  BY <1>1, <1>25 DEF vars, mapVars, appVars, reconVars, connVars, parseVars,
                     histVars
<1>26. QED
  BY <1>1, <1>2, <1>3, <1>4, <1>5, <1>6, <1>7, <1>8, <1>9, <1>10, <1>11,
     <1>12, <1>13, <1>14, <1>15, <1>16, <1>17, <1>18, <1>19, <1>20, <1>21,
     <1>22, <1>23, <1>24, <1>25 DEF Next, AppGoesOn, ParseStep, ReconnectStep,
     HandlerStep

LEMMA OutdatedGrows == [Next]_vars /\ outdated => outdated'
<1> SUFFICES ASSUME [Next]_vars, outdated PROVE outdated'
  OBVIOUS
<1>1. ASSUME UNCHANGED <<outdated>> PROVE outdated'
  BY <1>1
<1>2. ASSUME NEW c \in Conns, CutConnection(c) \/ ReadSchema(c) \/
             SchemaParsed(c) \/ ReadRows(c) \/ PushRow(c) \/ SetOffset(c)
      PROVE  UNCHANGED <<outdated>>
  BY <1>2 DEF CutConnection, mapVars, appVars, reconVars, parseVars, histVars,
              ReadSchema, Goto, OthersKeep, SchemaParsed, ReadRows, PushRow,
              SetOffset
<1>3. ASSUME NEW c \in Conns, ReadFails(c) \/ FindLive(c) \/ StampTime(c)
      PROVE  UNCHANGED <<outdated>>
  BY <1>3 DEF ReadFails, Goto, mapVars, OthersKeep, appVars, reconVars,
              FindLive, StampTime, histVars
<1>4. ASSUME NEW h \in Handlers, AddHandleThread(h)
      PROVE  UNCHANGED <<outdated>>
  BY <1>4 DEF AddHandleThread, Record, AppGoes, reconVars, connVars,
              parseVars, histVars
<1>5. ASSUME NEW s \in Subs, NEW h \in Handlers, LoopTest(s, h) \/
             PopMessage(s, h) \/ SayBye(s, h)
      PROVE  UNCHANGED <<outdated>>
  BY <1>5 DEF LoopTest, HandlerGoes, HandlerKeeps, mapVars, appVars,
              reconVars, connVars, parseVars, histVars, PopMessage, SayBye
<1>6. ASSUME Subscribe \/ Unsubscribe \/ SubscribeConnects \/ SubscribeInserts
             \/ SubscribeFails \/ EraseInfo
      PROVE  UNCHANGED <<outdated>>
  BY <1>6 DEF Subscribe, AppGoes, mapVars, reconVars, connVars, parseVars,
              histVars, Unsubscribe, SubscribeConnects, Connect,
              SubscribeInserts, InsertMeta, SubscribeFails, EraseInfo
<1>7. ASSUME EraseLive \/ EraseCount \/ CloseSocket \/ PushNull \/
             JoinHandlers \/ VisitTopic
      PROVE  UNCHANGED <<outdated>>
  BY <1>7 DEF EraseLive, AppGoes, reconVars, connVars, parseVars, histVars,
              EraseCount, CloseSocket, mapVars, PushNull, JoinHandlers,
              VisitTopic, ReconGoes, appVars
<1>8. ASSUME Resubscribes \/ ResubscribeFails \/ VisitInitResub \/
             InitConnects \/ InitInserts \/ InitFailsAgain
      PROVE  UNCHANGED <<outdated>>
  BY <1>8 DEF Resubscribes, Connect, ReconIdle, mapVars, appVars, histVars,
              ResubscribeFails, connVars, parseVars, VisitInitResub,
              ReconGoes, InitConnects, InitInserts, InsertMeta,
              InitFailsAgain, MarkAfterFailure
<1>9. ASSUME NEW c \in Conns, FindInfo(c) PROVE outdated'
  BY <1>9 DEF FindInfo
<1>10. ASSUME NEW c \in Conns, MarkTopic(c) PROVE outdated'
  BY <1>10 DEF MarkTopic
<1>11. CASE UNCHANGED vars
  BY <1>1, <1>11 DEF vars, mapVars, appVars, reconVars, connVars, parseVars,
                     histVars
<1>12. QED
  BY <1>1, <1>2, <1>3, <1>4, <1>5, <1>6, <1>7, <1>8, <1>9, <1>10, <1>11 DEF
     Next, AppGoesOn, ParseStep, ReconnectStep, HandlerStep

LEMMA AppendFacts ==
  ASSUME NEW q \in Seq(Nat), NEW row \in Nat
  PROVE  /\ Append(q, row) # <<>> /\ Append(q, row)[Len(Append(q, row))] = row
         /\ Len(Append(q, row)) = Len(q) + 1 /\ Len(q) \in Nat
         /\ \A i \in 1 .. Len(q) : Append(q, row)[i] = q[i]
         /\ Len(q) > 0 => q # <<>>
<1>1. Len(Append(q, row)) = Len(q) + 1 /\ Len(q) \in Nat
  OBVIOUS
<1>2. Append(q, row)[Len(q) + 1] = row /\ \A i \in 1 .. Len(q) : Append(q, row)[i] = q[i]
  OBVIOUS
<1>3. Append(q, row) # <<>>
  BY <1>1
<1>4. QED
  BY <1>1, <1>2, <1>3

(* A row more on the queue of a subscription. *)
LEMMA PushDelivers ==
  ASSUME TypeInv, NEW c \in Conns, PushRow(c), NEW s \in Subs, s = target[c]
  PROVE  /\ delivered'[s] # <<>> /\ delivered'[s][Len(delivered'[s])] = hand[c][1]
         /\ \A r \in Subs : r # s => delivered'[r] = delivered[r]
         /\ Len(delivered'[s]) = Len(delivered[s]) + 1
         /\ \A i \in 1 .. Len(delivered[s]) : delivered'[s][i] = delivered[s][i]
         /\ Len(delivered[s]) \in Nat /\ (Len(delivered[s]) > 0 => delivered[s] # <<>>)
         /\ IF hand[c][1] = hand[c][2] THEN pc'[c] = "offset" ELSE pc'[c] = "push"
         /\ hand'[c][1] = hand[c][1] + 1 /\ hand'[c][2] = hand[c][2]
         /\ target' = target
<1>1. /\ delivered[s] \in Seq(Nat) /\ hand[c][1] \in Nat /\ hand[c][2] \in Int /\ hand[c] \in Nat \X Int
      /\ hand[c][1] <= hand[c][2]
  BY TypeGroups DEF QueueTypes, ConnTypes, ConnShape, PushRow
<1>2. delivered'[s] = Append(delivered[s], hand[c][1])
  BY TypeGroups DEF PushRow, QueueTypes
<1>3. \A r \in Subs : r # s => delivered'[r] = delivered[r]
  BY TypeGroups DEF PushRow, QueueTypes
<1>4. hand'[c] = <<hand[c][1] + 1, hand[c][2]>>
  BY TypeGroups DEF PushRow, Rest, ConnTypes
<1>5. IF hand[c][1] = hand[c][2] THEN pc'[c] = "offset" ELSE pc'[c] = "push"
  BY <1>1, <1>4, TypeGroups DEF PushRow, Goto, NoRows, ConnTypes
<1>6. /\ delivered'[s] # <<>> /\ delivered'[s][Len(delivered'[s])] = hand[c][1]
      /\ Len(delivered'[s]) = Len(delivered[s]) + 1 /\ Len(delivered[s]) \in Nat
      /\ \A i \in 1 .. Len(delivered[s]) : delivered'[s][i] = delivered[s][i]
      /\ Len(delivered[s]) > 0 => delivered[s] # <<>>
  <2> DEFINE q == delivered[s]
             row == hand[c][1]
             new == Append(q, row)
  <2>1. q \in Seq(Nat) /\ row \in Nat
    BY <1>1
  <2> HIDE DEF q, row
  <2>2. /\ new # <<>> /\ new[Len(new)] = row /\ Len(new) = Len(q) + 1 /\ Len(q) \in Nat
        /\ \A i \in 1 .. Len(q) : new[i] = q[i]
        /\ Len(q) > 0 => q # <<>>
    BY <2>1, AppendFacts
  <2>3. delivered'[s] = new
    BY <1>2 DEF q, row
  <2> HIDE DEF new
  <2>4. QED
    BY <2>2, <2>3 DEF q, row
<1>7. QED
  BY <1>3, <1>4, <1>5, <1>6 DEF PushRow

(* A thread that pushes does so for the latest connection, so that it is    *)
(* the only one and the topic is not being connected anew.                  *)
LEMMA PushIsLatest ==
  ASSUME TypeInv, PushShape, MarkShape, ~outdated, NEW c \in Conns, pc[c] \in {"push", "offset"}
  PROVE  /\ c = made /\ connSub[c] = target[c] /\ target[c] \in Subs /\ reconPc # "resub"
         /\ \A d \in Conns : d # c => pc[d] \notin {"push", "offset"}
<1>1. c = made /\ connSub[c] = target[c] /\ \A d \in Conns : d # c => pc[d] \notin {"push", "offset"}
  BY DEF PushShape
<1>2. target[c] \in Subs
  BY TypeGroups DEF ConnShape
<1>3. reconPc # "resub"
  BY <1>1 DEF MarkShape
<1>4. QED
  BY <1>1, <1>2, <1>3

(* What subscribe() and the reconnect thread connect for the first time has *)
(* no rows.                                                                 *)
LEMMA AppIsNew ==
  ASSUME TypeInv, EntryInv, appPc \in {"connect", "insert"}
  PROVE  appInfo \in SubInfos /\ appInfo.sub \in Subs /\ IsNew(appInfo.sub)
<1>1. appInfo \in SubInfos /\ appInfo.sub = lastSub /\ lastSub \in Subs
  BY TypeGroups DEF InfoShape, SubInfos
<1>2. lastSub > Entered
  BY <1>1 DEF Entered, Subs
<1>3. QED
  BY <1>1, <1>2 DEF EntryInv, WaitingIsNew, Waiting

LEMMA ReconIsNew ==
  ASSUME TypeInv, EntryInv, reconPc \in Trying
  PROVE  reconInfo \in SubInfos /\ reconInfo.sub \in Subs /\ IsNew(reconInfo.sub)
<1>1. reconInfo \in SubInfos /\ reconInfo.sub \in Subs
  BY TypeGroups DEF InfoShape, SubInfos, Trying
<1>2. QED
  BY <1>1 DEF EntryInv, WaitingIsNew, Waiting, Pending

LEMMA EntryRowNext ==
  TypeInv /\ EntryInv /\ PushShape /\ MarkShape /\
  DeliveryShape /\ [Next]_vars /\ PushShape' /\ ~outdated'
    => EntryRow'
<1> SUFFICES ASSUME TypeInv, EntryInv, PushShape, MarkShape, DeliveryShape, [Next]_vars,
                    PushShape', ~outdated'
             PROVE  EntryRow'
  OBVIOUS
<1>0. ~outdated /\ NextKnown /\ RowsFollow
  BY OutdatedGrows DEF DeliveryShape
<1>1. ASSUME UNCHANGED <<topicSubInfos, pc, delivered>> PROVE EntryRow'
  BY <1>0, <1>1 DEF EntryRow, Follows, Last, NextKnown
<1>2. ASSUME NEW c \in Conns, CutConnection(c)
      PROVE  UNCHANGED <<topicSubInfos, pc, delivered>>
  BY <1>2 DEF CutConnection, mapVars, appVars, reconVars, parseVars, histVars
<1>3. ASSUME NEW s \in Subs, NEW h \in Handlers, LoopTest(s, h) \/
             PopMessage(s, h) \/ SayBye(s, h)
      PROVE  UNCHANGED <<topicSubInfos, pc, delivered>>
  BY <1>3 DEF LoopTest, HandlerGoes, HandlerKeeps, mapVars, appVars,
              reconVars, connVars, parseVars, histVars, PopMessage, SayBye
<1>4. ASSUME Subscribe \/ Unsubscribe \/ EraseLive \/ EraseCount \/
             CloseSocket \/ PushNull
      PROVE  UNCHANGED <<topicSubInfos, pc, delivered>>
  BY <1>4 DEF Subscribe, AppGoes, mapVars, reconVars, connVars, parseVars,
              histVars, Unsubscribe, EraseLive, EraseCount, CloseSocket,
              PushNull
<1>5. ASSUME JoinHandlers \/ VisitTopic \/ ResubscribeFails \/ VisitInitResub
             \/ InitFailsAgain
      PROVE  UNCHANGED <<topicSubInfos, pc, delivered>>
  BY <1>5 DEF JoinHandlers, AppGoes, mapVars, reconVars, connVars, parseVars,
              histVars, VisitTopic, ReconGoes, appVars, ResubscribeFails,
              ReconIdle, VisitInitResub, InitFailsAgain, MarkAfterFailure
<1>6. ASSUME NEW c \in Conns, ReadSchema(c) PROVE EntryRow'
  <2>1. \A d \in Conns : pc'[d] \in {"push", "offset"} <=> pc[d] \in {"push", "offset"}
    BY <1>6, TypeGroups DEF ReadSchema, Goto, ConnTypes
  <2>2. UNCHANGED <<topicSubInfos, delivered>>
    BY <1>6 DEF ReadSchema, mapVars, histVars
  <2>3. QED
    BY <1>0, <2>1, <2>2 DEF NextKnown, EntryRow, Follows, Last
<1>7. ASSUME NEW c \in Conns, SchemaParsed(c) PROVE EntryRow'
  <2>1. \A d \in Conns : pc'[d] \in {"push", "offset"} <=> pc[d] \in {"push", "offset"}
    BY <1>7, TypeGroups DEF SchemaParsed, Goto, ConnTypes
  <2>2. UNCHANGED <<topicSubInfos, delivered>>
    BY <1>7 DEF SchemaParsed, mapVars, histVars
  <2>3. QED
    BY <1>0, <2>1, <2>2 DEF NextKnown, EntryRow, Follows, Last
<1>8. ASSUME NEW c \in Conns, ReadRows(c) PROVE EntryRow'
  <2>1. \A d \in Conns : pc'[d] \in {"push", "offset"} <=> pc[d] \in {"push", "offset"}
    BY <1>8, TypeGroups DEF ReadRows, Goto, ConnTypes
  <2>2. UNCHANGED <<topicSubInfos, delivered>>
    BY <1>8 DEF ReadRows, mapVars, histVars
  <2>3. QED
    BY <1>0, <2>1, <2>2 DEF NextKnown, EntryRow, Follows, Last
<1>9. ASSUME NEW c \in Conns, FindInfo(c) PROVE EntryRow'
  <2>1. CASE topicSubInfos["topic"].sub > 0
    BY <1>9, <2>1, TypeGroups DEF FindInfo, Goto, ConnTypes, EntryRow
  <2>2. CASE ~(topicSubInfos["topic"].sub > 0)
    BY <1>9, <2>2 DEF FindInfo, mapVars, EntryRow, Subs
  <2>3. QED
    BY <2>1, <2>2
<1>10. ASSUME NEW c \in Conns, PushRow(c) PROVE EntryRow'
  <2>1. pc'[c] \in {"push", "offset"}
    BY <1>10, TypeGroups DEF PushRow, Goto, ConnTypes
  <2>2. QED
    BY <2>1 DEF EntryRow
<1>11. ASSUME NEW c \in Conns, SetOffset(c) PROVE EntryRow'
  <2>1. topicSubInfos'["topic"].sub = topicSubInfos["topic"].sub
    BY <1>11, SetOffsetKeeps, TypeGroups DEF Keys
  <2>2. SUFFICES ASSUME topicSubInfos["topic"].sub \in Subs
                 PROVE  Follows(topicSubInfos["topic"].offset, topicSubInfos["topic"].sub)'
    BY <2>1 DEF EntryRow
  <2>3. topicSubInfos["topic"].sub = target[c]
    BY <1>11, <2>2 DEF SetOffset, PushShape, Subs
  <2>4. topicSubInfos["topic"] # Absent
    BY <2>2, SpecialInfos DEF Subs
  <2>5. topicSubInfos'["topic"].offset = hand[c][2] + 1
    BY <1>11, <2>4, SetOffsetKeeps, TypeGroups
  <2>6. hand[c][2] = Last(target[c])
    BY <1>11, <1>0 DEF SetOffset, NextKnown, PushedRow
  <2>7. delivered' = delivered
    BY <1>11 DEF SetOffset, histVars
  <2>8. QED
    BY <2>1, <2>3, <2>5, <2>6, <2>7 DEF Follows, Last
<1>12. ASSUME NEW c \in Conns, ReadFails(c) PROVE EntryRow'
  <2>1. \A d \in Conns : pc'[d] \in {"push", "offset"} <=> pc[d] \in {"push", "offset"}
    BY <1>12, TypeGroups DEF ReadFails, Goto, ConnTypes
  <2>2. UNCHANGED <<topicSubInfos, delivered>>
    BY <1>12 DEF ReadFails, mapVars, histVars
  <2>3. QED
    BY <1>0, <2>1, <2>2 DEF NextKnown, EntryRow, Follows, Last
<1>13. ASSUME NEW c \in Conns, FindLive(c) PROVE EntryRow'
  <2>1. \A d \in Conns : pc'[d] \in {"push", "offset"} <=> pc[d] \in {"push", "offset"}
    BY <1>13, TypeGroups DEF FindLive, Goto, ConnTypes
  <2>2. UNCHANGED <<topicSubInfos, delivered>>
    BY <1>13 DEF FindLive, mapVars, histVars
  <2>3. QED
    BY <1>0, <2>1, <2>2 DEF NextKnown, EntryRow, Follows, Last
<1>14. ASSUME NEW c \in Conns, StampTime(c) PROVE EntryRow'
  <2>1. \A d \in Conns : pc'[d] \in {"push", "offset"} <=> pc[d] \in {"push", "offset"}
    BY <1>14, TypeGroups DEF StampTime, Goto, ConnTypes
  <2>2. topicSubInfos'["topic"] = topicSubInfos["topic"] \/ topicSubInfos'["topic"].sub = 0
    BY <1>14, SpecialInfos, TypeGroups DEF StampTime, MapTypes, Keys
  <2>3. delivered' = delivered
    BY <1>14 DEF StampTime, histVars
  <2>4. QED
    BY <1>0, <2>1, <2>2, <2>3 DEF NextKnown, EntryRow, Follows, Last, Subs
<1>15. ASSUME NEW c \in Conns, MarkTopic(c) PROVE EntryRow'
  <2>1. \A d \in Conns : pc'[d] \in {"push", "offset"} <=> pc[d] \in {"push", "offset"}
    BY <1>15, TypeGroups DEF MarkTopic, Goto, ConnTypes
  <2>2. UNCHANGED <<topicSubInfos, delivered>>
    BY <1>15 DEF MarkTopic, mapVars, histVars
  <2>3. QED
    BY <1>0, <2>1, <2>2 DEF NextKnown, EntryRow, Follows, Last
<1>16. ASSUME SubscribeConnects PROVE EntryRow'
  <2>1. \A c \in Conns : pc[c] \notin {"push", "offset"}
    BY <1>16, NoPush DEF SubscribeConnects
  <2>2. UNCHANGED <<topicSubInfos, delivered>>
    BY <1>16 DEF SubscribeConnects, mapVars, histVars
  <2>3. QED
    BY <1>0, <2>1, <2>2 DEF NextKnown, EntryRow, Follows, Last
<1>17. ASSUME SubscribeInserts PROVE EntryRow'
  <2>1. appInfo.sub \in Subs /\ delivered[appInfo.sub] = <<>>
    BY <1>17, AppIsNew DEF SubscribeInserts, IsNew
  <2>2. topicSubInfos'["topic"] = appInfo /\ delivered' = delivered
    BY <1>17, TypeGroups DEF SubscribeInserts, InsertMeta, MapTypes, Keys, histVars
  <2>3. QED
    BY <2>1, <2>2 DEF EntryRow, Follows
<1>18. ASSUME SubscribeFails PROVE EntryRow'
  <2>1. topicSubInfos'["topic"] = topicSubInfos["topic"] /\ UNCHANGED <<pc, delivered>>
    BY <1>18, TypeGroups DEF SubscribeFails, InsertMeta, MapTypes, Keys, parseVars, histVars
  <2>2. QED
    BY <1>0, <2>1 DEF NextKnown, EntryRow, Follows, Last
<1>19. ASSUME NEW h \in Handlers, AddHandleThread(h) PROVE EntryRow'
  <2>1. /\ topicSubInfos'["topic"].sub = topicSubInfos["topic"].sub
        /\ topicSubInfos'["topic"].offset = topicSubInfos["topic"].offset
    BY <1>19, RecordKeeps, TypeGroups DEF AddHandleThread, Keys
  <2>2. UNCHANGED <<pc, delivered>>
    BY <1>19 DEF AddHandleThread, parseVars, histVars
  <2>3. QED
    BY <1>0, <2>1, <2>2 DEF NextKnown, EntryRow, Follows, Last
<1>20. ASSUME EraseInfo PROVE EntryRow'
  <2>1. topicSubInfos'["topic"] = topicSubInfos["topic"] \/ topicSubInfos'["topic"].sub = -1
    BY <1>20, SpecialInfos, TypeGroups DEF EraseInfo, MapTypes, Keys
  <2>2. UNCHANGED <<pc, delivered>>
    BY <1>20 DEF EraseInfo, parseVars, histVars
  <2>3. QED
    BY <1>0, <2>1, <2>2 DEF NextKnown, EntryRow, Follows, Last, Subs
<1>21. ASSUME Resubscribes PROVE EntryRow'
  <2>1. \A c \in Conns : pc[c] \notin {"push", "offset"}
    BY <1>21, NoPush DEF Resubscribes
  <2>2. UNCHANGED <<topicSubInfos, delivered>>
    BY <1>21 DEF Resubscribes, mapVars, histVars
  <2>3. QED
    BY <1>0, <2>1, <2>2 DEF NextKnown, EntryRow, Follows, Last
<1>22. ASSUME InitConnects PROVE EntryRow'
  <2>1. \A c \in Conns : pc[c] \notin {"push", "offset"}
    BY <1>22, NoPush DEF InitConnects
  <2>2. UNCHANGED <<topicSubInfos, delivered>>
    BY <1>22 DEF InitConnects, mapVars, histVars
  <2>3. QED
    BY <1>0, <2>1, <2>2 DEF NextKnown, EntryRow, Follows, Last
<1>23. ASSUME InitInserts PROVE EntryRow'
  <2>1. reconInfo.sub \in Subs /\ delivered[reconInfo.sub] = <<>>
    BY <1>23, ReconIsNew DEF InitInserts, IsNew, Trying
  <2>2. topicSubInfos'["topic"] = reconInfo /\ delivered' = delivered
    BY <1>23, TypeGroups DEF InitInserts, InsertMeta, MapTypes, Keys
  <2>3. QED
    BY <2>1, <2>2 DEF EntryRow, Follows
<1>24. CASE UNCHANGED vars
  BY <1>1, <1>24 DEF vars, mapVars, appVars, reconVars, connVars, parseVars,
                     histVars
<1>25. QED
  BY <1>1, <1>2, <1>3, <1>4, <1>5, <1>6, <1>7, <1>8, <1>9, <1>10, <1>11,
     <1>12, <1>13, <1>14, <1>15, <1>16, <1>17, <1>18, <1>19, <1>20, <1>21,
     <1>22, <1>23, <1>24 DEF Next, AppGoesOn, ParseStep, ReconnectStep,
     HandlerStep

LEMMA CopyRowNext ==
  TypeInv /\ EntryInv /\ PushShape /\ MarkShape /\
  DeliveryShape /\ [Next]_vars /\ PushShape' /\ ~outdated'
    => CopyRow'
<1> SUFFICES ASSUME TypeInv, EntryInv, PushShape, MarkShape, DeliveryShape, [Next]_vars,
                    PushShape', ~outdated'
             PROVE  CopyRow'
  OBVIOUS
<1>0. ~outdated /\ NextKnown /\ RowsFollow
  BY OutdatedGrows DEF DeliveryShape
<1>1. ASSUME UNCHANGED <<topicSubInfos, reconPc, reconInfo>> PROVE CopyRow'
  BY <1>0, <1>1 DEF CopyRow, NextKnown
<1>2. ASSUME NEW c \in Conns, CutConnection(c) \/ ReadSchema(c) \/
             SchemaParsed(c) \/ ReadRows(c) \/ FindInfo(c) \/ PushRow(c)
      PROVE  UNCHANGED <<topicSubInfos, reconPc, reconInfo>>
  BY <1>2 DEF CutConnection, mapVars, appVars, reconVars, parseVars, histVars,
              ReadSchema, Goto, OthersKeep, SchemaParsed, ReadRows, FindInfo,
              PushRow
<1>3. ASSUME NEW c \in Conns, ReadFails(c) \/ FindLive(c) \/ MarkTopic(c)
      PROVE  UNCHANGED <<topicSubInfos, reconPc, reconInfo>>
  BY <1>3 DEF ReadFails, Goto, mapVars, OthersKeep, appVars, reconVars,
              FindLive, MarkTopic
<1>4. ASSUME NEW s \in Subs, NEW h \in Handlers, LoopTest(s, h) \/
             PopMessage(s, h) \/ SayBye(s, h)
      PROVE  UNCHANGED <<topicSubInfos, reconPc, reconInfo>>
  BY <1>4 DEF LoopTest, HandlerGoes, HandlerKeeps, mapVars, appVars,
              reconVars, connVars, parseVars, histVars, PopMessage, SayBye
<1>5. ASSUME Subscribe \/ Unsubscribe \/ SubscribeConnects \/ EraseLive \/
             EraseCount \/ CloseSocket
      PROVE  UNCHANGED <<topicSubInfos, reconPc, reconInfo>>
  BY <1>5 DEF Subscribe, AppGoes, mapVars, reconVars, connVars, parseVars,
              histVars, Unsubscribe, SubscribeConnects, Connect, EraseLive,
              EraseCount, CloseSocket
<1>6. ASSUME PushNull \/ JoinHandlers
      PROVE  UNCHANGED <<topicSubInfos, reconPc, reconInfo>>
  BY <1>6 DEF PushNull, AppGoes, mapVars, reconVars, connVars, parseVars,
              histVars, JoinHandlers
<1>7. ASSUME NEW c \in Conns, SetOffset(c) PROVE CopyRow'
  <2>1. reconPc # "resub" /\ reconPc' = reconPc
    BY <1>7, <1>0, PushIsLatest DEF SetOffset, OthersKeep, reconVars
  <2>2. QED
    BY <2>1 DEF CopyRow
<1>8. ASSUME NEW c \in Conns, StampTime(c) PROVE CopyRow'
  <2>1. reconPc = "resub" => reconInfo.sub \in Subs
    BY TypeGroups DEF InfoShape, SubInfos
  <2>2. topicSubInfos'["topic"] = topicSubInfos["topic"] \/ topicSubInfos'["topic"].sub = 0
    BY <1>8, SpecialInfos, TypeGroups DEF StampTime, MapTypes, Keys
  <2>3. QED
    BY <1>8, <1>0, <2>1, <2>2 DEF StampTime, OthersKeep, reconVars, NextKnown, CopyRow, Subs
<1>9. ASSUME SubscribeInserts PROVE CopyRow'
  <2>1. reconPc = "resub" => reconInfo.sub # appInfo.sub
    BY <1>9, AppIsNew DEF SubscribeInserts, IsNew
  <2>2. topicSubInfos'["topic"] = appInfo
    BY <1>9, TypeGroups DEF SubscribeInserts, InsertMeta, MapTypes, Keys
  <2>3. QED
    BY <1>9, <2>1, <2>2 DEF SubscribeInserts, reconVars, CopyRow
<1>10. ASSUME SubscribeFails PROVE CopyRow'
  <2>1. topicSubInfos'["topic"] = topicSubInfos["topic"]
    BY <1>10, TypeGroups DEF SubscribeFails, InsertMeta, MapTypes, Keys
  <2>2. QED
    BY <1>10, <1>0, <2>1 DEF SubscribeFails, reconVars, NextKnown, CopyRow
<1>11. ASSUME NEW h \in Handlers, AddHandleThread(h) PROVE CopyRow'
  <2>1. /\ topicSubInfos'["topic"].sub = topicSubInfos["topic"].sub
        /\ topicSubInfos'["topic"].offset = topicSubInfos["topic"].offset
    BY <1>11, RecordKeeps, TypeGroups DEF AddHandleThread, Keys
  <2>2. QED
    BY <1>11, <1>0, <2>1 DEF AddHandleThread, reconVars, NextKnown, CopyRow
<1>12. ASSUME EraseInfo PROVE CopyRow'
  <2>1. reconPc = "resub" => reconInfo.sub \in Subs
    BY TypeGroups DEF InfoShape, SubInfos
  <2>2. topicSubInfos'["topic"] = topicSubInfos["topic"] \/ topicSubInfos'["topic"].sub = -1
    BY <1>12, SpecialInfos, TypeGroups DEF EraseInfo, MapTypes, Keys
  <2>3. QED
    BY <1>12, <1>0, <2>1, <2>2 DEF EraseInfo, reconVars, NextKnown, CopyRow, Subs
<1>13. ASSUME VisitTopic PROVE CopyRow'
  BY <1>13, <1>0 DEF VisitTopic, ReconGoes, mapVars, appVars, connVars,
                     parseVars, histVars, NextKnown, CopyRow
<1>14. ASSUME Resubscribes PROVE CopyRow'
  BY <1>14, <1>0 DEF Resubscribes, Connect, ReconIdle, mapVars, appVars,
                     histVars, NextKnown, CopyRow
<1>15. ASSUME ResubscribeFails PROVE CopyRow'
  BY <1>15, <1>0 DEF ResubscribeFails, ReconIdle, mapVars, appVars, connVars,
                     parseVars, histVars, NextKnown, CopyRow
<1>16. ASSUME VisitInitResub PROVE CopyRow'
  BY <1>16, <1>0 DEF VisitInitResub, ReconGoes, mapVars, appVars, connVars,
                     parseVars, histVars, NextKnown, CopyRow
<1>17. ASSUME InitConnects PROVE CopyRow'
  BY <1>17, <1>0 DEF InitConnects, Connect, ReconGoes, mapVars, appVars,
                     histVars, NextKnown, CopyRow
<1>18. ASSUME InitInserts PROVE CopyRow'
  BY <1>18, <1>0 DEF InitInserts, InsertMeta, ReconIdle, appVars, connVars,
                     parseVars, NextKnown, CopyRow
<1>19. ASSUME InitFailsAgain PROVE CopyRow'
  BY <1>19, <1>0 DEF InitFailsAgain, ReconIdle, mapVars, appVars, connVars,
                     parseVars, histVars, NextKnown, CopyRow
<1>20. CASE UNCHANGED vars
  BY <1>1, <1>20 DEF vars, mapVars, appVars, reconVars, connVars, parseVars,
                     histVars
<1>21. QED
  BY <1>1, <1>2, <1>3, <1>4, <1>5, <1>6, <1>7, <1>8, <1>9, <1>10, <1>11,
     <1>12, <1>13, <1>14, <1>15, <1>16, <1>17, <1>18, <1>19, <1>20 DEF Next,
     AppGoesOn, ParseStep, ReconnectStep, HandlerStep

LEMMA ConnRowNext ==
  TypeInv /\ EntryInv /\ PushShape /\ MarkShape /\
  DeliveryShape /\ [Next]_vars /\ PushShape' /\ ~outdated'
    => ConnRow'
<1> SUFFICES ASSUME TypeInv, EntryInv, PushShape, MarkShape, DeliveryShape, [Next]_vars,
                    PushShape', ~outdated'
             PROVE  ConnRow'
  OBVIOUS
<1>0. ~outdated /\ NextKnown /\ RowsFollow
  BY OutdatedGrows DEF DeliveryShape
<1>1. ASSUME UNCHANGED <<topicSubInfos, made, connSub, pc, hand, delivered>>
     PROVE  ConnRow'
  BY <1>0, <1>1 DEF ConnRow, Follows, Last, NextKnown
<1>2. ASSUME NEW c \in Conns, CutConnection(c)
      PROVE  UNCHANGED <<topicSubInfos, made, connSub, pc, hand, delivered>>
  BY <1>2 DEF CutConnection, mapVars, appVars, reconVars, parseVars, histVars
<1>3. ASSUME NEW s \in Subs, NEW h \in Handlers, LoopTest(s, h) \/
             PopMessage(s, h) \/ SayBye(s, h)
      PROVE  UNCHANGED <<topicSubInfos, made, connSub, pc, hand, delivered>>
  BY <1>3 DEF LoopTest, HandlerGoes, HandlerKeeps, mapVars, appVars,
              reconVars, connVars, parseVars, histVars, PopMessage, SayBye
<1>4. ASSUME Subscribe \/ Unsubscribe \/ EraseLive \/ EraseCount \/
             CloseSocket \/ PushNull
      PROVE  UNCHANGED <<topicSubInfos, made, connSub, pc, hand, delivered>>
  BY <1>4 DEF Subscribe, AppGoes, mapVars, reconVars, connVars, parseVars,
              histVars, Unsubscribe, EraseLive, EraseCount, CloseSocket,
              PushNull
<1>5. ASSUME JoinHandlers \/ VisitTopic \/ ResubscribeFails \/ VisitInitResub
             \/ InitFailsAgain
      PROVE  UNCHANGED <<topicSubInfos, made, connSub, pc, hand, delivered>>
  BY <1>5 DEF JoinHandlers, AppGoes, mapVars, reconVars, connVars, parseVars,
              histVars, VisitTopic, ReconGoes, appVars, ResubscribeFails,
              ReconIdle, VisitInitResub, InitFailsAgain, MarkAfterFailure
<1>6. ASSUME NEW c \in Conns, ReadSchema(c) PROVE ConnRow'
  <2>1. made > 0 => made \in Conns /\ connSub[made] \in Subs
    BY TypeGroups, SubscriptionAssumption DEF ConnTypes, ConnShape, Conns
  <2>2. UNCHANGED <<made, connSub, topicSubInfos, delivered>>
    BY <1>6 DEF ReadSchema, OthersKeep, mapVars, histVars
  <2>3. made > 0 /\ pc'[made] \in {"read", "schema", "lock"} =>
          pc[made] \in {"read", "schema", "lock"} /\ hand'[made][1] = hand[made][1]
    BY <1>6, <2>1, TypeGroups DEF ReadSchema, Goto, ConnTypes
  <2>4. QED
    BY <1>0, <2>1, <2>2, <2>3 DEF NextKnown, ConnRow, Follows, Last
<1>7. ASSUME NEW c \in Conns, SchemaParsed(c) PROVE ConnRow'
  <2>1. made > 0 => made \in Conns /\ connSub[made] \in Subs
    BY TypeGroups, SubscriptionAssumption DEF ConnTypes, ConnShape, Conns
  <2>2. UNCHANGED <<made, connSub, topicSubInfos, delivered>>
    BY <1>7 DEF SchemaParsed, OthersKeep, mapVars, histVars
  <2>3. made > 0 /\ pc'[made] \in {"read", "schema", "lock"} =>
          pc[made] \in {"read", "schema", "lock"} /\ hand'[made][1] = hand[made][1]
    BY <1>7, <2>1, TypeGroups DEF SchemaParsed, Goto, ConnTypes
  <2>4. QED
    BY <1>0, <2>1, <2>2, <2>3 DEF NextKnown, ConnRow, Follows, Last
<1>8. ASSUME NEW c \in Conns, ReadRows(c) PROVE ConnRow'
  <2>1. made > 0 => made \in Conns /\ connSub[made] \in Subs
    BY TypeGroups, SubscriptionAssumption DEF ConnTypes, ConnShape, Conns
  <2>2. UNCHANGED <<made, connSub, topicSubInfos, delivered>>
    BY <1>8 DEF ReadRows, OthersKeep, mapVars, histVars
  <2>3. made > 0 /\ pc'[made] \in {"read", "schema", "lock"} =>
          pc[made] \in {"read", "schema", "lock"} /\ hand'[made][1] = hand[made][1]
    BY <1>8, <2>1, TypeGroups DEF ReadRows, Goto, ConnTypes
  <2>4. QED
    BY <1>0, <2>1, <2>2, <2>3 DEF NextKnown, ConnRow, Follows, Last
<1>9. ASSUME NEW c \in Conns, FindInfo(c) PROVE ConnRow'
  <2>1. made > 0 => made \in Conns /\ connSub[made] \in Subs
    BY TypeGroups, SubscriptionAssumption DEF ConnTypes, ConnShape, Conns
  <2>2. UNCHANGED <<made, connSub, topicSubInfos, delivered>>
    BY <1>9 DEF FindInfo, OthersKeep, mapVars
  <2>3. CASE ~(topicSubInfos["topic"].sub > 0)
    BY <2>1, <2>2, <2>3 DEF ConnRow, Subs
  <2>4. CASE topicSubInfos["topic"].sub > 0
    <3>1. hand' = hand /\ pc' = [pc EXCEPT ![c] = "push"]
      BY <1>9, <2>4 DEF FindInfo, Goto
    <3>2. made > 0 /\ pc'[made] \in {"read", "schema", "lock"} => pc[made] \in {"read", "schema", "lock"}
      BY <2>1, <3>1, TypeGroups DEF ConnTypes
    <3>3. QED
      BY <1>0, <2>1, <2>2, <3>1, <3>2 DEF NextKnown, ConnRow, Follows, Last
  <2>5. QED
    BY <2>3, <2>4
<1>10. ASSUME NEW c \in Conns, PushRow(c) PROVE ConnRow'
  <2>1. c = made /\ made' = made /\ pc'[c] \in {"push", "offset"}
    BY <1>10, <1>0, PushIsLatest, TypeGroups DEF PushRow, Goto, OthersKeep, ConnTypes
  <2>2. QED
    BY <2>1 DEF ConnRow
<1>11. ASSUME NEW c \in Conns, SetOffset(c) PROVE ConnRow'
  <2>1. c = made /\ connSub[c] = target[c] /\ target[c] \in Subs
    BY <1>11, <1>0, PushIsLatest DEF SetOffset
  <2>2. hand[c][1] = hand[c][2] + 1
    BY <1>11, TypeGroups DEF SetOffset, ConnShape
  <2>3. hand[c][2] = Last(target[c])
    BY <1>11, <1>0 DEF SetOffset, NextKnown, PushedRow
  <2>4. UNCHANGED <<made, connSub, hand, delivered>>
    BY <1>11 DEF SetOffset, OthersKeep, histVars
  <2>5. QED
    BY <2>1, <2>2, <2>3, <2>4 DEF ConnRow, Follows, Last
<1>12. ASSUME NEW c \in Conns, ReadFails(c) PROVE ConnRow'
  <2>1. made > 0 => made \in Conns /\ connSub[made] \in Subs
    BY TypeGroups, SubscriptionAssumption DEF ConnTypes, ConnShape, Conns
  <2>2. UNCHANGED <<made, connSub, topicSubInfos, delivered>>
    BY <1>12 DEF ReadFails, OthersKeep, mapVars, histVars
  <2>3. made > 0 /\ pc'[made] \in {"read", "schema", "lock"} =>
          pc[made] \in {"read", "schema", "lock"} /\ hand'[made][1] = hand[made][1]
    BY <1>12, <2>1, TypeGroups DEF ReadFails, Goto, ConnTypes
  <2>4. QED
    BY <1>0, <2>1, <2>2, <2>3 DEF NextKnown, ConnRow, Follows, Last
<1>13. ASSUME NEW c \in Conns, FindLive(c) PROVE ConnRow'
  <2>1. made > 0 => made \in Conns /\ connSub[made] \in Subs
    BY TypeGroups, SubscriptionAssumption DEF ConnTypes, ConnShape, Conns
  <2>2. UNCHANGED <<made, connSub, topicSubInfos, delivered>>
    BY <1>13 DEF FindLive, OthersKeep, mapVars, histVars
  <2>3. made > 0 /\ pc'[made] \in {"read", "schema", "lock"} =>
          pc[made] \in {"read", "schema", "lock"} /\ hand'[made][1] = hand[made][1]
    BY <1>13, <2>1, TypeGroups DEF FindLive, Goto, ConnTypes
  <2>4. QED
    BY <1>0, <2>1, <2>2, <2>3 DEF NextKnown, ConnRow, Follows, Last
<1>14. ASSUME NEW c \in Conns, StampTime(c) PROVE ConnRow'
  <2>1. made > 0 => made \in Conns /\ connSub[made] \in Subs
    BY TypeGroups, SubscriptionAssumption DEF ConnTypes, ConnShape, Conns
  <2>2. topicSubInfos'["topic"] = topicSubInfos["topic"] \/ topicSubInfos'["topic"].sub = 0
    BY <1>14, SpecialInfos, TypeGroups DEF StampTime, MapTypes, Keys
  <2>3. UNCHANGED <<made, connSub, hand, delivered>>
    BY <1>14 DEF StampTime, OthersKeep, histVars
  <2>4. made > 0 /\ pc'[made] \in {"read", "schema", "lock"} => pc[made] \in {"read", "schema", "lock"}
    BY <1>14, <2>1, TypeGroups DEF StampTime, Goto, ConnTypes
  <2>5. QED
    BY <1>0, <2>1, <2>2, <2>3, <2>4 DEF NextKnown, ConnRow, Follows, Last, Subs
<1>15. ASSUME NEW c \in Conns, MarkTopic(c) PROVE ConnRow'
  <2>1. made > 0 => made \in Conns /\ connSub[made] \in Subs
    BY TypeGroups, SubscriptionAssumption DEF ConnTypes, ConnShape, Conns
  <2>2. UNCHANGED <<made, connSub, topicSubInfos, delivered>>
    BY <1>15 DEF MarkTopic, OthersKeep, mapVars, histVars
  <2>3. made > 0 /\ pc'[made] \in {"read", "schema", "lock"} =>
          pc[made] \in {"read", "schema", "lock"} /\ hand'[made][1] = hand[made][1]
    BY <1>15, <2>1, TypeGroups DEF MarkTopic, Goto, ConnTypes
  <2>4. QED
    BY <1>0, <2>1, <2>2, <2>3 DEF NextKnown, ConnRow, Follows, Last
<1>16. ASSUME SubscribeConnects PROVE ConnRow'
  <2>1. /\ appInfo \in SubInfos /\ delivered[appInfo.sub] = <<>>
    BY <1>16, AppIsNew DEF SubscribeConnects, IsNew, Trying
  <2>2. /\ made' \in Conns /\ connSub' = [connSub EXCEPT ![made'] = appInfo.sub]
    BY <1>16, <2>1, ConnectSteps, TypeGroups DEF SubscribeConnects
  <2>3. connSub'[made'] = appInfo.sub /\ delivered' = delivered
    BY <1>16, <2>2, TypeGroups DEF SubscribeConnects, histVars, ConnTypes
  <2>4. QED
    BY <2>1, <2>3 DEF ConnRow, Follows
<1>17. ASSUME SubscribeInserts PROVE ConnRow'
  <2>1. delivered[appInfo.sub] = <<>>
    BY <1>17, AppIsNew DEF SubscribeInserts, IsNew
  <2>2. topicSubInfos'["topic"] = appInfo /\ UNCHANGED <<made, connSub, delivered>>
    BY <1>17, TypeGroups DEF SubscribeInserts, InsertMeta, MapTypes, Keys, connVars, histVars
  <2>3. QED
    BY <2>1, <2>2 DEF ConnRow, Follows
<1>18. ASSUME SubscribeFails PROVE ConnRow'
  <2>1. topicSubInfos'["topic"] = topicSubInfos["topic"] /\ UNCHANGED <<made, connSub, pc, hand, delivered>>
    BY <1>18, TypeGroups DEF SubscribeFails, InsertMeta, MapTypes, Keys, connVars, parseVars, histVars
  <2>2. QED
    BY <1>0, <2>1 DEF NextKnown, ConnRow, Follows, Last
<1>19. ASSUME NEW h \in Handlers, AddHandleThread(h) PROVE ConnRow'
  <2>1. topicSubInfos'["topic"].sub = topicSubInfos["topic"].sub
    BY <1>19, RecordKeeps, TypeGroups DEF AddHandleThread, Keys
  <2>2. UNCHANGED <<made, connSub, pc, hand, delivered>>
    BY <1>19 DEF AddHandleThread, connVars, parseVars, histVars
  <2>3. QED
    BY <1>0, <2>1, <2>2 DEF NextKnown, ConnRow, Follows, Last
<1>20. ASSUME EraseInfo PROVE ConnRow'
  <2>1. made > 0 => made \in Conns /\ connSub[made] \in Subs
    BY TypeGroups, SubscriptionAssumption DEF ConnTypes, ConnShape, Conns
  <2>2. topicSubInfos'["topic"] = topicSubInfos["topic"] \/ topicSubInfos'["topic"].sub = -1
    BY <1>20, SpecialInfos, TypeGroups DEF EraseInfo, MapTypes, Keys
  <2>3. UNCHANGED <<made, connSub, pc, hand, delivered>>
    BY <1>20 DEF EraseInfo, connVars, parseVars, histVars
  <2>4. QED
    BY <1>0, <2>1, <2>2, <2>3 DEF NextKnown, ConnRow, Follows, Last, Subs
<1>21. ASSUME Resubscribes PROVE ConnRow'
  <2>1. reconPc = "resub" /\ reconInfo \in SubInfos /\ UNCHANGED <<topicSubInfos, delivered>>
    BY <1>21, TypeGroups DEF Resubscribes, InfoShape, mapVars, histVars
  <2>2. PICK row \in Nat : /\ hand' = [hand EXCEPT ![made'] = <<row, row - 1>>]
                           /\ reconInfo.offset >= 0 => row = reconInfo.offset
    BY <1>21, <2>1, ConnectSteps, TypeGroups DEF Resubscribes
  <2>3. /\ made' \in Conns /\ connSub' = [connSub EXCEPT ![made'] = reconInfo.sub]
    BY <1>21, <2>1, ConnectSteps, TypeGroups DEF Resubscribes
  <2>4. connSub'[made'] = reconInfo.sub /\ hand'[made'][1] = row /\ reconInfo.sub \in Subs
    <3>1. connSub'[made'] = reconInfo.sub
      BY <2>3, TypeGroups DEF ConnTypes
    <3>2. hand'[made'] = <<row, row - 1>>
      BY <2>2, <2>3, TypeGroups DEF ConnTypes
    <3>3. QED
      BY <2>1, <3>1, <3>2 DEF SubInfos
  <2>5. SUFFICES ASSUME reconInfo.sub = topicSubInfos["topic"].sub, delivered[reconInfo.sub] # <<>>
                 PROVE  row = Last(reconInfo.sub) + 1
    BY <2>1, <2>4 DEF ConnRow, Follows, Last
  <2>6. \A c \in Conns : pc[c] \notin {"push", "offset"}
    BY <1>21, NoPush DEF Resubscribes
  <2>7. reconInfo.offset = Last(reconInfo.sub) + 1
    BY <1>0, <2>1, <2>4, <2>5, <2>6 DEF NextKnown, EntryRow, CopyRow, Follows
  <2>8. delivered[reconInfo.sub] \in Seq(Nat)
    BY <2>4, TypeGroups DEF QueueTypes
  <2>9. Last(reconInfo.sub) \in Nat
    BY <2>5, <2>8 DEF Last
  <2>10. Last(reconInfo.sub) + 1 >= 0
    BY <2>9
  <2>11. QED
    BY <2>2, <2>7, <2>10
<1>22. ASSUME InitConnects PROVE ConnRow'
  <2>1. /\ reconInfo \in SubInfos /\ delivered[reconInfo.sub] = <<>>
    BY <1>22, ReconIsNew DEF InitConnects, IsNew, Trying
  <2>2. /\ made' \in Conns /\ connSub' = [connSub EXCEPT ![made'] = reconInfo.sub]
    BY <1>22, <2>1, ConnectSteps, TypeGroups DEF InitConnects
  <2>3. connSub'[made'] = reconInfo.sub /\ delivered' = delivered
    BY <1>22, <2>2, TypeGroups DEF InitConnects, histVars, ConnTypes
  <2>4. QED
    BY <2>1, <2>3 DEF ConnRow, Follows
<1>23. ASSUME InitInserts PROVE ConnRow'
  <2>1. delivered[reconInfo.sub] = <<>>
    BY <1>23, ReconIsNew DEF InitInserts, IsNew, Trying
  <2>2. topicSubInfos'["topic"] = reconInfo /\ UNCHANGED <<made, connSub, delivered>>
    BY <1>23, TypeGroups DEF InitInserts, InsertMeta, MapTypes, Keys, connVars
  <2>3. QED
    BY <2>1, <2>2 DEF ConnRow, Follows
<1>24. CASE UNCHANGED vars
  BY <1>1, <1>24 DEF vars, mapVars, appVars, reconVars, connVars, parseVars,
                     histVars
<1>25. QED
  BY <1>1, <1>2, <1>3, <1>4, <1>5, <1>6, <1>7, <1>8, <1>9, <1>10, <1>11,
     <1>12, <1>13, <1>14, <1>15, <1>16, <1>17, <1>18, <1>19, <1>20, <1>21,
     <1>22, <1>23, <1>24 DEF Next, AppGoesOn, ParseStep, ReconnectStep,
     HandlerStep

LEMMA PushedRowNext ==
  TypeInv /\ EntryInv /\ PushShape /\ MarkShape /\
  DeliveryShape /\ [Next]_vars /\ PushShape' /\ ~outdated'
    => PushedRow'
<1> SUFFICES ASSUME TypeInv, EntryInv, PushShape, MarkShape, DeliveryShape, [Next]_vars,
                    PushShape', ~outdated'
             PROVE  PushedRow'
  OBVIOUS
<1>0. ~outdated /\ NextKnown /\ RowsFollow
  BY OutdatedGrows DEF DeliveryShape
<1>1. ASSUME UNCHANGED <<pc, hand, target, delivered>> PROVE PushedRow'
  BY <1>0, <1>1 DEF PushedRow, Follows, Last, NextKnown
<1>2. ASSUME NEW c \in Conns, CutConnection(c)
      PROVE  UNCHANGED <<pc, hand, target, delivered>>
  BY <1>2 DEF CutConnection, mapVars, appVars, reconVars, parseVars, histVars
<1>3. ASSUME NEW h \in Handlers, AddHandleThread(h)
      PROVE  UNCHANGED <<pc, hand, target, delivered>>
  BY <1>3 DEF AddHandleThread, Record, AppGoes, reconVars, connVars,
              parseVars, histVars
<1>4. ASSUME NEW s \in Subs, NEW h \in Handlers, LoopTest(s, h) \/
             PopMessage(s, h) \/ SayBye(s, h)
      PROVE  UNCHANGED <<pc, hand, target, delivered>>
  BY <1>4 DEF LoopTest, HandlerGoes, HandlerKeeps, mapVars, appVars,
              reconVars, connVars, parseVars, histVars, PopMessage, SayBye
<1>5. ASSUME Subscribe \/ Unsubscribe \/ SubscribeInserts \/ SubscribeFails \/
             EraseInfo \/ EraseLive
      PROVE  UNCHANGED <<pc, hand, target, delivered>>
  BY <1>5 DEF Subscribe, AppGoes, mapVars, reconVars, connVars, parseVars,
              histVars, Unsubscribe, SubscribeInserts, InsertMeta,
              SubscribeFails, EraseInfo, EraseLive
<1>6. ASSUME EraseCount \/ CloseSocket \/ PushNull \/ JoinHandlers \/
             VisitTopic \/ ResubscribeFails
      PROVE  UNCHANGED <<pc, hand, target, delivered>>
  BY <1>6 DEF EraseCount, AppGoes, reconVars, connVars, parseVars, histVars,
              CloseSocket, mapVars, PushNull, JoinHandlers, VisitTopic,
              ReconGoes, appVars, ResubscribeFails, ReconIdle,
              MarkAfterFailure
<1>7. ASSUME VisitInitResub \/ InitInserts \/ InitFailsAgain
      PROVE  UNCHANGED <<pc, hand, target, delivered>>
  BY <1>7 DEF VisitInitResub, ReconGoes, mapVars, appVars, connVars,
              parseVars, histVars, InitInserts, InsertMeta, ReconIdle,
              InitFailsAgain
<1>8. ASSUME NEW c \in Conns, ReadSchema(c) PROVE PushedRow'
  <2>1. \A d \in Conns : pc'[d] \in {"push", "offset"} =>
          pc'[d] = pc[d] /\ hand'[d] = hand[d] /\ target'[d] = target[d]
    BY <1>8, TypeGroups DEF ReadSchema, Goto, ConnTypes
  <2>2. delivered' = delivered
    BY <1>8 DEF ReadSchema, histVars
  <2>3. QED
    BY <1>0, <2>1, <2>2 DEF NextKnown, PushedRow, Follows, Last
<1>9. ASSUME NEW c \in Conns, SchemaParsed(c) PROVE PushedRow'
  <2>1. \A d \in Conns : pc'[d] \in {"push", "offset"} =>
          pc'[d] = pc[d] /\ hand'[d] = hand[d] /\ target'[d] = target[d]
    BY <1>9, TypeGroups DEF SchemaParsed, Goto, ConnTypes
  <2>2. delivered' = delivered
    BY <1>9 DEF SchemaParsed, histVars
  <2>3. QED
    BY <1>0, <2>1, <2>2 DEF NextKnown, PushedRow, Follows, Last
<1>10. ASSUME NEW c \in Conns, ReadRows(c) PROVE PushedRow'
  <2>1. \A d \in Conns : pc'[d] \in {"push", "offset"} =>
          pc'[d] = pc[d] /\ hand'[d] = hand[d] /\ target'[d] = target[d]
    BY <1>10, TypeGroups DEF ReadRows, Goto, ConnTypes
  <2>2. delivered' = delivered
    BY <1>10 DEF ReadRows, histVars
  <2>3. QED
    BY <1>0, <2>1, <2>2 DEF NextKnown, PushedRow, Follows, Last
<1>11. ASSUME NEW c \in Conns, FindInfo(c) PROVE PushedRow'
  <2>1. \A d \in Conns : pc[d] \notin {"push", "offset"}
    BY <1>11, NoPush DEF FindInfo
  <2>2. \A d \in Conns : pc'[d] \in {"push", "offset"} => d = c /\ pc'[d] = "push"
    BY <1>11, <2>1, TypeGroups DEF FindInfo, Goto, ConnTypes
  <2>3. SUFFICES ASSUME pc'[c] = "push" PROVE Follows(hand[c][1], target[c])'
    BY <2>2 DEF PushedRow
  <2>4. pc[c] = "lock" /\ UNCHANGED <<hand, made, connSub, topicSubInfos, delivered>>
    BY <1>11, <2>3, TypeGroups DEF FindInfo, Goto, OthersKeep, mapVars, ConnTypes
  <2>5. c = made /\ connSub[c] = target'[c]
    BY <2>3, <2>4 DEF PushShape
  <2>6. target'[c] = topicSubInfos["topic"].sub
    BY <1>11, <2>3, TypeGroups DEF FindInfo, Goto, ConnTypes
  <2>7. made > 0
    BY <2>5, SubscriptionAssumption DEF Conns
  <2>8. Follows(hand[c][1], connSub[c])
    BY <1>0, <2>4, <2>5, <2>6, <2>7 DEF NextKnown, ConnRow
  <2>9. QED
    BY <2>4, <2>5, <2>8 DEF Follows, Last
<1>12. ASSUME NEW c \in Conns, PushRow(c) PROVE PushedRow'
  <2>1. target[c] \in Subs /\ \A d \in Conns : d # c => pc[d] \notin {"push", "offset"}
    BY <1>12, <1>0, PushIsLatest DEF PushRow
  <2>2. \A d \in Conns : d # c => pc'[d] \notin {"push", "offset"}
    BY <1>12, <2>1, TypeGroups DEF PushRow, Goto, ConnTypes
  <2>3. hand[c][1] \in Nat
    BY TypeGroups DEF ConnTypes
  <2>4. QED
    BY <1>12, <2>1, <2>2, <2>3, PushDelivers DEF PushedRow, Follows, Last
<1>13. ASSUME NEW c \in Conns, SetOffset(c) PROVE PushedRow'
  <2>1. \A d \in Conns : pc'[d] \in {"push", "offset"} =>
          pc'[d] = pc[d] /\ hand'[d] = hand[d] /\ target'[d] = target[d]
    BY <1>13, TypeGroups DEF SetOffset, Goto, ConnTypes
  <2>2. delivered' = delivered
    BY <1>13 DEF SetOffset, histVars
  <2>3. QED
    BY <1>0, <2>1, <2>2 DEF NextKnown, PushedRow, Follows, Last
<1>14. ASSUME NEW c \in Conns, ReadFails(c) PROVE PushedRow'
  <2>1. \A d \in Conns : pc'[d] \in {"push", "offset"} =>
          pc'[d] = pc[d] /\ hand'[d] = hand[d] /\ target'[d] = target[d]
    BY <1>14, TypeGroups DEF ReadFails, Goto, ConnTypes
  <2>2. delivered' = delivered
    BY <1>14 DEF ReadFails, histVars
  <2>3. QED
    BY <1>0, <2>1, <2>2 DEF NextKnown, PushedRow, Follows, Last
<1>15. ASSUME NEW c \in Conns, FindLive(c) PROVE PushedRow'
  <2>1. \A d \in Conns : pc'[d] \in {"push", "offset"} =>
          pc'[d] = pc[d] /\ hand'[d] = hand[d] /\ target'[d] = target[d]
    BY <1>15, TypeGroups DEF FindLive, Goto, ConnTypes
  <2>2. delivered' = delivered
    BY <1>15 DEF FindLive, histVars
  <2>3. QED
    BY <1>0, <2>1, <2>2 DEF NextKnown, PushedRow, Follows, Last
<1>16. ASSUME NEW c \in Conns, StampTime(c) PROVE PushedRow'
  <2>1. \A d \in Conns : pc'[d] \in {"push", "offset"} =>
          pc'[d] = pc[d] /\ hand'[d] = hand[d] /\ target'[d] = target[d]
    BY <1>16, TypeGroups DEF StampTime, Goto, ConnTypes
  <2>2. delivered' = delivered
    BY <1>16 DEF StampTime, histVars
  <2>3. QED
    BY <1>0, <2>1, <2>2 DEF NextKnown, PushedRow, Follows, Last
<1>17. ASSUME NEW c \in Conns, MarkTopic(c) PROVE PushedRow'
  <2>1. \A d \in Conns : pc'[d] \in {"push", "offset"} =>
          pc'[d] = pc[d] /\ hand'[d] = hand[d] /\ target'[d] = target[d]
    BY <1>17, TypeGroups DEF MarkTopic, Goto, ConnTypes
  <2>2. delivered' = delivered
    BY <1>17 DEF MarkTopic, histVars
  <2>3. QED
    BY <1>0, <2>1, <2>2 DEF NextKnown, PushedRow, Follows, Last
<1>18. ASSUME SubscribeConnects PROVE PushedRow'
  <2>1. \A c \in Conns : pc[c] \notin {"push", "offset"}
    BY <1>18, NoPush DEF SubscribeConnects
  <2>2. \A c \in Conns : pc'[c] \notin {"push", "offset"}
    BY <1>18, <2>1, ConnectSteps, TypeGroups DEF SubscribeConnects, ConnTypes, InfoShape
  <2>3. QED
    BY <2>2 DEF PushedRow
<1>19. ASSUME Resubscribes PROVE PushedRow'
  <2>1. \A c \in Conns : pc[c] \notin {"push", "offset"}
    BY <1>19, NoPush DEF Resubscribes
  <2>2. \A c \in Conns : pc'[c] \notin {"push", "offset"}
    BY <1>19, <2>1, ConnectSteps, TypeGroups DEF Resubscribes, ConnTypes, InfoShape
  <2>3. QED
    BY <2>2 DEF PushedRow
<1>20. ASSUME InitConnects PROVE PushedRow'
  <2>1. \A c \in Conns : pc[c] \notin {"push", "offset"}
    BY <1>20, NoPush DEF InitConnects
  <2>2. \A c \in Conns : pc'[c] \notin {"push", "offset"}
    BY <1>20, <2>1, ConnectSteps, TypeGroups DEF InitConnects, ConnTypes, InfoShape
  <2>3. QED
    BY <2>2 DEF PushedRow
<1>21. CASE UNCHANGED vars
  BY <1>1, <1>21 DEF vars, mapVars, appVars, reconVars, connVars, parseVars,
                     histVars
<1>22. QED
  BY <1>1, <1>2, <1>3, <1>4, <1>5, <1>6, <1>7, <1>8, <1>9, <1>10, <1>11,
     <1>12, <1>13, <1>14, <1>15, <1>16, <1>17, <1>18, <1>19, <1>20, <1>21 DEF
     Next, AppGoesOn, ParseStep, ReconnectStep, HandlerStep

LEMMA RowsFollowNext ==
  TypeInv /\ EntryInv /\ PushShape /\ MarkShape /\
  DeliveryShape /\ [Next]_vars /\ PushShape' /\ ~outdated'
    => RowsFollow'
<1> SUFFICES ASSUME TypeInv, EntryInv, PushShape, MarkShape, DeliveryShape, [Next]_vars,
                    PushShape', ~outdated'
             PROVE  RowsFollow'
  OBVIOUS
<1>0. ~outdated /\ NextKnown /\ RowsFollow
  BY OutdatedGrows DEF DeliveryShape
<1>1. ASSUME UNCHANGED <<delivered>> PROVE RowsFollow'
  BY <1>0, <1>1 DEF RowsFollow, NextKnown
<1>2. ASSUME NEW c \in Conns, CutConnection(c) \/ ReadSchema(c) \/
             SchemaParsed(c) \/ ReadRows(c) \/ FindInfo(c) \/ SetOffset(c)
      PROVE  UNCHANGED <<delivered>>
  BY <1>2 DEF CutConnection, mapVars, appVars, reconVars, parseVars, histVars,
              ReadSchema, Goto, OthersKeep, SchemaParsed, ReadRows, FindInfo,
              SetOffset
<1>3. ASSUME NEW c \in Conns, ReadFails(c) \/ FindLive(c) \/ StampTime(c) \/
             MarkTopic(c)
      PROVE  UNCHANGED <<delivered>>
  BY <1>3 DEF ReadFails, Goto, mapVars, OthersKeep, appVars, reconVars,
              FindLive, StampTime, histVars, MarkTopic
<1>4. ASSUME NEW h \in Handlers, AddHandleThread(h)
      PROVE  UNCHANGED <<delivered>>
  BY <1>4 DEF AddHandleThread, Record, AppGoes, reconVars, connVars,
              parseVars, histVars
<1>5. ASSUME NEW s \in Subs, NEW h \in Handlers, LoopTest(s, h) \/
             PopMessage(s, h) \/ SayBye(s, h)
      PROVE  UNCHANGED <<delivered>>
  BY <1>5 DEF LoopTest, HandlerGoes, HandlerKeeps, mapVars, appVars,
              reconVars, connVars, parseVars, histVars, PopMessage, SayBye
<1>6. ASSUME Subscribe \/ Unsubscribe \/ SubscribeConnects \/ SubscribeInserts
             \/ SubscribeFails \/ EraseInfo
      PROVE  UNCHANGED <<delivered>>
  BY <1>6 DEF Subscribe, AppGoes, mapVars, reconVars, connVars, parseVars,
              histVars, Unsubscribe, SubscribeConnects, Connect,
              SubscribeInserts, InsertMeta, SubscribeFails, EraseInfo
<1>7. ASSUME EraseLive \/ EraseCount \/ CloseSocket \/ PushNull \/
             JoinHandlers \/ VisitTopic
      PROVE  UNCHANGED <<delivered>>
  BY <1>7 DEF EraseLive, AppGoes, reconVars, connVars, parseVars, histVars,
              EraseCount, CloseSocket, mapVars, PushNull, JoinHandlers,
              VisitTopic, ReconGoes, appVars
<1>8. ASSUME Resubscribes \/ ResubscribeFails \/ VisitInitResub \/
             InitConnects \/ InitInserts \/ InitFailsAgain
      PROVE  UNCHANGED <<delivered>>
  BY <1>8 DEF Resubscribes, Connect, ReconIdle, mapVars, appVars, histVars,
              ResubscribeFails, connVars, parseVars, VisitInitResub,
              ReconGoes, InitConnects, InitInserts, InsertMeta,
              InitFailsAgain, MarkAfterFailure
<1>9. ASSUME NEW c \in Conns, PushRow(c) PROVE RowsFollow'
  <2>1. target[c] \in Subs
    BY <1>9, <1>0, PushIsLatest DEF PushRow
  <2> DEFINE s == target[c]
             n == Len(delivered[s])
  <2>2. /\ delivered'[s][Len(delivered'[s])] = hand[c][1] /\ Len(delivered'[s]) = n + 1 /\ n \in Nat
        /\ \A i \in 1 .. n : delivered'[s][i] = delivered[s][i]
        /\ n > 0 => delivered[s] # <<>>
        /\ \A r \in Subs : r # s => delivered'[r] = delivered[r]
    BY <1>9, <2>1, PushDelivers
  <2>3. n > 0 => hand[c][1] = delivered[s][n] + 1
    BY <1>9, <1>0, <2>2 DEF PushRow, NextKnown, PushedRow, Follows, Last
  <2>4. \A i \in 1 .. n - 1 : delivered[s][i + 1] = delivered[s][i] + 1
    BY <1>0, <2>1 DEF RowsFollow
  <2>5. s \in Subs
    BY <2>1
  <2> HIDE DEF s
  <2>6. \A i \in 1 .. Len(delivered'[s]) - 1 : delivered'[s][i + 1] = delivered'[s][i] + 1
    <3> SUFFICES ASSUME NEW i \in 1 .. n PROVE delivered'[s][i + 1] = delivered'[s][i] + 1
      BY <2>2
    <3>1. CASE i = n
      BY <2>2, <2>3, <3>1
    <3>2. CASE i < n
      <4>1. i \in 1 .. n - 1 /\ i + 1 \in 1 .. n /\ i \in 1 .. n
        BY <2>2, <3>2
      <4>2. QED
        BY <2>2, <2>4, <4>1
    <3>3. QED
      BY <2>2, <3>1, <3>2
  <2>7. QED
    BY <1>0, <2>2, <2>6 DEF RowsFollow
<1>10. CASE UNCHANGED vars
  BY <1>1, <1>10 DEF vars, mapVars, appVars, reconVars, connVars, parseVars,
                     histVars
<1>11. QED
  BY <1>1, <1>2, <1>3, <1>4, <1>5, <1>6, <1>7, <1>8, <1>9, <1>10 DEF Next,
     AppGoesOn, ParseStep, ReconnectStep, HandlerStep

LEMMA RowInit == Init => RowInv
<1> SUFFICES ASSUME Init PROVE RowInv
  OBVIOUS
<1>1. topicSubInfos["topic"].sub = -1
  BY SpecialInfos DEF Init, Keys
<1>2. PushShape
  BY DEF Init, PushShape
<1>3. MarkShape
  BY DEF Init, MarkShape
<1>4. EntryRow /\ CopyRow /\ ConnRow /\ PushedRow
  BY <1>1 DEF Init, EntryRow, CopyRow, ConnRow, PushedRow, Subs
<1>5. RowsFollow
  <2>1. \A s \in Subs : Len(delivered[s]) = 0
    BY DEF Init
  <2>2. QED
    BY <2>1 DEF RowsFollow
<1>6. QED
  BY <1>2, <1>3, <1>4, <1>5 DEF RowInv, DeliveryShape, NextKnown

LEMMA RowNext == TypeInv /\ EntryInv /\ RowInv /\ [Next]_vars => RowInv'
<1> SUFFICES ASSUME TypeInv, EntryInv, RowInv, [Next]_vars PROVE RowInv'
  OBVIOUS
<1>1. PushShape /\ MarkShape /\ DeliveryShape
  BY DEF RowInv
<1>2. PushShape' /\ MarkShape'
  BY <1>1, PushShapeNext, MarkShapeNext
<1>3. ~outdated' => EntryRow' /\ CopyRow' /\ ConnRow' /\ PushedRow' /\ RowsFollow'
  BY <1>1, <1>2, EntryRowNext, CopyRowNext, ConnRowNext, PushedRowNext, RowsFollowNext
<1>4. QED
  BY <1>2, <1>3 DEF RowInv, DeliveryShape, NextKnown

LEMMA RowInvCorrect == Spec => [](TypeInv /\ EntryInv /\ RowInv)
  BY TypeInit, TypeNext, EntryInit, EntryNext, RowInit, RowNext, PTL DEF Spec

(* Over any connections that break, attempts that fail and subscriptions    *)
(* that end, the rows a subscription gets are consecutive: the offset in    *)
(* the entry, its copy in the reconnect thread and the parse thread of the  *)
(* latest connection agree on the row to go on with.                        *)
THEOREM RowsCorrect == Spec => []ConsecutiveRows
<1>1. RowInv => ConsecutiveRows
  BY DEF RowInv, DeliveryShape, RowsFollow, ConsecutiveRows
<1>2. QED
  BY <1>1, RowInvCorrect, PTL

-----------------------------------------------------------------------------
(* Subscriptions that have received a message. *)

LEMMA CountShapeNext == TypeInv /\ CountShape /\ [Next]_vars => CountShape'
<1> SUFFICES ASSUME TypeInv, CountShape, [Next]_vars PROVE CountShape'
  OBVIOUS
<1>1. ASSUME UNCHANGED <<topics, appPc, appKey, actionCnt, liveSubs>> PROVE CountShape'
  BY <1>1 DEF CountShape, Erasing, Due
<1>2. ASSUME NEW c \in Conns, CutConnection(c) \/ ReadSchema(c) \/
             SchemaParsed(c) \/ ReadRows(c) \/ FindInfo(c) \/ PushRow(c)
      PROVE  UNCHANGED <<topics, appPc, appKey, actionCnt, liveSubs>>
  BY <1>2 DEF CutConnection, mapVars, appVars, reconVars, parseVars, histVars,
              ReadSchema, Goto, OthersKeep, SchemaParsed, ReadRows, FindInfo,
              PushRow
<1>3. ASSUME NEW c \in Conns, SetOffset(c) \/ ReadFails(c) \/ FindLive(c) \/
             StampTime(c) \/ MarkTopic(c)
      PROVE  UNCHANGED <<topics, appPc, appKey, actionCnt, liveSubs>>
  BY <1>3 DEF SetOffset, Goto, histVars, OthersKeep, appVars, reconVars,
              ReadFails, mapVars, FindLive, StampTime, MarkTopic
<1>4. ASSUME NEW s \in Subs, NEW h \in Handlers, LoopTest(s, h) \/
             PopMessage(s, h) \/ SayBye(s, h)
      PROVE  UNCHANGED <<topics, appPc, appKey, actionCnt, liveSubs>>
  BY <1>4 DEF LoopTest, HandlerGoes, HandlerKeeps, mapVars, appVars,
              reconVars, connVars, parseVars, histVars, PopMessage, SayBye
<1>5. ASSUME VisitTopic \/ Resubscribes \/ ResubscribeFails \/ VisitInitResub
             \/ InitConnects \/ InitFailsAgain
      PROVE  UNCHANGED <<topics, appPc, appKey, actionCnt, liveSubs>>
  BY <1>5 DEF VisitTopic, ReconGoes, mapVars, appVars, connVars, parseVars,
              histVars, Resubscribes, Connect, ReconIdle, ResubscribeFails,
              VisitInitResub, InitConnects, InitFailsAgain, MarkAfterFailure
<1>6. ASSUME Subscribe PROVE CountShape'
  BY <1>6, TypeGroups DEF Subscribe, AppGoes, mapVars, reconVars, connVars,
                          parseVars, histVars, CountShape, Erasing, Due,
                          MapTypes, CallTypes, Keys
<1>7. ASSUME Unsubscribe PROVE CountShape'
  BY <1>7, TypeGroups DEF Unsubscribe, AppGoes, mapVars, reconVars, connVars,
                          parseVars, histVars, CountShape, Erasing, Due,
                          MapTypes, CallTypes, Keys
<1>8. ASSUME SubscribeConnects PROVE CountShape'
  BY <1>8, TypeGroups DEF SubscribeConnects, Connect, AppGoes, mapVars,
                          reconVars, histVars, CountShape, Erasing, Due,
                          MapTypes, CallTypes, Keys
<1>9. ASSUME SubscribeInserts PROVE CountShape'
  BY <1>9, TypeGroups DEF SubscribeInserts, InsertMeta, AppGoes, reconVars,
                          connVars, parseVars, histVars, CountShape, Erasing,
                          Due, MapTypes, CallTypes, Keys
<1>10. ASSUME SubscribeFails PROVE CountShape'
  BY <1>10, TypeGroups DEF SubscribeFails, InsertMeta, AppGoes, reconVars,
                           connVars, parseVars, histVars, CountShape, Erasing,
                           Due, MapTypes, CallTypes, Keys
<1>11. ASSUME NEW h \in Handlers, AddHandleThread(h) PROVE CountShape'
  BY <1>11, TypeGroups DEF AddHandleThread, Record, AppGoes, reconVars,
                           connVars, parseVars, histVars, CountShape, Erasing,
                           Due, MapTypes, CallTypes, Keys
<1>12. ASSUME EraseInfo PROVE CountShape'
  <2>1. topicSubInfos[appKey].sub \in Subs
    BY <1>12, TypeGroups DEF EraseInfo, InfoShape
  <2>2. topics' = "none" /\ appPc = "erase" /\ appPc' = "eraseLive" /\ UNCHANGED <<appKey, actionCnt, liveSubs>>
    BY <1>12, <2>1 DEF EraseInfo, AppGoes, Subs
  <2>3. QED
    BY <2>2 DEF CountShape, Erasing, Due
<1>13. ASSUME EraseLive PROVE CountShape'
  BY <1>13, TypeGroups DEF EraseLive, AppGoes, reconVars, connVars, parseVars,
                           histVars, CountShape, Erasing, Due, MapTypes,
                           CallTypes, Keys
<1>14. ASSUME EraseCount PROVE CountShape'
  BY <1>14, TypeGroups DEF EraseCount, AppGoes, reconVars, connVars,
                           parseVars, histVars, CountShape, Erasing, Due,
                           MapTypes, CallTypes, Keys
<1>15. ASSUME CloseSocket PROVE CountShape'
  BY <1>15, TypeGroups DEF CloseSocket, AppGoes, mapVars, reconVars,
                           parseVars, histVars, CountShape, Erasing, Due,
                           MapTypes, CallTypes, Keys
<1>16. ASSUME PushNull PROVE CountShape'
  BY <1>16, TypeGroups DEF PushNull, AppGoes, mapVars, reconVars, connVars,
                           parseVars, histVars, CountShape, Erasing, Due,
                           MapTypes, CallTypes, Keys
<1>17. ASSUME JoinHandlers PROVE CountShape'
  BY <1>17, TypeGroups DEF JoinHandlers, AppGoes, mapVars, reconVars,
                           connVars, parseVars, histVars, CountShape, Erasing,
                           Due, MapTypes, CallTypes, Keys
<1>18. ASSUME InitInserts PROVE CountShape'
  BY <1>18, TypeGroups DEF InitInserts, InsertMeta, ReconIdle, appVars,
                           connVars, parseVars, CountShape, Erasing, Due,
                           MapTypes, CallTypes, Keys
<1>19. CASE UNCHANGED vars
  BY <1>1, <1>19 DEF vars, mapVars, appVars, reconVars, connVars, parseVars,
                     histVars
<1>20. QED
  BY <1>1, <1>2, <1>3, <1>4, <1>5, <1>6, <1>7, <1>8, <1>9, <1>10, <1>11,
     <1>12, <1>13, <1>14, <1>15, <1>16, <1>17, <1>18, <1>19 DEF Next,
     AppGoesOn, ParseStep, ReconnectStep, HandlerStep

LEMMA EarlyGrows == [Next]_vars /\ early => early'
<1> SUFFICES ASSUME [Next]_vars, early PROVE early'
  OBVIOUS
<1>1. ASSUME UNCHANGED <<early>> PROVE early'
  BY <1>1
<1>2. ASSUME NEW c \in Conns, CutConnection(c) \/ ReadSchema(c) \/
             SchemaParsed(c) \/ ReadRows(c) \/ FindInfo(c) \/ PushRow(c)
      PROVE  UNCHANGED <<early>>
  BY <1>2 DEF CutConnection, mapVars, appVars, reconVars, parseVars, histVars,
              ReadSchema, Goto, OthersKeep, SchemaParsed, ReadRows, FindInfo,
              PushRow
<1>3. ASSUME NEW c \in Conns, SetOffset(c) \/ StampTime(c) \/ MarkTopic(c)
      PROVE  UNCHANGED <<early>>
  BY <1>3 DEF SetOffset, Goto, histVars, OthersKeep, appVars, reconVars,
              StampTime, MarkTopic, mapVars
<1>4. ASSUME NEW h \in Handlers, AddHandleThread(h)
      PROVE  UNCHANGED <<early>>
  BY <1>4 DEF AddHandleThread, Record, AppGoes, reconVars, connVars,
              parseVars, histVars
<1>5. ASSUME NEW s \in Subs, NEW h \in Handlers, LoopTest(s, h) \/
             PopMessage(s, h) \/ SayBye(s, h)
      PROVE  UNCHANGED <<early>>
  BY <1>5 DEF LoopTest, HandlerGoes, HandlerKeeps, mapVars, appVars,
              reconVars, connVars, parseVars, histVars, PopMessage, SayBye
<1>6. ASSUME Subscribe \/ Unsubscribe \/ SubscribeConnects \/ SubscribeInserts
             \/ SubscribeFails \/ EraseInfo
      PROVE  UNCHANGED <<early>>
  BY <1>6 DEF Subscribe, AppGoes, mapVars, reconVars, connVars, parseVars,
              histVars, Unsubscribe, SubscribeConnects, Connect,
              SubscribeInserts, InsertMeta, SubscribeFails, EraseInfo
<1>7. ASSUME EraseLive \/ EraseCount \/ CloseSocket \/ PushNull \/
             JoinHandlers \/ VisitTopic
      PROVE  UNCHANGED <<early>>
  BY <1>7 DEF EraseLive, AppGoes, reconVars, connVars, parseVars, histVars,
              EraseCount, CloseSocket, mapVars, PushNull, JoinHandlers,
              VisitTopic, ReconGoes, appVars
<1>8. ASSUME Resubscribes \/ ResubscribeFails \/ VisitInitResub \/
             InitConnects \/ InitInserts \/ InitFailsAgain
      PROVE  UNCHANGED <<early>>
  BY <1>8 DEF Resubscribes, Connect, ReconIdle, mapVars, appVars, histVars,
              ResubscribeFails, connVars, parseVars, VisitInitResub,
              ReconGoes, InitConnects, InitInserts, InsertMeta,
              InitFailsAgain, MarkAfterFailure
<1>9. ASSUME NEW c \in Conns, ReadFails(c) PROVE early'
  BY <1>9 DEF ReadFails
<1>10. ASSUME NEW c \in Conns, FindLive(c) PROVE early'
  BY <1>10 DEF FindLive
<1>11. CASE UNCHANGED vars
  BY <1>1, <1>11 DEF vars, mapVars, appVars, reconVars, connVars, parseVars,
                     histVars
<1>12. QED
  BY <1>1, <1>2, <1>3, <1>4, <1>5, <1>6, <1>7, <1>8, <1>9, <1>10, <1>11 DEF
     Next, AppGoesOn, ParseStep, ReconnectStep, HandlerStep

(* A parse thread that has received a message ends without marking its      *)
(* topic.                                                                   *)
GivesUp ==
  \E c \in Conns : /\ met[c]
                    /\ \/ ReadFails(c) /\ ~Recovers(c)
                       \/ FindLive(c) /\ ~liveSubs

LEMMA WatchedStays == TypeInv /\ [Next]_vars /\ Watched => Watched' \/ GivesUp
<1> SUFFICES ASSUME TypeInv, [Next]_vars, Watched PROVE Watched' \/ GivesUp
  OBVIOUS
<1>1. ASSUME UNCHANGED <<topicReconn, pc, met>> PROVE Watched' \/ GivesUp
  BY <1>1 DEF Watched
<1>2. ASSUME NEW c \in Conns, CutConnection(c)
      PROVE  UNCHANGED <<topicReconn, pc, met>>
  BY <1>2 DEF CutConnection, mapVars, appVars, reconVars, parseVars, histVars
<1>3. ASSUME NEW h \in Handlers, AddHandleThread(h)
      PROVE  UNCHANGED <<topicReconn, pc, met>>
  BY <1>3 DEF AddHandleThread, Record, AppGoes, reconVars, connVars,
              parseVars, histVars
<1>4. ASSUME NEW s \in Subs, NEW h \in Handlers, LoopTest(s, h) \/
             PopMessage(s, h) \/ SayBye(s, h)
      PROVE  UNCHANGED <<topicReconn, pc, met>>
  BY <1>4 DEF LoopTest, HandlerGoes, HandlerKeeps, mapVars, appVars,
              reconVars, connVars, parseVars, histVars, PopMessage, SayBye
<1>5. ASSUME Subscribe \/ Unsubscribe \/ SubscribeInserts \/ SubscribeFails \/
             EraseInfo \/ EraseLive
      PROVE  UNCHANGED <<topicReconn, pc, met>>
  BY <1>5 DEF Subscribe, AppGoes, mapVars, reconVars, connVars, parseVars,
              histVars, Unsubscribe, SubscribeInserts, InsertMeta,
              SubscribeFails, EraseInfo, EraseLive
<1>6. ASSUME EraseCount \/ CloseSocket \/ PushNull \/ JoinHandlers \/
             VisitTopic \/ ResubscribeFails
      PROVE  UNCHANGED <<topicReconn, pc, met>>
  BY <1>6 DEF EraseCount, AppGoes, reconVars, connVars, parseVars, histVars,
              CloseSocket, mapVars, PushNull, JoinHandlers, VisitTopic,
              ReconGoes, appVars, ResubscribeFails, ReconIdle,
              MarkAfterFailure
<1>7. ASSUME VisitInitResub \/ InitInserts \/ InitFailsAgain
      PROVE  UNCHANGED <<topicReconn, pc, met>>
  BY <1>7 DEF VisitInitResub, ReconGoes, mapVars, appVars, connVars,
              parseVars, histVars, InitInserts, InsertMeta, ReconIdle,
              InitFailsAgain
<1>8. ASSUME NEW c \in Conns, ReadSchema(c) PROVE Watched' \/ GivesUp
  <2>1. pc'[c] \notin {"none", "done"} /\ met'[c] /\ c \in Conns
    BY <1>8, TypeGroups DEF ReadSchema, Goto, ConnShape, ConnTypes
  <2>2. QED
    BY <2>1 DEF Watched
<1>9. ASSUME NEW c \in Conns, SchemaParsed(c) PROVE Watched' \/ GivesUp
  <2>1. pc'[c] \notin {"none", "done"} /\ met'[c] /\ c \in Conns
    BY <1>9, TypeGroups DEF SchemaParsed, Goto, ConnShape, ConnTypes
  <2>2. QED
    BY <2>1 DEF Watched
<1>10. ASSUME NEW c \in Conns, ReadRows(c) PROVE Watched' \/ GivesUp
  <2>1. \A d \in Conns : pc[d] \notin {"none", "done"} => pc'[d] \notin {"none", "done"}
    BY <1>10, TypeGroups DEF ReadRows, Goto, ConnTypes, ParseLabels
  <2>2. UNCHANGED <<met, topicReconn>>
    BY <1>10 DEF ReadRows
  <2>3. QED
    BY <2>1, <2>2 DEF Watched
<1>11. ASSUME NEW c \in Conns, FindInfo(c) PROVE Watched' \/ GivesUp
  <2>1. \A d \in Conns : pc[d] \notin {"none", "done"} => pc'[d] \notin {"none", "done"}
    BY <1>11, TypeGroups DEF FindInfo, Goto, ConnTypes, ParseLabels
  <2>2. UNCHANGED <<met, topicReconn>>
    BY <1>11 DEF FindInfo
  <2>3. QED
    BY <2>1, <2>2 DEF Watched
<1>12. ASSUME NEW c \in Conns, PushRow(c) PROVE Watched' \/ GivesUp
  <2>1. \A d \in Conns : pc[d] \notin {"none", "done"} => pc'[d] \notin {"none", "done"}
    BY <1>12, TypeGroups DEF PushRow, Goto, ConnTypes, ParseLabels
  <2>2. UNCHANGED <<met, topicReconn>>
    BY <1>12 DEF PushRow
  <2>3. QED
    BY <2>1, <2>2 DEF Watched
<1>13. ASSUME NEW c \in Conns, SetOffset(c) PROVE Watched' \/ GivesUp
  <2>1. \A d \in Conns : pc[d] \notin {"none", "done"} => pc'[d] \notin {"none", "done"}
    BY <1>13, TypeGroups DEF SetOffset, Goto, ConnTypes, ParseLabels
  <2>2. UNCHANGED <<met, topicReconn>>
    BY <1>13 DEF SetOffset
  <2>3. QED
    BY <2>1, <2>2 DEF Watched
<1>14. ASSUME NEW c \in Conns, ReadFails(c) PROVE Watched' \/ GivesUp
  <2>1. \A d \in Conns : d # c => pc'[d] = pc[d]
    BY <1>14, TypeGroups DEF ReadFails, Goto, ConnTypes
  <2>2. UNCHANGED <<met, topicReconn>>
    BY <1>14 DEF ReadFails
  <2>3. met[c] => pc'[c] \notin {"none", "done"} \/ GivesUp
    BY <1>14, TypeGroups DEF ReadFails, Goto, ConnTypes, GivesUp
  <2>4. QED
    BY <2>1, <2>2, <2>3 DEF Watched
<1>15. ASSUME NEW c \in Conns, FindLive(c) PROVE Watched' \/ GivesUp
  <2>1. \A d \in Conns : d # c => pc'[d] = pc[d]
    BY <1>15, TypeGroups DEF FindLive, Goto, ConnTypes
  <2>2. UNCHANGED <<met, topicReconn>>
    BY <1>15 DEF FindLive
  <2>3. met[c] => pc'[c] \notin {"none", "done"} \/ GivesUp
    BY <1>15, TypeGroups DEF FindLive, Goto, ConnTypes, GivesUp
  <2>4. QED
    BY <2>1, <2>2, <2>3 DEF Watched
<1>16. ASSUME NEW c \in Conns, StampTime(c) PROVE Watched' \/ GivesUp
  <2>1. \A d \in Conns : pc[d] \notin {"none", "done"} => pc'[d] \notin {"none", "done"}
    BY <1>16, TypeGroups DEF StampTime, Goto, ConnTypes, ParseLabels
  <2>2. UNCHANGED <<met, topicReconn>>
    BY <1>16 DEF StampTime
  <2>3. QED
    BY <2>1, <2>2 DEF Watched
<1>17. ASSUME NEW c \in Conns, MarkTopic(c) PROVE Watched' \/ GivesUp
  BY <1>17 DEF MarkTopic, Watched
<1>18. ASSUME SubscribeConnects PROVE Watched' \/ GivesUp
  <2>1. UNCHANGED <<met, topicReconn>> /\ pc' = [pc EXCEPT ![made'] = "read"]
    BY <1>18, ConnectSteps, TypeGroups DEF SubscribeConnects, InfoShape, Connect
  <2>2. \A d \in Conns : pc[d] \notin {"none", "done"} => pc'[d] \notin {"none", "done"}
    BY <2>1, TypeGroups DEF ConnTypes
  <2>3. QED
    BY <2>1, <2>2 DEF Watched
<1>19. ASSUME Resubscribes PROVE Watched' \/ GivesUp
  <2>1. UNCHANGED <<met, topicReconn>> /\ pc' = [pc EXCEPT ![made'] = "read"]
    BY <1>19, ConnectSteps, TypeGroups DEF Resubscribes, InfoShape, Connect
  <2>2. \A d \in Conns : pc[d] \notin {"none", "done"} => pc'[d] \notin {"none", "done"}
    BY <2>1, TypeGroups DEF ConnTypes
  <2>3. QED
    BY <2>1, <2>2 DEF Watched
<1>20. ASSUME InitConnects PROVE Watched' \/ GivesUp
  <2>1. UNCHANGED <<met, topicReconn>> /\ pc' = [pc EXCEPT ![made'] = "read"]
    BY <1>20, ConnectSteps, TypeGroups DEF InitConnects, InfoShape, Connect
  <2>2. \A d \in Conns : pc[d] \notin {"none", "done"} => pc'[d] \notin {"none", "done"}
    BY <2>1, TypeGroups DEF ConnTypes
  <2>3. QED
    BY <2>1, <2>2 DEF Watched
<1>21. CASE UNCHANGED vars
  BY <1>1, <1>21 DEF vars, mapVars, appVars, reconVars, connVars, parseVars,
                     histVars
<1>22. QED
  BY <1>1, <1>2, <1>3, <1>4, <1>5, <1>6, <1>7, <1>8, <1>9, <1>10, <1>11,
     <1>12, <1>13, <1>14, <1>15, <1>16, <1>17, <1>18, <1>19, <1>20, <1>21 DEF
     Next, AppGoesOn, ParseStep, ReconnectStep, HandlerStep

LEMMA GiveUpFacts ==
  TypeInv /\ CountShape /\ GivesUp => ~liveSubs /\ (Connecting => early')
<1> SUFFICES ASSUME TypeInv, CountShape, GivesUp PROVE ~liveSubs /\ (Connecting => early')
  OBVIOUS
<1>1. PICK c \in Conns : met[c] /\ ((ReadFails(c) /\ ~Recovers(c)) \/ (FindLive(c) /\ ~liveSubs))
  BY DEF GivesUp
<1>2. CASE ReadFails(c) /\ ~Recovers(c)
  <2>1. actionCnt = 0
    BY <1>1, <1>2 DEF Recovers
  <2>2. ~liveSubs
    BY <2>1 DEF CountShape, Due, Erasing
  <2>3. QED
    BY <1>1, <1>2, <2>2 DEF ReadFails
<1>3. CASE FindLive(c) /\ ~liveSubs
  BY <1>3 DEF FindLive
<1>4. QED
  BY <1>1, <1>2, <1>3

LEMMA ReceivedSteps ==
  ASSUME TypeInv, [Next]_vars, NEW w \in Subs, HasReceived(w)'
  PROVE  HasReceived(w) \/ Watched'
<1>1. ASSUME UNCHANGED <<connSub, met>> PROVE HasReceived(w) \/ Watched'
  BY <1>1 DEF HasReceived
<1>2. ASSUME NEW c \in Conns, CutConnection(c) \/ SchemaParsed(c) \/
             ReadRows(c) \/ FindInfo(c) \/ PushRow(c) \/ SetOffset(c)
      PROVE  UNCHANGED <<connSub, met>>
  BY <1>2 DEF CutConnection, mapVars, appVars, reconVars, parseVars, histVars,
              SchemaParsed, Goto, OthersKeep, ReadRows, FindInfo, PushRow,
              SetOffset
<1>3. ASSUME NEW c \in Conns, ReadFails(c) \/ FindLive(c) \/ StampTime(c) \/
             MarkTopic(c)
      PROVE  UNCHANGED <<connSub, met>>
  BY <1>3 DEF ReadFails, Goto, mapVars, OthersKeep, appVars, reconVars,
              FindLive, StampTime, histVars, MarkTopic
<1>4. ASSUME NEW h \in Handlers, AddHandleThread(h)
      PROVE  UNCHANGED <<connSub, met>>
  BY <1>4 DEF AddHandleThread, Record, AppGoes, reconVars, connVars,
              parseVars, histVars
<1>5. ASSUME NEW s \in Subs, NEW h \in Handlers, LoopTest(s, h) \/
             PopMessage(s, h) \/ SayBye(s, h)
      PROVE  UNCHANGED <<connSub, met>>
  BY <1>5 DEF LoopTest, HandlerGoes, HandlerKeeps, mapVars, appVars,
              reconVars, connVars, parseVars, histVars, PopMessage, SayBye
<1>6. ASSUME Subscribe \/ Unsubscribe \/ SubscribeInserts \/ SubscribeFails \/
             EraseInfo \/ EraseLive
      PROVE  UNCHANGED <<connSub, met>>
  BY <1>6 DEF Subscribe, AppGoes, mapVars, reconVars, connVars, parseVars,
              histVars, Unsubscribe, SubscribeInserts, InsertMeta,
              SubscribeFails, EraseInfo, EraseLive
<1>7. ASSUME EraseCount \/ CloseSocket \/ PushNull \/ JoinHandlers \/
             VisitTopic \/ ResubscribeFails
      PROVE  UNCHANGED <<connSub, met>>
  BY <1>7 DEF EraseCount, AppGoes, reconVars, connVars, parseVars, histVars,
              CloseSocket, mapVars, PushNull, JoinHandlers, VisitTopic,
              ReconGoes, appVars, ResubscribeFails, ReconIdle,
              MarkAfterFailure
<1>8. ASSUME VisitInitResub \/ InitInserts \/ InitFailsAgain
      PROVE  UNCHANGED <<connSub, met>>
  BY <1>8 DEF VisitInitResub, ReconGoes, mapVars, appVars, connVars,
              parseVars, histVars, InitInserts, InsertMeta, ReconIdle,
              InitFailsAgain
<1>9. ASSUME NEW c \in Conns, ReadSchema(c) PROVE HasReceived(w) \/ Watched'
  <2>1. pc'[c] \notin {"none", "done"} /\ met'[c] /\ c \in Conns
    BY <1>9, TypeGroups DEF ReadSchema, Goto, ConnShape, ConnTypes
  <2>2. QED
    BY <2>1 DEF Watched
<1>10. ASSUME SubscribeConnects PROVE HasReceived(w) \/ Watched'
  <2>1. /\ appInfo \in SubInfos /\ met' = met
    BY <1>10, TypeGroups DEF SubscribeConnects, InfoShape, Connect
  <2>2. made' = made + 1 /\ made' \in Conns /\ connSub' = [connSub EXCEPT ![made'] = appInfo.sub]
    BY <1>10, <2>1, ConnectSteps, TypeGroups DEF SubscribeConnects
  <2>3. ~met[made']
    BY <2>2, TypeGroups, SubscriptionAssumption DEF ConnShape, ConnTypes, Conns
  <2>4. \A c \in Conns : met'[c] => connSub'[c] = connSub[c]
    BY <2>1, <2>2, <2>3, TypeGroups DEF ConnTypes
  <2>5. QED
    BY <2>1, <2>4 DEF HasReceived
<1>11. ASSUME Resubscribes PROVE HasReceived(w) \/ Watched'
  <2>1. /\ reconInfo \in SubInfos /\ met' = met
    BY <1>11, TypeGroups DEF Resubscribes, InfoShape, Connect
  <2>2. made' = made + 1 /\ made' \in Conns /\ connSub' = [connSub EXCEPT ![made'] = reconInfo.sub]
    BY <1>11, <2>1, ConnectSteps, TypeGroups DEF Resubscribes
  <2>3. ~met[made']
    BY <2>2, TypeGroups, SubscriptionAssumption DEF ConnShape, ConnTypes, Conns
  <2>4. \A c \in Conns : met'[c] => connSub'[c] = connSub[c]
    BY <2>1, <2>2, <2>3, TypeGroups DEF ConnTypes
  <2>5. QED
    BY <2>1, <2>4 DEF HasReceived
<1>12. ASSUME InitConnects PROVE HasReceived(w) \/ Watched'
  <2>1. /\ reconInfo \in SubInfos /\ met' = met
    BY <1>12, TypeGroups DEF InitConnects, InfoShape, Connect
  <2>2. made' = made + 1 /\ made' \in Conns /\ connSub' = [connSub EXCEPT ![made'] = reconInfo.sub]
    BY <1>12, <2>1, ConnectSteps, TypeGroups DEF InitConnects
  <2>3. ~met[made']
    BY <2>2, TypeGroups, SubscriptionAssumption DEF ConnShape, ConnTypes, Conns
  <2>4. \A c \in Conns : met'[c] => connSub'[c] = connSub[c]
    BY <2>1, <2>2, <2>3, TypeGroups DEF ConnTypes
  <2>5. QED
    BY <2>1, <2>4 DEF HasReceived
<1>13. CASE UNCHANGED vars
  BY <1>1, <1>13 DEF vars, mapVars, appVars, reconVars, connVars, parseVars,
                     histVars
<1>14. QED
  BY <1>1, <1>2, <1>3, <1>4, <1>5, <1>6, <1>7, <1>8, <1>9, <1>10, <1>11,
     <1>12, <1>13 DEF Next, AppGoesOn, ParseStep, ReconnectStep, HandlerStep

LEMMA TopicSteps ==
  ASSUME TypeInv, [Next]_vars, NEW w \in Subs, topicSubInfos'["topic"].sub = w,
         liveSubs', ~stopped'[w]
  PROVE  \/ topicSubInfos["topic"].sub = w /\ liveSubs /\ ~stopped[w]
         \/ Connects(w)
<1>1. ASSUME UNCHANGED <<topicSubInfos, liveSubs, stopped>> PROVE (topicSubInfos["topic"].sub = w /\ liveSubs /\ ~stopped[w]) \/ Connects(w)
  BY <1>1 DEF Subs
<1>2. ASSUME NEW c \in Conns, CutConnection(c) \/ ReadSchema(c) \/
             SchemaParsed(c) \/ ReadRows(c) \/ FindInfo(c) \/ PushRow(c)
      PROVE  UNCHANGED <<topicSubInfos, liveSubs, stopped>>
  BY <1>2 DEF CutConnection, mapVars, appVars, reconVars, parseVars, histVars,
              ReadSchema, Goto, OthersKeep, SchemaParsed, ReadRows, FindInfo,
              PushRow
<1>3. ASSUME NEW c \in Conns, ReadFails(c) \/ FindLive(c) \/ MarkTopic(c)
      PROVE  UNCHANGED <<topicSubInfos, liveSubs, stopped>>
  BY <1>3 DEF ReadFails, Goto, mapVars, OthersKeep, appVars, reconVars,
              FindLive, MarkTopic
<1>4. ASSUME NEW s \in Subs, NEW h \in Handlers, LoopTest(s, h) \/
             PopMessage(s, h) \/ SayBye(s, h)
      PROVE  UNCHANGED <<topicSubInfos, liveSubs, stopped>>
  BY <1>4 DEF LoopTest, HandlerGoes, HandlerKeeps, mapVars, appVars,
              reconVars, connVars, parseVars, histVars, PopMessage, SayBye
<1>5. ASSUME Subscribe \/ Unsubscribe \/ SubscribeConnects \/ EraseCount \/
             PushNull \/ JoinHandlers
      PROVE  UNCHANGED <<topicSubInfos, liveSubs, stopped>>
  BY <1>5 DEF Subscribe, AppGoes, mapVars, reconVars, connVars, parseVars,
              histVars, Unsubscribe, SubscribeConnects, Connect, EraseCount,
              PushNull, JoinHandlers
<1>6. ASSUME VisitTopic \/ Resubscribes \/ ResubscribeFails \/ VisitInitResub
             \/ InitConnects \/ InitFailsAgain
      PROVE  UNCHANGED <<topicSubInfos, liveSubs, stopped>>
  BY <1>6 DEF VisitTopic, ReconGoes, mapVars, appVars, connVars, parseVars,
              histVars, Resubscribes, Connect, ReconIdle, ResubscribeFails,
              VisitInitResub, InitConnects, InitFailsAgain, MarkAfterFailure
<1>7. ASSUME NEW c \in Conns, SetOffset(c) PROVE (topicSubInfos["topic"].sub = w /\ liveSubs /\ ~stopped[w]) \/ Connects(w)
  <2>1. topicSubInfos'["topic"].sub \in {topicSubInfos["topic"].sub}
    BY <1>7, SetOffsetKeeps, TypeGroups DEF SetOffset, MapTypes, Keys
  <2>2. UNCHANGED <<liveSubs, stopped>>
    BY <1>7 DEF SetOffset, OthersKeep
  <2>3. QED
    BY <2>1, <2>2 DEF Subs
<1>8. ASSUME NEW c \in Conns, StampTime(c) PROVE (topicSubInfos["topic"].sub = w /\ liveSubs /\ ~stopped[w]) \/ Connects(w)
  <2>1. topicSubInfos'["topic"].sub \in {topicSubInfos["topic"].sub, 0}
    BY <1>8, SpecialInfos, TypeGroups DEF StampTime, MapTypes, Keys
  <2>2. UNCHANGED <<liveSubs, stopped>>
    BY <1>8 DEF StampTime, OthersKeep
  <2>3. QED
    BY <2>1, <2>2 DEF Subs
<1>9. ASSUME SubscribeInserts PROVE (topicSubInfos["topic"].sub = w /\ liveSubs /\ ~stopped[w]) \/ Connects(w)
  <2>1. topicSubInfos'["topic"] = appInfo
    BY <1>9, TypeGroups DEF SubscribeInserts, InsertMeta, MapTypes, Keys
  <2>2. QED
    BY <1>9, <2>1 DEF SubscribeInserts, Connects
<1>10. ASSUME SubscribeFails PROVE (topicSubInfos["topic"].sub = w /\ liveSubs /\ ~stopped[w]) \/ Connects(w)
  <2>1. topicSubInfos'["topic"] = topicSubInfos["topic"] /\ UNCHANGED <<liveSubs, stopped>>
    BY <1>10, TypeGroups DEF SubscribeFails, InsertMeta, MapTypes, Keys
  <2>2. QED
    BY <2>1
<1>11. ASSUME NEW h \in Handlers, AddHandleThread(h) PROVE (topicSubInfos["topic"].sub = w /\ liveSubs /\ ~stopped[w]) \/ Connects(w)
  <2>1. topicSubInfos'["topic"].sub \in {topicSubInfos["topic"].sub}
    BY <1>11, RecordKeeps, TypeGroups DEF AddHandleThread, MapTypes, Keys
  <2>2. UNCHANGED <<liveSubs, stopped>>
    BY <1>11 DEF AddHandleThread, OthersKeep
  <2>3. QED
    BY <2>1, <2>2 DEF Subs
<1>12. ASSUME EraseInfo PROVE (topicSubInfos["topic"].sub = w /\ liveSubs /\ ~stopped[w]) \/ Connects(w)
  <2>1. topicSubInfos'["topic"].sub \in {topicSubInfos["topic"].sub, -1}
    BY <1>12, SpecialInfos, TypeGroups DEF EraseInfo, MapTypes, Keys
  <2>2. UNCHANGED <<liveSubs, stopped>>
    BY <1>12 DEF EraseInfo, OthersKeep
  <2>3. QED
    BY <2>1, <2>2 DEF Subs
<1>13. ASSUME EraseLive PROVE (topicSubInfos["topic"].sub = w /\ liveSubs /\ ~stopped[w]) \/ Connects(w)
  BY <1>13 DEF EraseLive
<1>14. ASSUME CloseSocket PROVE (topicSubInfos["topic"].sub = w /\ liveSubs /\ ~stopped[w]) \/ Connects(w)
  BY <1>14, TypeGroups DEF CloseSocket, mapVars, QueueTypes
<1>15. ASSUME InitInserts PROVE (topicSubInfos["topic"].sub = w /\ liveSubs /\ ~stopped[w]) \/ Connects(w)
  <2>1. topicSubInfos'["topic"] = reconInfo
    BY <1>15, TypeGroups DEF InitInserts, InsertMeta, MapTypes, Keys
  <2>2. QED
    BY <1>15, <2>1 DEF InitInserts, Connects
<1>16. CASE UNCHANGED vars
  BY <1>1, <1>16 DEF vars, mapVars, appVars, reconVars, connVars, parseVars,
                     histVars
<1>17. QED
  BY <1>1, <1>2, <1>3, <1>4, <1>5, <1>6, <1>7, <1>8, <1>9, <1>10, <1>11,
     <1>12, <1>13, <1>14, <1>15, <1>16 DEF Next, AppGoesOn, ParseStep,
     ReconnectStep, HandlerStep

LEMMA ConnectsSteps ==
  ASSUME TypeInv, EntryInv, [Next]_vars, NEW w \in Subs, Connects(w)'
  PROVE  Connects(w) \/ ~HasReceived(w)'
<1>1. ASSUME UNCHANGED <<appPc, appInfo, reconPc, reconInfo>> PROVE Connects(w) \/ ~HasReceived(w)'
  BY <1>1 DEF Connects
<1>2. ASSUME NEW c \in Conns, CutConnection(c) \/ ReadSchema(c) \/
             SchemaParsed(c) \/ ReadRows(c) \/ FindInfo(c) \/ PushRow(c)
      PROVE  UNCHANGED <<appPc, appInfo, reconPc, reconInfo>>
  BY <1>2 DEF CutConnection, mapVars, appVars, reconVars, parseVars, histVars,
              ReadSchema, Goto, OthersKeep, SchemaParsed, ReadRows, FindInfo,
              PushRow
<1>3. ASSUME NEW c \in Conns, SetOffset(c) \/ ReadFails(c) \/ FindLive(c) \/
             StampTime(c) \/ MarkTopic(c)
      PROVE  UNCHANGED <<appPc, appInfo, reconPc, reconInfo>>
  BY <1>3 DEF SetOffset, Goto, histVars, OthersKeep, appVars, reconVars,
              ReadFails, mapVars, FindLive, StampTime, MarkTopic
<1>4. ASSUME NEW s \in Subs, NEW h \in Handlers, LoopTest(s, h) \/
             PopMessage(s, h) \/ SayBye(s, h)
      PROVE  UNCHANGED <<appPc, appInfo, reconPc, reconInfo>>
  BY <1>4 DEF LoopTest, HandlerGoes, HandlerKeeps, mapVars, appVars,
              reconVars, connVars, parseVars, histVars, PopMessage, SayBye
<1>5. ASSUME Subscribe PROVE Connects(w) \/ ~HasReceived(w)'
  BY <1>5 DEF Subscribe, AppGoes, mapVars, reconVars, connVars, parseVars,
              histVars, Connects
<1>6. ASSUME Unsubscribe PROVE Connects(w) \/ ~HasReceived(w)'
  BY <1>6 DEF Unsubscribe, AppGoes, mapVars, reconVars, connVars, parseVars,
              histVars, Connects
<1>7. ASSUME SubscribeConnects PROVE Connects(w) \/ ~HasReceived(w)'
  <2>1. readyMutex = Nobody /\ appPc = "connect"
    BY <1>7 DEF SubscribeConnects
  <2>2. appPc # "insert" /\ reconPc # "initInsert"
    BY <2>1, TypeGroups DEF LockTypes, Nobody, App, Reconnect
  <2>3. appInfo \in SubInfos /\ IsNew(appInfo.sub)
    BY <2>1, AppIsNew DEF Trying
  <2>4. /\ made' = made + 1 /\ made' \in Conns /\ connSub' = [connSub EXCEPT ![made'] = appInfo.sub]
        /\ met' = met
    BY <1>7, <2>3, ConnectSteps, TypeGroups DEF SubscribeConnects, Connect
  <2>5. ~met[made']
    BY <2>4, TypeGroups, SubscriptionAssumption DEF ConnShape, ConnTypes, Conns
  <2>6. appInfo'.sub = appInfo.sub
    BY <1>7, <2>3, <2>4, SubInfosAre DEF SubscribeConnects
  <2>7. w = appInfo.sub
    BY <1>7, <2>2, <2>6 DEF Connects, SubscribeConnects, AppGoes, reconVars
  <2>8. \A c \in Conns : connSub[c] # w
    BY <2>2, <2>3, <2>7 DEF IsNew, Connects
  <2>9. \A c \in Conns : met'[c] => connSub'[c] = connSub[c]
    BY <2>4, <2>5, TypeGroups DEF ConnTypes
  <2>10. QED
    BY <2>8, <2>9 DEF HasReceived
<1>8. ASSUME SubscribeInserts PROVE Connects(w) \/ ~HasReceived(w)'
  BY <1>8 DEF SubscribeInserts, InsertMeta, AppGoes, reconVars, connVars,
              parseVars, histVars, Connects
<1>9. ASSUME SubscribeFails PROVE Connects(w) \/ ~HasReceived(w)'
  BY <1>9 DEF SubscribeFails, InsertMeta, AppGoes, reconVars, connVars,
              parseVars, histVars, Connects
<1>10. ASSUME NEW h \in Handlers, AddHandleThread(h) PROVE Connects(w) \/ ~HasReceived(w)'
  BY <1>10 DEF AddHandleThread, Record, AppGoes, reconVars, connVars,
               parseVars, histVars, Connects
<1>11. ASSUME EraseInfo PROVE Connects(w) \/ ~HasReceived(w)'
  BY <1>11 DEF EraseInfo, AppGoes, reconVars, connVars, parseVars, histVars,
               Connects
<1>12. ASSUME EraseLive PROVE Connects(w) \/ ~HasReceived(w)'
  BY <1>12 DEF EraseLive, AppGoes, reconVars, connVars, parseVars, histVars,
               Connects
<1>13. ASSUME EraseCount PROVE Connects(w) \/ ~HasReceived(w)'
  BY <1>13 DEF EraseCount, AppGoes, reconVars, connVars, parseVars, histVars,
               Connects
<1>14. ASSUME CloseSocket PROVE Connects(w) \/ ~HasReceived(w)'
  BY <1>14 DEF CloseSocket, AppGoes, mapVars, reconVars, parseVars, histVars,
               Connects
<1>15. ASSUME PushNull PROVE Connects(w) \/ ~HasReceived(w)'
  BY <1>15 DEF PushNull, AppGoes, mapVars, reconVars, connVars, parseVars,
               histVars, Connects
<1>16. ASSUME JoinHandlers PROVE Connects(w) \/ ~HasReceived(w)'
  BY <1>16 DEF JoinHandlers, AppGoes, mapVars, reconVars, connVars, parseVars,
               histVars, Connects
<1>17. ASSUME VisitTopic PROVE Connects(w) \/ ~HasReceived(w)'
  BY <1>17 DEF VisitTopic, ReconGoes, mapVars, appVars, connVars, parseVars,
               histVars, Connects
<1>18. ASSUME Resubscribes PROVE Connects(w) \/ ~HasReceived(w)'
  BY <1>18 DEF Resubscribes, Connect, ReconIdle, mapVars, appVars, histVars,
               Connects
<1>19. ASSUME ResubscribeFails PROVE Connects(w) \/ ~HasReceived(w)'
  BY <1>19 DEF ResubscribeFails, ReconIdle, mapVars, appVars, connVars,
               parseVars, histVars, Connects
<1>20. ASSUME VisitInitResub PROVE Connects(w) \/ ~HasReceived(w)'
  BY <1>20 DEF VisitInitResub, ReconGoes, mapVars, appVars, connVars,
               parseVars, histVars, Connects
<1>21. ASSUME InitConnects PROVE Connects(w) \/ ~HasReceived(w)'
  <2>1. readyMutex = Nobody /\ reconPc = "init"
    BY <1>21 DEF InitConnects
  <2>2. appPc # "insert" /\ reconPc # "initInsert"
    BY <2>1, TypeGroups DEF LockTypes, Nobody, App, Reconnect
  <2>3. reconInfo \in SubInfos /\ IsNew(reconInfo.sub)
    BY <2>1, ReconIsNew DEF Trying
  <2>4. /\ made' = made + 1 /\ made' \in Conns /\ connSub' = [connSub EXCEPT ![made'] = reconInfo.sub]
        /\ met' = met
    BY <1>21, <2>3, ConnectSteps, TypeGroups DEF InitConnects, Connect
  <2>5. ~met[made']
    BY <2>4, TypeGroups, SubscriptionAssumption DEF ConnShape, ConnTypes, Conns
  <2>6. reconInfo'.sub = reconInfo.sub
    BY <1>21, <2>3, <2>4, SubInfosAre DEF InitConnects
  <2>7. w = reconInfo.sub
    BY <1>21, <2>2, <2>6 DEF Connects, InitConnects, ReconGoes, appVars
  <2>8. \A c \in Conns : connSub[c] # w
    BY <2>2, <2>3, <2>7 DEF IsNew, Connects
  <2>9. \A c \in Conns : met'[c] => connSub'[c] = connSub[c]
    BY <2>4, <2>5, TypeGroups DEF ConnTypes
  <2>10. QED
    BY <2>8, <2>9 DEF HasReceived
<1>22. ASSUME InitInserts PROVE Connects(w) \/ ~HasReceived(w)'
  BY <1>22 DEF InitInserts, InsertMeta, ReconIdle, appVars, connVars,
               parseVars, Connects
<1>23. ASSUME InitFailsAgain PROVE Connects(w) \/ ~HasReceived(w)'
  BY <1>23 DEF InitFailsAgain, ReconIdle, mapVars, appVars, connVars,
               parseVars, histVars, Connects
<1>24. CASE UNCHANGED vars
  BY <1>1, <1>24 DEF vars, mapVars, appVars, reconVars, connVars, parseVars,
                     histVars
<1>25. QED
  BY <1>1, <1>2, <1>3, <1>4, <1>5, <1>6, <1>7, <1>8, <1>9, <1>10, <1>11,
     <1>12, <1>13, <1>14, <1>15, <1>16, <1>17, <1>18, <1>19, <1>20, <1>21,
     <1>22, <1>23, <1>24 DEF Next, AppGoesOn, ParseStep, ReconnectStep,
     HandlerStep

LEMMA NeverForgottenNext ==
  TypeInv /\ EntryInv /\ WatchInv /\ [Next]_vars => NeverForgotten' /\ ConnectingWatched'
<1> SUFFICES ASSUME TypeInv, EntryInv, WatchInv, [Next]_vars, ~early'
             PROVE  NeverForgotten' /\ ConnectingWatched'
  BY DEF NeverForgotten, ConnectingWatched
<1>1. CountShape /\ ~early
  BY EarlyGrows DEF WatchInv
<1>2. ASSUME NEW w \in Subs, Connects(w), HasReceived(w) PROVE Watched'
  <2>1. Watched
    BY <1>1, <1>2 DEF WatchInv, ConnectingWatched
  <2>2. Connecting
    BY <1>2, TypeGroups DEF Connects, Connecting, LockTypes
  <2>3. QED
    BY <1>1, <2>1, <2>2, WatchedStays, GiveUpFacts
<1>3. ASSUME NEW w \in Subs, topicSubInfos["topic"].sub = w, HasReceived(w), liveSubs, ~stopped[w]
      PROVE  Watched'
  <2>1. Watched
    BY <1>1, <1>3 DEF WatchInv, NeverForgotten
  <2>2. QED
    BY <1>1, <1>3, <2>1, WatchedStays, GiveUpFacts
<1>4. NeverForgotten'
  <2> SUFFICES ASSUME NEW w \in Subs, topicSubInfos'["topic"].sub = w, HasReceived(w)', liveSubs',
                      ~stopped'[w]
               PROVE  Watched'
    BY DEF NeverForgotten
  <2>1. HasReceived(w) \/ Watched'
    BY ReceivedSteps
  <2>2. (topicSubInfos["topic"].sub = w /\ liveSubs /\ ~stopped[w]) \/ Connects(w)
    BY TopicSteps
  <2>3. QED
    BY <1>2, <1>3, <2>1, <2>2
<1>5. ConnectingWatched'
  <2> SUFFICES ASSUME NEW w \in Subs, Connects(w)', HasReceived(w)' PROVE Watched'
    BY DEF ConnectingWatched
  <2>1. HasReceived(w) \/ Watched'
    BY ReceivedSteps
  <2>2. Connects(w)
    BY ConnectsSteps
  <2>3. QED
    BY <1>2, <2>1, <2>2
<1>6. QED
  BY <1>4, <1>5

LEMMA WatchInit == Init => WatchInv
<1> SUFFICES ASSUME Init PROVE WatchInv
  OBVIOUS
<1>1. CountShape
  BY DEF Init, CountShape, Erasing, Due
<1>2. \A s \in Subs : ~HasReceived(s)
  BY DEF Init, HasReceived
<1>3. QED
  BY <1>1, <1>2 DEF WatchInv, NeverForgotten, ConnectingWatched

LEMMA WatchNext == TypeInv /\ EntryInv /\ WatchInv /\ [Next]_vars => WatchInv'
  BY CountShapeNext, NeverForgottenNext DEF WatchInv

(* A subscription that has received a message is never forgotten: every     *)
(* insertMeta() of the topic not yet undone is counted, so that a parse     *)
(* thread whose connection breaks marks the topic unless its subscription   *)
(* is being entered or erased at that moment.                               *)
THEOREM SubscriptionsCorrect == Spec => []SubscriptionsKept
<1>1. TypeInv /\ WatchInv => SubscriptionsKept
  BY DEF TypeInv, WatchInv, SubscriptionsKept
<1>2. QED
  BY <1>1, TypeInit, TypeNext, EntryInit, EntryNext, WatchInit, WatchNext, PTL DEF Spec

=============================================================================
