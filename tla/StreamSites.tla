---------------------------- MODULE StreamSites ----------------------------
(***************************************************************************)
(* A subscription that may be served by several nodes (StreamingClientImpl *)
(* in src/src/Streaming.cpp): one with backup sites, which the reconnect   *)
(* thread tries in turn, or one of a highly available stream table, which  *)
(* only the leader of the nodes serves.                                    *)
(*                                                                         *)
(* The topic of the subscription is another one on every node, so that its *)
(* entry in the maps moves with it, while the application may unsubscribe  *)
(* and the connection that is left may still deliver.  StreamSubscription  *)
(* has the steps of one topic, its queue and handlers; here what is done   *)
(* under readyMutex_ is one step, and so are the two attempts at a site.   *)
(***************************************************************************)
EXTENDS Integers, Sequences, FiniteSets, Functions

CONSTANTS
  NodeCount,   \* nodes; the first is the one the application names
  SiteLists,   \* the sites it names; none for a highly available stream table
  Timeouts,    \* resubscribeTimeout is set
  MaxLinks,    \* bound: connections made
  MaxSiteRows, \* bound: rows published
  MaxFaults,   \* bound: failures of nodes and links, with backup sites ...
  MaxHaFaults  \* ... and with a highly available table

Nodes == 1 .. NodeCount

ASSUME SitesAssumption ==
  /\ {NodeCount, MaxLinks} \subseteq Nat \ {0}
  /\ {MaxSiteRows, MaxFaults, MaxHaFaults} \subseteq Nat
  /\ Timeouts \in BOOLEAN
  /\ SiteLists \subseteq Seq(Nodes)
  /\ \A list \in SiteLists : list # <<>> => list[1] = 1

Links == 1 .. MaxLinks
NoNode == 0
Unknown == 0              \* the topic "" of a subscription not yet made
Topics == {Unknown} \cup Nodes
NoTopic == -1
NoConn == [node |-> NoNode, open |-> FALSE, met |-> FALSE, next |-> 0]
NoEntry == [host |-> NoNode]

(* SubscribeInfo(), which operator[] makes: the ID "INVALID", no queue, and *)
(* resub_ false.                                                            *)
Invalid ==
  [sites |-> <<>>, current |-> -1, last |-> -1, host |-> NoNode,
   offset |-> -1, socket |-> 0, haSites |-> FALSE, threads |-> FALSE]

VARIABLES
  given,       \* the sites the application has named, if there are backup sites
  subOnce,     \* subOnce_
  (* the client *)
  entry,       \* topicSubInfos_: for a topic its SubscribeInfo, NoEntry or Invalid
  topic,       \* topics_: the topic of the subscription, or NoTopic
  live,        \* liveSubsOnSite_: the topics
  siteCnt,     \* actionCntOnTable_, for each topic
  marked,      \* topicReconn_: the topics
  initSites,   \* initResub_
  app,         \* where the application is
  appTopic, appHost,
  (* the reconnect thread *)
  recon,       \* where it is
  toVisit,     \* marked topics of this round yet to be looked at
  visited,     \* the topic it is at
  info,        \* its copy of the entry
  index,       \* currentSiteIndex, or the node host
  tries,       \* sites, or attempts, that are left
  (* connections and their parse threads *)
  linksMade,   \* connections made so far
  conn,        \* node, whether it holds, has had a message, and its next row
  parse,       \* where the parse thread is
  (* the nodes *)
  up, leader, faults,
  (* history *)
  awaited,     \* the row after the last one given to the queue
  inOrder,     \* each was the one awaited
  left,        \* nodes the subscription was moved away from
  stale,       \* a topic was tried although it had a connection
  overwritten, \* a copy has replaced an entry that was changed meanwhile
  crossed,     \* the application unsubscribed during an attempt
  gaveUp       \* a resubscribeTimeout was reached

ha == given = <<>>

siteMaps == <<entry, topic, live, siteCnt>>
siteAppVars == <<app, appTopic, appHost>>
siteReconVars == <<recon, toVisit, visited, info, index, tries>>
linkVars == <<linksMade, conn, parse>>
nodeVars == <<up, leader, faults>>
rowHist == <<awaited, inOrder>>
siteHist == <<rowHist, left, stale, overwritten, crossed, gaveUp>>
siteVars == <<given, subOnce, siteMaps, marked, initSites, siteAppVars, siteReconVars,
          linkVars, nodeVars, siteHist>>

(* SubscribeInfo: availableSites_, currentSiteIndex_, lastSiteIndex_, host_, *)
(* offset_, socket_, whether haSites_ is known, and handleThread_.           *)
NewInfo(host) ==
  [sites |-> given, current |-> IF ha THEN -1 ELSE 0, last |-> -1, host |-> host,
   offset |-> 0, socket |-> 0, haSites |-> FALSE, threads |-> FALSE]

NoInfo == NoEntry

SitesInit ==
  /\ given \in SiteLists /\ subOnce \in (IF ha THEN {FALSE} ELSE BOOLEAN)
  /\ entry = [t \in Topics |-> NoEntry] /\ topic = NoTopic
  /\ live = {} /\ siteCnt = [t \in Topics |-> 0]
  /\ marked = {} /\ initSites = <<>>
  /\ app = "new" /\ appTopic = NoTopic /\ appHost = 1
  /\ recon = "sleep" /\ toVisit = {} /\ visited = NoTopic /\ info = NoInfo
  /\ index = 0 /\ tries = 0
  /\ linksMade = 0 /\ parse = [c \in Links |-> "none"]
  /\ conn = [c \in Links |-> NoConn]
  /\ up = Nodes /\ leader \in (IF ha THEN Nodes ELSE {NoNode}) /\ faults = 0
  /\ awaited = 0 /\ inOrder = TRUE /\ left = {}
  /\ stale = FALSE /\ overwritten = FALSE /\ crossed = FALSE /\ gaveUp = FALSE

-----------------------------------------------------------------------------
(* The nodes *)

HasConnection(n) == \E c \in Links : conn[c].open /\ conn[c].node = n

(* Whether getSubscriptionTopic and publishTable succeed: publishTable       *)
(* without allowExists refuses a topic that has a connection, and a highly   *)
(* available table is served by its leader.                                  *)
Serves(n) == n \in up /\ ~HasConnection(n) /\ (ha => leader = n)

(* subscribeInternal(conn, info): a connection to info.host_ that starts    *)
(* from offset_, upon which daemon() starts the parse thread.               *)
ConnectSite(i) ==
  /\ linksMade < MaxLinks
  /\ linksMade' = linksMade + 1
  /\ conn' = [conn EXCEPT ![linksMade'] =
                [node |-> i.host, open |-> TRUE, met |-> FALSE, next |-> i.offset]]
  /\ parse' = [parse EXCEPT ![linksMade'] = "read"]

Connected(i) == [i EXCEPT !.socket = linksMade + 1, !.haSites = ha]

(* A majority elects a leader.                                              *)
MayLead(nodes) == 2 * Cardinality(nodes) > NodeCount

NodesKeep == UNCHANGED <<given, subOnce, siteMaps, marked, initSites, siteAppVars,
                         siteReconVars, linksMade, parse, siteHist>>

MoreFaults == faults < IF ha THEN MaxHaFaults ELSE MaxFaults

NodeFails(n) ==
  /\ n \in up /\ MoreFaults
  /\ faults' = faults + 1
  /\ up' = up \ {n}
  /\ leader' = IF leader = n \/ ~MayLead(up') THEN NoNode ELSE leader
  /\ conn' = [c \in Links |-> [conn[c] EXCEPT !.open = @ /\ conn[c].node # n]]
  /\ NodesKeep

NodeReturns(n) ==
  /\ n \notin up
  /\ up' = up \cup {n}
  /\ UNCHANGED <<leader, faults, conn>>
  /\ NodesKeep

Elect(n) ==
  /\ ha /\ leader = NoNode /\ n \in up /\ MayLead(up)
  /\ leader' = n
  /\ UNCHANGED <<up, faults, conn>>
  /\ NodesKeep

LinkFails(c) ==
  /\ conn[c].open /\ MoreFaults
  /\ faults' = faults + 1
  /\ conn' = [conn EXCEPT ![c].open = FALSE]
  /\ UNCHANGED <<up, leader>>
  /\ NodesKeep

-----------------------------------------------------------------------------
(* The maps *)

(* insertMeta(info, t)                                                      *)
InsertedInto(t, i) ==
  /\ entry' = [entry EXCEPT ![t] = i]
  /\ topic' = t
  /\ live' = live \cup {t}
  /\ siteCnt' = [siteCnt EXCEPT ![t] = @ + 1]

(* delMeta(old, false) and insertMeta(info, new); when the topic has gone,  *)
(* delMeta() does nothing.                                                  *)
MovedTo(old, new, i) ==
  /\ entry' = [entry EXCEPT ![old] = NoEntry, ![new] = i]
  /\ topic' = new
  /\ IF entry[old] = NoEntry
     THEN /\ live' = live \cup {new}
          /\ siteCnt' = [siteCnt EXCEPT ![new] = @ + 1]
     ELSE /\ live' = (live \ {old}) \cup {new}
          /\ siteCnt' = [siteCnt EXCEPT ![old] = @ - 1, ![new] = @ + 1]

(* The topics of which the entry is that of the subscription: what looks    *)
(* for its queue, its ID or resub_ passes over the others.                  *)
Subscribed(i) == i.host # NoNode
Entries == {t \in Topics : Subscribed(entry[t])}

(* What has changed in an entry since it was copied.                        *)
Changed(t, i) ==
  entry[t] = NoEntry \/ entry[t].offset # i.offset \/ entry[t].threads # i.threads

-----------------------------------------------------------------------------
(* The application *)

AppKeeps == UNCHANGED <<given, subOnce, marked, siteReconVars, nodeVars>>

(* checkServerVersion(): one of the sites must answer.                      *)
CheckServerVersion ==
  /\ app = "new"
  /\ 1 \in up \/ \E k \in DOMAIN given : given[k] \in up
  /\ app' = "connect"
  /\ UNCHANGED <<siteMaps, initSites, appTopic, appHost, linkVars, siteHist>>
  /\ AppKeeps

Subscribes ==
  /\ app = "connect" /\ Serves(appHost)
  /\ ConnectSite(NewInfo(appHost))
  /\ InsertedInto(appHost, Connected(NewInfo(appHost)))
  /\ app' = "threads"
  /\ UNCHANGED <<initSites, appTopic, appHost, siteHist>>
  /\ AppKeeps

NotLeader(n) == ha /\ n \in up /\ leader \notin {n, NoNode}

SubscribeIsRedirected ==
  /\ app = "connect" /\ NotLeader(appHost)
  /\ appHost' = leader
  /\ UNCHANGED <<app, appTopic, siteMaps, initSites, linkVars, siteHist>>
  /\ AppKeeps

(* The reconnect thread will try again.                                     *)
SiteSubscribeFails ==
  /\ app = "connect" /\ ~Serves(appHost) /\ ~NotLeader(appHost)
  /\ recon \notin {"init"}                          \* mtx_
  /\ initSites' = Append(initSites, NewInfo(appHost))
  /\ InsertedInto(Unknown, NewInfo(appHost))
  /\ app' = "threads"
  /\ UNCHANGED <<appTopic, appHost, linkVars, siteHist>>
  /\ AppKeeps

(* addHandleThread(): into an entry that has the queue.                     *)
AddSiteHandleThread ==
  /\ app = "threads"
  /\ IF Entries = {} THEN UNCHANGED entry
     ELSE \E t \in Entries : entry' = [entry EXCEPT ![t].threads = TRUE]
  /\ app' = "idle"
  /\ UNCHANGED <<topic, live, siteCnt, initSites, appTopic, appHost, linkVars, siteHist>>
  /\ AppKeeps

(* unsubscribe() finds the topic and connects to the node, which may have   *)
(* been given up by the time it ...                                         *)
UnsubscribeSite ==
  /\ app = "idle" /\ topic # NoTopic /\ entry[topic] # NoEntry
  /\ LET i == entry[topic]
     IN  (IF i.sites = <<>> THEN 1 ELSE i.sites[i.current + 1]) \in up
  /\ appTopic' = topic
  /\ app' = "erase"
  /\ UNCHANGED <<appHost, siteMaps, initSites, linkVars, siteHist>>
  /\ AppKeeps

Attempting == info # NoInfo \/ initSites # <<>>

(* ... erases the entry, closes the socket and joins the threads: delMeta().*)
(* It goes by the ID, the socket and the queue of the entry it finds.       *)
(* Mutant: the socket is left.                                              *)
SocketLeft(i) == 0
SocketClosed(i) == i.socket

EraseTopic ==
  /\ app = "erase"
  /\ LET old == entry[appTopic]
     IN  IF old = NoEntry
         THEN UNCHANGED <<siteMaps, conn>>
         ELSE /\ entry' = [entry EXCEPT ![appTopic] = NoEntry]
              /\ topic' = IF Subscribed(old) THEN NoTopic ELSE topic
              /\ live' = live \ {appTopic}
              /\ siteCnt' = [siteCnt EXCEPT ![appTopic] = @ - 1]
              /\ conn' = [c \in Links |-> [conn[c] EXCEPT !.open = @ /\ c # SocketClosed(old)]]
  /\ crossed' = (crossed \/ Attempting \/ appTopic \notin Entries)
  /\ app' = "ended" /\ appTopic' = NoTopic
  /\ UNCHANGED <<appHost, initSites, linksMade, parse, rowHist, left, stale,
                 overwritten, gaveUp>>
  /\ AppKeeps

-----------------------------------------------------------------------------
(* A parse thread *)

(* topicReconn_ is locked during a round of the reconnect thread.           *)
RoundLocks == recon \in {"round", "site", "try", "leader"}

ParseKeeps == UNCHANGED <<given, subOnce, topic, live, siteCnt, initSites, siteAppVars,
                          siteReconVars, linksMade, nodeVars, left, stale, overwritten,
                          crossed, gaveUp>>

(* The first message is the schema: topicReconn_.erase(t).                  *)
ReceiveSchema(c) ==
  /\ parse[c] = "read" /\ conn[c].open /\ ~conn[c].met /\ ~RoundLocks
  /\ conn' = [conn EXCEPT ![c].met = TRUE]
  /\ marked' = marked \ {conn[c].node}
  /\ UNCHANGED <<entry, parse, rowHist>>
  /\ ParseKeeps

(* Mutant: offset_ stays at the row that has come.                          *)
OffsetOfRow(row) == row
SiteOffsetAfter(row) == row + 1

(* A row goes to the subscription that has the topic now, if any.           *)
ReceiveRow(c) ==
  LET t == conn[c].node
  IN  /\ parse[c] = "read" /\ conn[c].open /\ conn[c].met /\ conn[c].next < MaxSiteRows
      /\ conn' = [conn EXCEPT ![c].next = @ + 1]
      /\ IF t \notin Entries
         THEN UNCHANGED <<entry, rowHist>>
         ELSE /\ inOrder' = (inOrder /\ conn[c].next = awaited)
              /\ awaited' = conn[c].next + 1
              /\ entry' = [entry EXCEPT ![t].offset = SiteOffsetAfter(conn[c].next)]
      /\ UNCHANGED <<marked, parse>>
      /\ ParseKeeps

Ended(c) ==
  /\ parse' = [parse EXCEPT ![c] = "done"]
  /\ conn' = [conn EXCEPT ![c] = NoConn]

(* The connection is lost, and the topic of its site to be subscribed again.*)
Lose(c) ==
  LET t == conn[c].node
  IN  /\ parse[c] = "read" /\ ~conn[c].open
      /\ IF conn[c].met /\ siteCnt[t] # 0 /\ t \in live
         THEN parse' = [parse EXCEPT ![c] = "stamp"] /\ UNCHANGED conn
         ELSE Ended(c)
      /\ UNCHANGED <<entry, marked, rowHist>>
      /\ ParseKeeps

(* mp[t].subscribeTime_ = now: of a topic that unsubscribe() or a move has  *)
(* erased meanwhile, operator[] makes an entry, and nothing removes it but  *)
(* another subscription of the topic.  Mutant: the entry in use is replaced.*)
EntryReset(i) == Invalid
Stamped(i) == IF i = NoEntry THEN Invalid ELSE i

StampSite(c) ==
  /\ parse[c] = "stamp"
  /\ entry' = [entry EXCEPT ![conn[c].node] = Stamped(@)]
  /\ parse' = [parse EXCEPT ![c] = "mark"]
  /\ UNCHANGED <<conn, marked, rowHist>>
  /\ ParseKeeps

(* topicReconn_.insert(t, ...)                                              *)
MarkSite(c) ==
  /\ parse[c] = "mark" /\ ~RoundLocks
  /\ marked' = marked \cup {conn[c].node}
  /\ Ended(c)
  /\ UNCHANGED <<entry, rowHist>>
  /\ ParseKeeps

-----------------------------------------------------------------------------
(* The reconnect thread *)

ReconKeeps == UNCHANGED <<given, subOnce, siteAppVars, nodeVars>>
Idle == visited' = NoTopic /\ info' = NoInfo /\ index' = 0 /\ tries' = 0

(* A round over the marked topics whose resubscribeInterval is over,        *)
(* topicReconn_ being locked, ...                                           *)
BeginRound ==
  /\ recon = "sleep"
  /\ recon' = "round" /\ toVisit' \in (SUBSET marked) \ {{}}
  /\ UNCHANGED <<visited, info, index, tries, siteMaps, marked, initSites, linkVars, siteHist>>
  /\ ReconKeeps

(* ... those without an entry, or resub_, being passed over ...             *)
PassOver(t) ==
  /\ recon = "round" /\ t \in toVisit \ Entries
  /\ toVisit' = toVisit \ {t}
  /\ UNCHANGED <<recon, visited, info, index, tries, siteMaps, marked, initSites, linkVars, siteHist>>
  /\ ReconKeeps

(* ... and those given up that have been tried for resubscribeTimeout.      *)
GiveUp(t) ==
  /\ Timeouts /\ recon = "round" /\ t \in toVisit \cap Entries
  /\ toVisit' = toVisit \ {t}
  /\ marked' = marked \ {t}
  /\ gaveUp' = TRUE
  /\ UNCHANGED <<recon, visited, info, index, tries, siteMaps, initSites, linkVars,
                 rowHist, left, stale, overwritten, crossed>>
  /\ ReconKeeps

(* The entry is copied.  A site that is left for the first time is recorded.*)
Visit(t) ==
  /\ recon = "round" /\ t \in toVisit \cap Entries
  /\ toVisit' = toVisit \ {t}
  /\ visited' = t
  /\ stale' = (stale \/ HasConnection(t))
  /\ LET i == entry[t]
     IN  IF i.sites = <<>>
         THEN /\ recon' = "leader" /\ info' = i /\ index' = i.host /\ tries' = 3
         ELSE /\ recon' = "site"
              /\ info' = [i EXCEPT !.last = IF @ = -1 THEN i.current ELSE @]
              /\ index' = i.current /\ tries' = Len(i.sites)
  /\ UNCHANGED <<siteMaps, marked, initSites, linkVars, rowHist, left,
                 overwritten, crossed, gaveUp>>
  /\ ReconKeeps

(* The copy, with the next site, replaces the entry ...                     *)
NextSite ==
  /\ recon = "site"
  /\ info' = [info EXCEPT !.current = index, !.host = info.sites[index + 1]]
  /\ entry' = [entry EXCEPT ![visited] = info']
  /\ overwritten' = (overwritten \/ Changed(visited, info))
  /\ recon' = "try"
  /\ UNCHANGED <<toVisit, visited, index, tries, topic, live, siteCnt, marked, initSites,
                 linkVars, rowHist, left, stale, crossed, gaveUp>>
  /\ ReconKeeps

Without(s, k) == SubSeq(s, 1, k - 1) \o SubSeq(s, k + 1, Len(s))

(* updateByReconnect(): with subOnce the site that was left is erased, and  *)
(* the indices after it are one less.  Mutant: they stay.                   *)
UpdatedInPlace(i, reconnected) ==
  IF ~subOnce \/ i.last = reconnected THEN i
  ELSE [i EXCEPT !.sites = Without(@, i.last + 1), !.current = reconnected, !.last = reconnected]
UpdatedByReconnect(i, reconnected) ==
  IF ~subOnce \/ i.last = reconnected THEN i
  ELSE LET current == IF i.last < reconnected THEN reconnected - 1 ELSE reconnected
       IN  [i EXCEPT !.sites = Without(@, i.last + 1), !.current = current, !.last = current]

(* ... and the site is connected: the subscription moves to its topic, ...  *)
SiteAnswers ==
  /\ recon = "try" /\ Serves(info.host)
  /\ ConnectSite(info)
  /\ LET i == UpdatedByReconnect(Connected(info), index)
     IN  IF info.host = visited
         THEN /\ entry' = [entry EXCEPT ![visited] = i]
              /\ UNCHANGED <<topic, live, siteCnt>>
         ELSE MovedTo(visited, info.host, i)
  /\ overwritten' = (overwritten \/ Changed(visited, info))
  /\ left' = IF subOnce /\ info.host # visited THEN left \cup {visited} ELSE left
  /\ crossed' = (crossed \/ app = "erase")
  /\ recon' = "round"
  /\ Idle
  /\ UNCHANGED <<toVisit, marked, initSites, rowHist, stale, gaveUp>>
  /\ ReconKeeps

(* Mutant: the same site again.                                             *)
SameSite(k) == k
SiteAfter(k) == (k + 1) % Len(info.sites)

(* ... or not, and the next one is tried until all were.                    *)
SiteFails ==
  /\ recon = "try" /\ ~Serves(info.host)
  /\ IF tries = 1
     THEN recon' = "round" /\ Idle
     ELSE /\ recon' = "site"
          /\ tries' = tries - 1
          /\ index' = SiteAfter(index)
          /\ UNCHANGED <<visited, info>>
  /\ UNCHANGED <<toVisit, siteMaps, marked, initSites, linkVars, siteHist>>
  /\ ReconKeeps

(* Of the nodes of a highly available table the one connected is index, but *)
(* the rows are asked of info.host_: both must be the leader.  The copy is  *)
(* put into the maps only when the topic has changed.                       *)
LeaderAnswers ==
  /\ recon = "leader" /\ tries > 0 /\ Serves(index) /\ info.host = index
  /\ ConnectSite(info)
  /\ IF index = visited
     THEN UNCHANGED siteMaps
     ELSE MovedTo(visited, index, Connected(info))
  /\ overwritten' = (overwritten \/ Changed(visited, info))
  /\ crossed' = (crossed \/ app = "erase")
  /\ recon' = "round"
  /\ Idle
  /\ UNCHANGED <<toVisit, marked, initSites, rowHist, left, stale, gaveUp>>
  /\ ReconKeeps

(* The error names the leader.                                              *)
Redirects == NotLeader(index) \/ (index \in up /\ index = leader /\ NotLeader(info.host))

LeaderRedirects ==
  /\ recon = "leader" /\ tries > 0 /\ Redirects
  /\ tries' = tries - 1
  /\ index' = leader
  /\ info' = [info EXCEPT !.host = leader]
  /\ UNCHANGED <<recon, visited, toVisit, siteMaps, marked, initSites, linkVars, siteHist>>
  /\ ReconKeeps

(* Any other error: one of haSites_ is next, at random.                     *)
LeaderFails(n) ==
  /\ recon = "leader" /\ tries > 0
  /\ ~Redirects /\ ~(Serves(index) /\ info.host = index)
  /\ info.haSites \/ n = index
  /\ tries' = tries - 1
  /\ index' = n
  /\ UNCHANGED <<recon, visited, toVisit, info, siteMaps, marked, initSites, linkVars, siteHist>>
  /\ ReconKeeps

LeaderNotFound ==
  /\ recon = "leader" /\ tries = 0
  /\ recon' = "round"
  /\ Idle
  /\ UNCHANGED <<toVisit, siteMaps, marked, initSites, linkVars, siteHist>>
  /\ ReconKeeps

EndRound ==
  /\ recon = "round" /\ toVisit = {}
  /\ recon' = "sleep"
  /\ UNCHANGED <<toVisit, visited, info, index, tries, siteMaps, marked, initSites, linkVars, siteHist>>
  /\ ReconKeeps

(* A subscription whose first attempt failed goes to the next site ...      *)
VisitInitSite ==
  /\ recon = "sleep" /\ initSites # <<>>
  /\ initSites' = Tail(initSites)
  /\ LET i == Head(initSites)
         next == (i.current + 1) % Len(i.sites)
     IN  info' = IF i.sites = <<>> THEN i
                 ELSE [i EXCEPT !.current = next, !.host = i.sites[next + 1]]
  /\ recon' = "init"
  /\ UNCHANGED <<toVisit, visited, index, tries, siteMaps, marked, linkVars, siteHist>>
  /\ ReconKeeps

InitTimesOut ==
  /\ Timeouts /\ recon = "sleep" /\ initSites # <<>>
  /\ initSites' = Tail(initSites)
  /\ gaveUp' = TRUE
  /\ UNCHANGED <<siteReconVars, siteMaps, marked, linkVars, rowHist, left, stale,
                 overwritten, crossed>>
  /\ ReconKeeps

(* ... and is entered under its topic; that of "" is kept.                  *)
InitResubConnects ==
  /\ recon = "init" /\ Serves(info.host)
  /\ ConnectSite(info)
  /\ InsertedInto(info.host, Connected(info))
  /\ crossed' = (crossed \/ app = "erase")
  /\ recon' = "sleep"
  /\ Idle
  /\ UNCHANGED <<toVisit, marked, initSites, rowHist, left, stale, overwritten, gaveUp>>
  /\ ReconKeeps

InitResubFails ==
  /\ recon = "init" /\ ~Serves(info.host)
  /\ initSites' = Append(initSites, IF NotLeader(info.host) THEN [info EXCEPT !.host = leader]
                                    ELSE info)
  /\ recon' = "sleep"
  /\ Idle
  /\ UNCHANGED <<toVisit, siteMaps, marked, linkVars, siteHist>>
  /\ ReconKeeps

-----------------------------------------------------------------------------
AppStep ==
  \/ Subscribes \/ SubscribeIsRedirected \/ SiteSubscribeFails \/ AddSiteHandleThread \/ EraseTopic

SiteReconnectStep ==
  \/ BeginRound \/ (\E t \in Topics : PassOver(t) \/ Visit(t))
  \/ NextSite \/ SiteAnswers \/ SiteFails
  \/ LeaderAnswers \/ LeaderRedirects \/ (\E n \in Nodes : LeaderFails(n)) \/ LeaderNotFound
  \/ EndRound \/ VisitInitSite \/ InitResubConnects \/ InitResubFails

SiteParseStep(c) == ReceiveSchema(c) \/ Lose(c) \/ StampSite(c) \/ MarkSite(c)

NodeStep ==
  \/ \E n \in Nodes : NodeFails(n) \/ NodeReturns(n) \/ Elect(n)
  \/ \E c \in Links : LinkFails(c)

SitesNext ==
  \/ CheckServerVersion \/ UnsubscribeSite \/ AppStep
  \/ SiteReconnectStep \/ InitTimesOut \/ (\E t \in Topics : GiveUp(t))
  \/ \E c \in Links : SiteParseStep(c) \/ ReceiveRow(c)
  \/ NodeStep

SitesSpec == SitesInit /\ [][SitesNext]_siteVars

(* Threads run, the resubscribeInterval of the topic is over again and      *)
(* again, a leader is elected, and rand() chooses a follower that is up     *)
(* again and again, after the first of the attempts too: it names the       *)
(* leader, whom to have chosen instead would not help.                      *)
SitesFairness ==
  /\ WF_siteVars(AppStep) /\ WF_siteVars(SiteReconnectStep)
  /\ SF_siteVars(BeginRound /\ topic \in toVisit')
  /\ SF_siteVars(VisitInitSite)
  /\ SF_siteVars(\E c \in Links : SiteParseStep(c))
  /\ WF_siteVars(\E n \in Nodes : Elect(n))
  /\ SF_siteVars(tries = 3 /\ \E n \in up \ {leader} : LeaderFails(n))

SitesFairSpec == SitesSpec /\ SitesFairness

-----------------------------------------------------------------------------
(* Properties *)

Rank == Nat \cup {-1}
SiteInfos ==
  [sites : Seq(Nodes), current : Rank, last : Rank, host : Nodes, offset : 0 .. MaxSiteRows,
   socket : 0 .. MaxLinks, haSites : BOOLEAN, threads : BOOLEAN]

SitesTypeOK ==
  /\ entry \in [Topics -> SiteInfos \cup {NoEntry, Invalid}] /\ info \in SiteInfos \cup {NoEntry}
  /\ initSites \in Seq(SiteInfos)
  /\ topic \in Topics \cup {NoTopic}
  /\ live \subseteq Topics /\ siteCnt \in [Topics -> Int]
  /\ marked \subseteq Nodes /\ toVisit \subseteq marked
  /\ up \subseteq Nodes /\ leader \in up \cup {NoNode}
  /\ parse \in [Links -> {"none", "read", "stamp", "mark", "done"}]

(* Whatever fails, and to whichever site or leader the subscription moves,  *)
(* its rows are consecutive: none is lost and none comes twice, unless the  *)
(* copy the reconnect thread works on replaces an entry that has advanced.  *)
RowsContinue == ~overwritten => inOrder

(* The ID of the subscription never leads to an entry operator[] has made,  *)
(* which has no queue, socket or sites, nor to none: unsubscribe() finds    *)
(* what it has to end.                                                      *)
FoundByID == topic # NoTopic => topic \in Entries

(* The subscription has the one entry its ID leads to, counted for its      *)
(* site, and that of "" it may have had first; one operator[] has made is   *)
(* not counted, so that nobody recovers its site.                           *)
OneEntry ==
  ~crossed /\ ~overwritten =>
    /\ Entries \subseteq {topic, Unknown}
    /\ live = Entries
    /\ \A t \in Topics : siteCnt[t] = IF t \in Entries THEN 1 ELSE 0

(* Its indices are those of its sites, which are those the application has  *)
(* named, with subOnce all but those it was moved away from, if it has      *)
(* named each of them once.                                                 *)
SitesRemain ==
  \A t \in Entries \ {Unknown} :
    LET i == entry[t]
    IN  ~ha => /\ i.current \in 0 .. Len(i.sites) - 1
               /\ i.last \in -1 .. Len(i.sites) - 1
               /\ IsInjective(given) =>
                    Range(i.sites) = Range(given) \ IF subOnce THEN left ELSE {}

(* After unsubscribe() no entry of it remains but that of "", unless a      *)
(* reconnection was under way, and no connection, unless the same leader    *)
(* was connected again, whose new socket is in no entry.  A mark that is    *)
(* left for the topic of a site given up, and makes the reconnect thread    *)
(* move the subscription away from it when it has come back, is excepted.   *)
(* An Invalid entry may remain, or come, for the topic of a connection that *)
(* was being lost: it is of no subscription and not in Entries.             *)
NothingRemains ==
  app = "ended" /\ ~crossed /\ ~overwritten /\ ~stale =>
    /\ Entries \subseteq {Unknown}
    /\ ha \/ \A c \in Links : ~conn[c].open

(* The rows of a subscription that moves are consecutive, whichever sites   *)
(* they come from, it has one entry, which its ID leads to, its sites are   *)
(* those that remain, and after unsubscribe() no entry of it does.          *)
SitesKept ==
  SitesTypeOK /\ RowsContinue /\ FoundByID /\ OneEntry /\ SitesRemain /\ NothingRemains

-----------------------------------------------------------------------------
(* The inductive invariant behind SitesKept. *)

NodeEntries == Entries \ {Unknown}
Copies == {"site", "try", "leader"}

(* Before subscribe() has entered the subscription there is nothing of it.  *)
NothingYet ==
  app \in {"new", "connect"} =>
    /\ linksMade = 0 /\ Entries = {} /\ topic = NoTopic /\ initSites = <<>>
    /\ live = {} /\ \A t \in Topics : siteCnt[t] = 0
    /\ recon = "sleep"

(* Before the first connection there is at most the entry of "" ...         *)
NoSiteYet ==
  linksMade = 0 =>
    /\ marked = {} /\ recon \in {"sleep", "init"}
    /\ Entries \subseteq {Unknown} /\ topic \in {Unknown, NoTopic}
    /\ awaited = 0 /\ inOrder /\ left = {}

(* ... and only then a subscription whose first attempt failed is tried.    *)
FirstAttempts ==
  /\ recon = "init" => initSites = <<>> /\ linksMade = 0
  /\ initSites # <<>> => Len(initSites) = 1 /\ linksMade = 0

(* What the variables of the threads are at a label.                        *)
SitesControl ==
  /\ given \in SiteLists /\ subOnce \in BOOLEAN
  /\ appHost \in Nodes /\ (~ha => appHost = 1) /\ (app = "erase" => appTopic \in Topics)
  /\ recon \in Copies \cup {"sleep", "round", "init"}
  /\ recon \in {"sleep", "round"} <=> info = NoInfo
  /\ recon \in Copies => visited \in Nodes
  /\ recon \in {"sleep", "init"} => toVisit = {}
  /\ recon \in {"site", "try"} => ~ha
  /\ recon = "leader" => ha /\ index \in Nodes
  /\ linksMade \in 0 .. MaxLinks
  /\ \A c \in Links :
       /\ conn[c].open => c <= linksMade
       /\ parse[c] \in {"read", "stamp", "mark"} => conn[c].node \in Nodes /\ c <= linksMade

(* The rows that arrive on a connection go on where its entry stands.       *)
LinkTypeOK ==
  conn \in [Links -> [node : Nodes \cup {NoNode}, open : BOOLEAN, met : BOOLEAN,
                      next : 0 .. MaxSiteRows]]

(* A subscription is on one node, and so is the copy that is worked on; and *)
(* a node serves it on one connection.                                      *)
OneNode ==
  /\ \A t, u \in NodeEntries : t = u
  /\ recon \in Copies => NodeEntries \subseteq {visited}
  /\ \A c, d \in Links :
       conn[c].open /\ conn[d].open /\ conn[c].node = conn[d].node => c = d

(* The entry and the connection of a node await the same row.               *)
RowsAwaited ==
  ~overwritten =>
    /\ inOrder
    /\ \A t \in NodeEntries : entry[t].offset = awaited
    /\ \A c \in Links :
         conn[c].open /\ conn[c].node \in NodeEntries => conn[c].next = awaited

(* The sites of an info, of which one is the node, or was when it was left. *)
SitesOf(i, node) ==
  IF ha THEN i.sites = <<>>
  ELSE /\ i.current \in 0 .. Len(i.sites) - 1
       /\ i.last \in -1 .. Len(i.sites) - 1
       /\ i.host = i.sites[i.current + 1]
       /\ ~subOnce => i.sites = given
       /\ subOnce /\ IsInjective(given) =>
            /\ IsInjective(i.sites) /\ Range(i.sites) = Range(given) \ left
            /\ i.sites[(IF i.last = -1 THEN i.current ELSE i.last) + 1] = node

(* A subscription that has not been connected has the sites it was given.   *)
Fresh(i) ==
  /\ i \in SiteInfos /\ i.sites = given /\ i.last = -1 /\ i.offset = 0
  /\ ~ha => i.current \in 0 .. Len(given) - 1 /\ i.host = given[i.current + 1]

SitesPlaced ==
  /\ \A t \in NodeEntries : SitesOf(entry[t], t)
  /\ recon \in {"site", "try"} =>
       /\ SitesOf(info, visited) /\ info.last # -1
       /\ index \in 0 .. Len(info.sites) - 1
  /\ recon = "try" => info.current = index
  /\ recon = "leader" => info.sites = <<>>
  /\ recon = "init" => Fresh(info)
  /\ initSites # <<>> => Fresh(initSites[1])

(* unsubscribe() erases the entry its ID leads to, or an attempt has moved  *)
(* it meanwhile.                                                            *)
EraseFinds ==
  /\ app = "erase" /\ ~crossed => appTopic = topic
  /\ app = "ended" /\ ~crossed /\ ~overwritten =>
       NodeEntries = {} /\ info = NoInfo /\ initSites = <<>>

(* The connection that is open is the one the entry has the socket of.      *)
SocketsKept ==
  ~ha /\ ~crossed /\ ~overwritten /\ ~stale =>
    \A c \in Links : conn[c].open =>
      /\ recon \notin {"site", "try"}
      /\ conn[c].node \in NodeEntries /\ entry[conn[c].node].socket = c

SitesInv ==
  /\ SitesTypeOK /\ LinkTypeOK /\ SitesControl
  /\ NothingYet /\ NoSiteYet /\ FirstAttempts /\ OneNode
  /\ FoundByID /\ RowsAwaited /\ OneEntry /\ SitesPlaced /\ EraseFinds /\ SocketsKept

-----------------------------------------------------------------------------
(* Liveness. *)

(* A marked subscription is connected again, when one of its sites is up in *)
(* the end, or a leader, unless it times out or is ended; the mark of an    *)
(* Invalid entry is nobody's, and passed over in every round.               *)
Sought == \E t \in marked \cap Entries : ~HasConnection(t)

SomeServes ==
  \A t \in Entries \ {Unknown} :
    IF ha THEN leader # NoNode ELSE \E k \in DOMAIN entry[t].sites : entry[t].sites[k] \in up

SiteFound ==
  <>[]SomeServes =>
    (Sought ~> \/ \E t \in Entries : HasConnection(t)
               \/ Entries \subseteq {Unknown} \/ gaveUp \/ stale \/ crossed)
=============================================================================
