---------------------------- MODULE DBConnection ----------------------------
(***************************************************************************)
(* A connection of the C++ API (src/src/DolphinDB.cpp, DolphinDBImp.cpp)   *)
(* and how it moves from node to node: connect() with a choice of the      *)
(* least loaded node, run() and upload() that are sent again on another    *)
(* node when the connection fails, and close() from another thread.        *)
(*                                                                         *)
(* The calls are made under mutex_, one at a time, and switchDataNode()    *)
(* calls run() for the initial script from within a call: the calls under  *)
(* way are a stack, of which the last one is running.  The servers are not *)
(* part of the code and are modelled as far as it relies on them.          *)
(***************************************************************************)
EXTENDS Integers, Sequences, FiniteSets

CONSTANTS
  NodeCount,    \* data nodes of the cluster
  Modes,        \* kinds of connection, a subset of ModeKinds
  HasScript,    \* whether initialScript_ is not empty
  HasClientId,  \* whether the server's version knows client ids
  MaxSeqNo,     \* the largest value of a long
  MaxRequests,  \* bound: calls of the application
  MaxFaults     \* bound: failures of links, nodes and requests

(* "plain": neither ha nor reconnect; "reconnect"; "ha".                    *)
ModeKinds == {"plain", "reconnect", "ha"}

ASSUME ConnectionAssumption ==
  /\ NodeCount \in Nat \ {0}
  /\ Modes \subseteq ModeKinds
  /\ HasScript \in BOOLEAN
  /\ HasClientId \in BOOLEAN
  /\ MaxSeqNo \in Nat \ {0}
  /\ MaxRequests \in Nat
  /\ MaxFaults \in Nat

Nodes == 1 .. NodeCount
NoNode == 0
Requests == 1 .. MaxRequests
Script == 0        \* the initial script, as a request

(* Answers: a number, that of the leader for a <NotLeader>.                 *)
NoAnswer == 0
Ok == -1
IOError == -2      \* no answer came
Unknown == -3      \* an error parseException() knows nothing of
NotAvail == -4     \* <DataNodeNotAvail> and the like
Refusals == {Unknown, NotAvail} \cup Nodes
Errors == {IOError} \cup Refusals

VARIABLES
  mode,         \* ha_ and reconnect_
  phase,        \* how far connect() is, or how it has ended
  closed,       \* closed_
  isConnected,  \* DBConnectionImpl::isConnected_
  clientId,     \* runClientId_ is not empty
  runSeqNo,     \* runSeqNo_
  lastIndex,    \* lastConnNodeIndex_
  stack,        \* calls under way, the running one last
  (* the link and the servers *)
  up,           \* the nodes that run
  link,         \* the node at the other end of a working link, or NoNode
  session,      \* sessions opened so far; the last one is the connection's
  wire,         \* requests sent and not yet seen by a server
  reply,        \* the answer the connection has yet to read
  seen,         \* numbers of the requests executed for the client id
  faults,       \* failures so far
  (* history *)
  requests,     \* calls of the application so far
  uploads,      \* those of them that are upload()
  outcome,      \* how each of them has ended
  ran,          \* times each of them was executed
  ranIn,        \* request and session of every execution
  scriptFailed  \* sessions in which the initial script was refused

connVars   == <<mode, phase, closed, isConnected, clientId, runSeqNo, lastIndex>>
serverVars == <<up, link, session, wire, reply, seen, faults>>
histVars   == <<requests, uploads, outcome, ran, ranIn, scriptFailed>>
vars == <<connVars, stack, serverVars, histVars>>

(* Sites in nodes_.                                                         *)
Sites == CASE mode = "plain" -> 0 [] mode = "reconnect" -> 1 [] OTHER -> NodeCount

-----------------------------------------------------------------------------
(* The stack.  A frame is connect(), a call ("run", "upload") or            *)
(* switchDataNode(); node is the node a frame dials or would dial first,    *)
(* first the one connect() has found, left the sites of a round yet to try. *)

Frame(kind, at) ==
  [kind |-> kind, at |-> at, req |-> Script, seq |-> 0, err |-> NoAnswer,
   host |-> NoNode, node |-> NoNode, left |-> 0]

Kinds == {"connect", "run", "upload", "switch"}

Running(kind, at) ==
  /\ stack # <<>>
  /\ stack[Len(stack)].kind = kind
  /\ stack[Len(stack)].at = at

Top == stack[Len(stack)]
Below == SubSeq(stack, 1, Len(stack) - 1)

(* The running frame becomes f, and calls those of the sequence callees.    *)
Continue(f) == stack' = Append(Below, f)
CallFrom(f, callee) == stack' = Below \o <<f, callee>>

(* A call of the application ends, or connect() does.                       *)
EndsBottom(result) ==
  IF stack[1].kind = "connect"
  THEN /\ phase' = IF result = "ok" THEN "ready" ELSE result
       /\ UNCHANGED outcome
  ELSE /\ outcome' = [outcome EXCEPT ![stack[1].req] = result]
       /\ UNCHANGED phase

Return(result) ==
  /\ stack' = Below
  /\ IF Below = <<>> THEN EndsBottom(result) ELSE UNCHANGED <<phase, outcome>>

(* No frame catches an exception thrown in another.                         *)
Throw ==
  /\ stack' = <<>>
  /\ EndsBottom("error")

(* DBConnection::nextSeqNo().                                               *)
NextSeqNo == IF runSeqNo < MaxSeqNo THEN runSeqNo + 1 ELSE 1

(* A run() of a request: its frame and its number.  Mutant: the number is   *)
(* used and not kept.                                                       *)
RunFrame(r) ==
  [Frame("run", "send") EXCEPT !.req = r,
                               !.seq = IF mode = "plain" THEN 0 ELSE NextSeqNo]
KeepSeqNo == runSeqNo' = runSeqNo
TakeSeqNo == runSeqNo' = IF mode = "plain" THEN runSeqNo ELSE NextSeqNo

SwitchFrame(host) == [Frame("switch", "host") EXCEPT !.host = host]

(* parseException(): the leader of <NotLeader>, and no host otherwise.      *)
HostOf(err) == IF err \in Nodes THEN err ELSE NoNode

-----------------------------------------------------------------------------
(* DBConnectionImpl *)

(* A request sent to the server whose answer is awaited, and the client id  *)
(* and the number sent with it when there are both.                         *)
Message(f) == [req |-> f.req, num |-> IF clientId THEN f.seq ELSE 0, in |-> session]

(* connect() closes first; another thread may close() while it dials.       *)
Dial(f, n) ==
  /\ isConnected' = FALSE
  /\ link' = NoNode
  /\ reply' = NoAnswer
  /\ Continue([f EXCEPT !.at = "dial", !.node = n])

(* The outcome of connect() to n.  It returns true as well when the link is *)
(* lost while it asks for the required version, with isConnected_ false.    *)
DialSucceeds(n) ==
  /\ n \in up
  /\ isConnected' = TRUE
  /\ link' = n
  /\ session' = session + 1
  /\ UNCHANGED faults
DialLost(n) ==
  /\ n \in up
  /\ faults < MaxFaults
  /\ faults' = faults + 1
  /\ UNCHANGED <<isConnected, link, session>>
DialFails(n) ==
  /\ n \notin up
  /\ UNCHANGED <<isConnected, link, session, faults>>

(* The query "1+1" of connected(): a link that is down is closed.           *)
Connected == isConnected /\ link # NoNode

(* A query of connect() whose answer changes no state of the server.        *)
QueryFails(err) ==
  \/ /\ ~Connected
     /\ err = IOError
     /\ isConnected' = FALSE
     /\ UNCHANGED faults
  \/ /\ Connected
     /\ err \in Refusals
     /\ faults < MaxFaults
     /\ faults' = faults + 1
     /\ UNCHANGED isConnected

-----------------------------------------------------------------------------
(* connect() *)

Init ==
  /\ mode \in Modes
  /\ phase = "connecting"
  /\ closed = FALSE
  /\ isConnected = FALSE
  /\ clientId = FALSE
  /\ runSeqNo = 0
  /\ lastIndex = 0
  /\ stack = <<Frame("connect", "start")>>
  /\ up = Nodes
  /\ link = NoNode
  /\ session = 0
  /\ wire = {}
  /\ reply = NoAnswer
  /\ seen = {}
  /\ faults = 0
  /\ requests = 0
  /\ uploads = {}
  /\ outcome = [r \in Requests |-> "none"]
  /\ ran = [r \in Requests |-> 0]
  /\ ranIn = {}
  /\ scriptFailed = {}

(* Without ha the host is dialled once, or, with reconnect, is the only     *)
(* site of a switchDataNode().                                              *)
ConnectPlain ==
  /\ Running("connect", "start")
  /\ mode = "plain"
  /\ IF closed
     THEN /\ Return("false")
          /\ UNCHANGED <<isConnected, link, reply>>
     ELSE Dial(Top, 1) /\ UNCHANGED <<phase, outcome>>
  /\ UNCHANGED <<mode, closed, clientId, runSeqNo, lastIndex, up, session, wire, seen,
                 faults, requests, uploads, ran, ranIn, scriptFailed>>

ConnectReconnect ==
  /\ Running("connect", "start")
  /\ mode = "reconnect"
  /\ CallFrom([Top EXCEPT !.at = "clientId"], SwitchFrame(NoNode))
  /\ UNCHANGED <<connVars, serverVars, histVars>>

(* With ha the sites are dialled in turn until one answers.                 *)
ConnectFirst ==
  /\ Running("connect", "start")
  /\ mode = "ha"
  /\ ~isConnected
  /\ ~closed
  /\ Dial([Top EXCEPT !.left = NodeCount - 1], 1)
  /\ UNCHANGED <<mode, phase, closed, clientId, runSeqNo, lastIndex, up, session, wire, seen,
                 faults, histVars>>

ConnectDialled ==
  /\ Running("connect", "dial")
  /\ LET n == Top.node IN
     \/ /\ DialSucceeds(n) \/ DialLost(n)
        /\ Continue([Top EXCEPT !.at = IF mode = "ha" THEN "start" ELSE "clientId",
                                !.host = n])
        /\ UNCHANGED <<phase, outcome>>
     \/ /\ DialFails(n)
        /\ IF mode = "plain"
           THEN Return("false")
           ELSE /\ Continue(IF Top.left = 0 \/ closed
                            THEN [Top EXCEPT !.at = "start"]
                            ELSE [Top EXCEPT !.node = n + 1, !.left = @ - 1])
                /\ UNCHANGED <<phase, outcome>>
  /\ UNCHANGED <<mode, closed, clientId, runSeqNo, lastIndex, up, wire, reply, seen,
                 requests, uploads, ran, ranIn, scriptFailed>>

(* closed while no node answers: the table of the nodes is a null pointer.  *)
ConnectClosed ==
  /\ Running("connect", "start")
  /\ mode = "ha"
  /\ closed
  /\ stack' = <<>>
  /\ phase' = "crashed"
  /\ UNCHANGED <<mode, closed, isConnected, clientId, runSeqNo, lastIndex, serverVars, histVars>>

(* getClusterPerf fails: the connection moves on, unless it works and the   *)
(* error is not one of those known, in which case the query is repeated.    *)
ClusterPerfFails ==
  /\ Running("connect", "start")
  /\ mode = "ha"
  /\ isConnected
  /\ ~closed
  /\ \E err \in Errors :
       /\ QueryFails(err)
       /\ IF Connected /\ err = Unknown
          THEN UNCHANGED stack
          ELSE CallFrom(Top, SwitchFrame(HostOf(err)))
  /\ UNCHANGED <<mode, phase, closed, clientId, runSeqNo, lastIndex, up, link, session, wire,
                 reply, seen, histVars>>

(* The loads of the nodes make any of them the lightest.  When it is not    *)
(* the one found first the connection moves there and connect() returns.    *)
ClusterPerf ==
  /\ Running("connect", "start")
  /\ mode = "ha"
  /\ ~closed
  /\ Connected
  /\ \E min \in Nodes :
       IF min = Top.host
       THEN /\ Continue([Top EXCEPT !.at = "clientId"])
            /\ UNCHANGED <<isConnected, link>>
       ELSE /\ isConnected' = FALSE
            /\ link' = NoNode
            /\ CallFrom([Top EXCEPT !.at = "return"], SwitchFrame(min))
  /\ UNCHANGED <<mode, phase, closed, clientId, runSeqNo, lastIndex, up, session, wire, reply,
                 seen, faults, histVars>>

ConnectReturns ==
  /\ Running("connect", "return")
  /\ Return("ok")
  /\ UNCHANGED <<mode, closed, isConnected, clientId, runSeqNo, lastIndex, serverVars,
                 requests, uploads, ran, ranIn, scriptFailed>>

(* initClientID() asks for the version, outside of any try, and gives the   *)
(* connection its id; then the initial script is run.                       *)
InitClientID ==
  /\ Running("connect", "clientId")
  /\ mode = "plain" \/ Connected
  /\ clientId' = (HasClientId /\ mode # "plain")
  /\ IF HasScript
     THEN /\ CallFrom([Top EXCEPT !.at = "return"], RunFrame(Script))
          /\ TakeSeqNo
     ELSE /\ Continue([Top EXCEPT !.at = "return"])
          /\ UNCHANGED runSeqNo
  /\ UNCHANGED <<mode, phase, closed, isConnected, lastIndex, serverVars, histVars>>

InitClientIDFails ==
  /\ Running("connect", "clientId")
  /\ mode # "plain"
  /\ \E err \in Errors : QueryFails(err)
  /\ Throw
  /\ UNCHANGED <<mode, closed, clientId, runSeqNo, lastIndex, up, link, session, wire, reply,
                 seen, requests, uploads, ran, ranIn, scriptFailed>>

-----------------------------------------------------------------------------
(* The next site of a round.  Mutant: the round does not move on.           *)
SameSite(i) == i
NextSite(i) == (i + 1) % Sites

(* Whether the initial script is run on a node the connection has moved to. *)
(* Mutant: on the first node only.                                          *)
ScriptOnce == FALSE
ScriptOnMove == HasScript

(* switchDataNode(): the host first, if there is one, then a round of the   *)
(* sites from the one after the last; connectNode() refuses when closed.    *)

SwitchDataNode ==
  /\ Running("switch", "host")
  /\ IF closed
     THEN /\ Return("ok")
          /\ UNCHANGED <<isConnected, lastIndex, link, reply>>
     ELSE IF Top.host # NoNode
     THEN /\ Dial([Top EXCEPT !.left = Sites], Top.host)
          /\ UNCHANGED <<phase, outcome, lastIndex>>
     ELSE LET next == NextSite(lastIndex) IN
          /\ lastIndex' = next
          /\ Dial([Top EXCEPT !.left = Sites - 1], next + 1)
          /\ UNCHANGED <<phase, outcome>>
  /\ UNCHANGED <<mode, closed, clientId, runSeqNo, up, session, wire, seen, faults,
                 requests, uploads, ran, ranIn, scriptFailed>>

(* Connected: the initial script is run before the caller goes on.          *)
SwitchConnected ==
  /\ Running("switch", "dial")
  /\ DialSucceeds(Top.node) \/ DialLost(Top.node)
  /\ IF ScriptOnMove
     THEN /\ CallFrom([Top EXCEPT !.at = "return"], RunFrame(Script))
          /\ TakeSeqNo
     ELSE /\ Continue([Top EXCEPT !.at = "return"])
          /\ UNCHANGED runSeqNo
  /\ UNCHANGED <<mode, phase, closed, clientId, lastIndex, up, wire, reply, seen, histVars>>

SwitchNext ==
  /\ Running("switch", "dial")
  /\ DialFails(Top.node)
  /\ IF closed \/ Top.left = 0
     THEN /\ Continue([Top EXCEPT !.at = "host"])
          /\ UNCHANGED lastIndex
     ELSE LET next == NextSite(lastIndex) IN
          /\ lastIndex' = next
          /\ Continue([Top EXCEPT !.left = @ - 1, !.node = next + 1])
  /\ UNCHANGED <<mode, phase, closed, clientId, runSeqNo, up, wire, reply, seen, histVars>>

SwitchReturns ==
  /\ Running("switch", "return")
  /\ Return("ok")
  /\ UNCHANGED <<mode, closed, isConnected, clientId, runSeqNo, lastIndex, serverVars,
                 requests, uploads, ran, ranIn, scriptFailed>>

-----------------------------------------------------------------------------
(* run() and upload() *)

(* A call of the application; an upload has no number.                      *)
Call(kind) ==
  /\ stack = <<>>
  /\ phase = "ready"
  /\ requests < MaxRequests
  /\ requests' = requests + 1
  /\ IF kind = "run"
     THEN /\ stack' = <<RunFrame(requests + 1)>>
          /\ TakeSeqNo
          /\ UNCHANGED uploads
     ELSE /\ stack' = <<[Frame("upload", "send") EXCEPT !.req = requests + 1]>>
          /\ uploads' = uploads \cup {requests + 1}
          /\ UNCHANGED runSeqNo
  /\ UNCHANGED <<mode, phase, closed, isConnected, clientId, lastIndex, serverVars,
                 outcome, ran, ranIn, scriptFailed>>

Calling(at) == Running("run", at) \/ Running("upload", at)

(* A connection with other nodes to go to gives up only when it is closed:  *)
(* the call returns a null pointer.                                         *)
CallClosed ==
  /\ Calling("send")
  /\ mode # "plain"
  /\ closed
  /\ Return("null")
  /\ UNCHANGED <<mode, closed, isConnected, clientId, runSeqNo, lastIndex, serverVars,
                 requests, uploads, ran, ranIn, scriptFailed>>

Send ==
  /\ Calling("send")
  /\ mode = "plain" \/ ~closed
  /\ IF Connected
     THEN /\ wire' = wire \cup {Message(Top)}
          /\ reply' = NoAnswer
          /\ Continue([Top EXCEPT !.at = "reply"])
          /\ UNCHANGED isConnected
     ELSE /\ isConnected' = FALSE
          /\ Continue([Top EXCEPT !.at = "caught", !.err = IOError])
          /\ UNCHANGED <<wire, reply>>
  /\ UNCHANGED <<mode, phase, closed, clientId, runSeqNo, lastIndex, up, link, session,
                 seen, faults, histVars>>

(* The answer is read; an error of the server leaves the connection open.   *)
Receive ==
  /\ Calling("reply")
  /\ reply # NoAnswer
  /\ reply' = NoAnswer
  /\ IF reply = Ok
     THEN Return("ok")
     ELSE /\ Continue([Top EXCEPT !.at = "caught", !.err = reply])
          /\ UNCHANGED <<phase, outcome>>
  /\ UNCHANGED <<mode, closed, isConnected, clientId, runSeqNo, lastIndex, up, link, session,
                 wire, seen, faults, requests, uploads, ran, ranIn, scriptFailed>>

ReceiveFails ==
  /\ Calling("reply")
  /\ reply = NoAnswer
  /\ link = NoNode
  /\ isConnected' = FALSE
  /\ Continue([Top EXCEPT !.at = "caught", !.err = IOError])
  /\ UNCHANGED <<mode, phase, closed, clientId, runSeqNo, lastIndex, serverVars, histVars>>

(* The handler of IOException: an unknown error of a connection that works  *)
(* is the caller's; otherwise the call is made again elsewhere, a run()     *)
(* under its number negated.  Mutant: under none.                           *)
Rethrow ==
  /\ Calling("caught")
  /\ mode = "plain" \/ (Connected /\ Top.err = Unknown)
  /\ Throw
  /\ UNCHANGED <<mode, closed, isConnected, clientId, runSeqNo, lastIndex, serverVars,
                 requests, uploads, ran, ranIn, scriptFailed>>

AgainWithout(f) == [f EXCEPT !.at = "send", !.err = NoAnswer, !.seq = 0]
Again(f) == [f EXCEPT !.at = "send", !.err = NoAnswer, !.seq = IF @ > 0 THEN -@ ELSE @]

TryElsewhere ==
  /\ Calling("caught")
  /\ mode # "plain"
  /\ ~(Connected /\ Top.err = Unknown)
  /\ isConnected' = Connected
  /\ CallFrom(Again(Top), SwitchFrame(HostOf(Top.err)))
  /\ UNCHANGED <<mode, phase, closed, clientId, runSeqNo, lastIndex, serverVars, histVars>>

(* close(), which takes no lock.                                            *)
Close ==
  /\ ~closed
  /\ closed' = TRUE
  /\ isConnected' = FALSE
  /\ link' = IF isConnected THEN NoNode ELSE link
  /\ UNCHANGED <<mode, phase, clientId, runSeqNo, lastIndex, stack, up, session, wire, reply,
                 seen, faults, histVars>>

-----------------------------------------------------------------------------
(* The servers, as run() relies on them: a request that carries a number is *)
(* executed once for each number, whatever its sign and the node it reaches.*)
(* A request may be executed after the link it was sent on has failed.      *)

Number(m) == IF m.num < 0 THEN -m.num ELSE m.num
Awaited(m) == m.in = session /\ link # NoNode
Answer(m, a) == reply' = IF Awaited(m) THEN a ELSE reply

Execute(m) ==
  /\ m \in wire
  /\ wire' = wire \ {m}
  /\ Answer(m, Ok)
  /\ IF m.num # 0 /\ Number(m) \in seen
     THEN UNCHANGED <<seen, ran, ranIn>>
     ELSE /\ seen' = IF m.num = 0 THEN seen ELSE seen \cup {Number(m)}
          /\ ran' = IF m.req = Script THEN ran ELSE [ran EXCEPT ![m.req] = @ + 1]
          /\ ranIn' = ranIn \cup {<<m.req, m.in>>}
  /\ UNCHANGED <<connVars, stack, up, link, session, faults, requests, uploads, outcome, scriptFailed>>

Refuse(m) ==
  /\ m \in wire
  /\ Awaited(m)
  /\ faults < MaxFaults
  /\ faults' = faults + 1
  /\ wire' = wire \ {m}
  /\ \E err \in Refusals : Answer(m, err)
  /\ scriptFailed' = IF m.req = Script THEN scriptFailed \cup {m.in} ELSE scriptFailed
  /\ UNCHANGED <<connVars, stack, up, link, session, seen, requests, uploads, outcome, ran, ranIn>>

(* A request on a failed link need not arrive.                              *)
Vanish(m) ==
  /\ m \in wire
  /\ ~Awaited(m)
  /\ wire' = wire \ {m}
  /\ UNCHANGED <<connVars, stack, up, link, session, reply, seen, faults, histVars>>

LinkFails ==
  /\ link # NoNode
  /\ faults < MaxFaults
  /\ faults' = faults + 1
  /\ link' = NoNode
  /\ UNCHANGED <<connVars, stack, up, session, wire, reply, seen, histVars>>

(* A node stops, for good, and not the last one the connection can go to.   *)
NodeStops(n) ==
  /\ n \in up
  /\ up \cap 1 .. Sites # {n}
  /\ faults < MaxFaults
  /\ faults' = faults + 1
  /\ up' = up \ {n}
  /\ link' = IF link = n THEN NoNode ELSE link
  /\ UNCHANGED <<connVars, stack, session, wire, reply, seen, histVars>>

-----------------------------------------------------------------------------
(* The specification *)

ConnectStep ==
  \/ ConnectPlain \/ ConnectReconnect \/ ConnectFirst \/ ConnectDialled
  \/ ConnectClosed \/ ClusterPerfFails \/ ClusterPerf \/ ConnectReturns
  \/ InitClientID \/ InitClientIDFails

SwitchStep == SwitchDataNode \/ SwitchConnected \/ SwitchNext \/ SwitchReturns

CallStep == CallClosed \/ Send \/ Receive \/ ReceiveFails \/ Rethrow \/ TryElsewhere

ClientStep == ConnectStep \/ SwitchStep \/ CallStep

ServerStep == \E m \in wire : Execute(m) \/ Refuse(m) \/ Vanish(m)

Next ==
  \/ ClientStep
  \/ ServerStep
  \/ \E kind \in {"run", "upload"} : Call(kind)
  \/ Close
  \/ LinkFails
  \/ \E n \in Nodes : NodeStops(n)

Spec == Init /\ [][Next]_vars

(* The thread that makes the calls runs, and a server answers a request     *)
(* that has reached it while the link works.                                *)
FairSpec ==
  /\ Spec
  /\ WF_vars(ClientStep)
  /\ WF_vars(\E m \in wire : Awaited(m) /\ Execute(m))

-----------------------------------------------------------------------------
(* Properties *)

FrameType ==
  [kind : Kinds, at : {"start", "dial", "clientId", "return", "host", "send", "reply", "caught"},
   req : Requests \cup {Script}, seq : -MaxSeqNo .. MaxSeqNo, err : Errors \cup {NoAnswer},
   host : Nodes \cup {NoNode}, node : Nodes \cup {NoNode}, left : 0 .. NodeCount]

(* The types, and the shape of the stack: connect() or a call at the        *)
(* bottom, and above it switchDataNode() and the runs of the initial script *)
(* by turns, but for the script connect() runs itself.                      *)
TypeOK ==
  /\ mode \in Modes
  /\ phase \in {"connecting", "ready", "false", "error", "crashed", "null"}
  /\ closed \in BOOLEAN /\ isConnected \in BOOLEAN /\ clientId \in BOOLEAN
  /\ runSeqNo \in 0 .. MaxSeqNo
  /\ lastIndex \in 0 .. NodeCount - 1
  /\ stack \in Seq(FrameType)
  /\ \A i \in DOMAIN stack :
       /\ stack[i].kind = "connect" => i = 1 /\ phase = "connecting"
       /\ stack[i].kind = "upload" => i = 1
       /\ i > 1 /\ stack[i].kind = "switch" => stack[i - 1].kind # "switch"
       /\ i > 1 /\ stack[i].kind = "run" =>
            stack[i].req = Script /\ stack[i - 1].kind \in {"switch", "connect"}
  /\ up \subseteq Nodes
  /\ link \in up \cup {NoNode}
  /\ session \in Nat
  /\ \A m \in wire : m.in \in 1 .. session
  /\ reply \in Refusals \cup {NoAnswer, Ok}
  /\ seen \subseteq 1 .. runSeqNo
  /\ faults \in 0 .. MaxFaults
  /\ requests \in 0 .. MaxRequests
  /\ uploads \subseteq 1 .. requests
  /\ outcome \in [Requests -> {"none", "ok", "error", "null"}]
  /\ ran \in [Requests -> Nat]

(* A run() is executed once at most, however often it is sent and to        *)
(* whichever nodes, and even if a server reads a request after the link it  *)
(* came on has failed, provided that connect() has set a client id: it does *)
(* not when it moves to a lighter node.                                     *)
NumberedRunsOnce ==
  clientId => \A r \in Requests \ uploads : ran[r] <= 1

(* A call that returns an answer has been executed: its answer is not that  *)
(* of another request that had its number.                                  *)
AnsweredIsExecuted ==
  \A r \in Requests : outcome[r] = "ok" => ran[r] >= 1

(* Its calls are nested as they may be, and their answers are their own.    *)
AnswersAreTrue == TypeOK /\ AnsweredIsExecuted

(* On every node the connection goes to, however often it fails while it    *)
(* moves, the initial script is executed before any call of the             *)
(* application, except on a session whose server has refused the script:    *)
(* the call that has moved there throws, and the next ones run without it.  *)
ScriptFirst ==
  HasScript =>
    \A e \in ranIn :
      e[1] # Script => <<Script, e[2]>> \in ranIn \/ e[2] \in scriptFailed

(* connect(), and every call, ends: one of the nodes runs, or the           *)
(* application closes the connection.                                       *)
CallsEnd == stack # <<>> ~> stack = <<>>
=============================================================================
