-------------------------- MODULE DBConnectionProofs --------------------------
(***************************************************************************)
(* Proofs about DBConnection, for any cluster, number of calls and number  *)
(* of failures: a numbered call is executed once at most; and, until the   *)
(* numbers have come to the largest long, a call that returns an answer    *)
(* was executed, the calls are nested as they may be, and the initial      *)
(* script is executed first on every node.                                 *)
(***************************************************************************)
EXTENDS DBConnection, TLAPS

(* What a frame may be, by its kind.                                        *)
Labels == [kind \in Kinds |->
             CASE kind = "connect" -> {"start", "dial", "clientId", "return"}
               [] kind = "switch"  -> {"host", "dial", "return"}
               [] OTHER            -> {"send", "reply", "caught"}]

FrameOK(f) ==
  /\ f \in FrameType
  /\ f.at \in Labels[f.kind]
  /\ f.at = "dial" => f.node \in Nodes
  /\ f.kind = "connect" /\ f.at = "dial" => f.node + f.left <= NodeCount
  /\ f.kind = "connect" /\ mode = "plain" => f.left = 0
  /\ f.kind = "switch" => mode # "plain"
  /\ f.kind = "run" => (f.seq = 0 <=> mode = "plain")
  /\ f.kind # "run" => f.seq = 0

(* Frame f may be called by the frame below, or by nothing.                 *)
MayCall(below, f) ==
  CASE f.kind = "switch" -> below.kind # "switch"
    [] f.kind = "run"    -> below.kind \in {"switch", "connect"} /\ f.req = Script
    [] OTHER             -> FALSE

StackShape ==
  /\ stack \in Seq(FrameType)
  /\ stack # <<>> => stack[1].kind # "switch"
  /\ \A i \in 1 .. Len(stack) : FrameOK(stack[i]) /\ (i > 1 => MayCall(stack[i - 1], stack[i]))

PhaseShape ==
  /\ phase = "connecting" <=> (stack # <<>> /\ stack[1].kind = "connect")
  /\ phase = "connecting" => requests = 0
  /\ stack # <<>> /\ stack[1].kind # "connect" =>
       /\ phase = "ready"
       /\ requests > 0 /\ stack[1].req = requests
       /\ stack[1].kind = "upload" <=> requests \in uploads
  /\ clientId => mode # "plain"

ConnTypeOK ==
  /\ mode \in Modes
  /\ phase \in {"connecting", "ready", "false", "error", "crashed", "null"}
  /\ closed \in BOOLEAN /\ isConnected \in BOOLEAN /\ clientId \in BOOLEAN
  /\ runSeqNo \in 0 .. MaxSeqNo
  /\ lastIndex \in 0 .. NodeCount - 1
  /\ mode # "plain" => lastIndex < Sites

ServerTypeOK ==
  /\ up \subseteq Nodes
  /\ link \in up \cup {NoNode}
  /\ link # NoNode => isConnected /\ session > 0
  /\ session \in Nat
  /\ wire \subseteq [req : 0 .. requests, num : -MaxSeqNo .. MaxSeqNo, in : 1 .. session]
  /\ reply \in Refusals \cup {NoAnswer, Ok}
  /\ seen \subseteq 1 .. MaxSeqNo
  /\ faults \in 0 .. MaxFaults

HistTypeOK ==
  /\ requests \in 0 .. MaxRequests
  /\ uploads \subseteq 1 .. requests
  /\ outcome \in [Requests -> {"none", "ok", "error", "null"}]
  /\ ran \in [Requests -> Nat]
  /\ \A r \in Requests : r > requests => ran[r] = 0

(* A request a server has yet to answer is that of the running call.        *)
OneAwaited ==
  \A m \in wire :
    Awaited(m) => reply = NoAnswer /\ Calling("reply") /\ m = Message(Top)

StackInv == ConnTypeOK /\ StackShape /\ PhaseShape /\ ServerTypeOK /\ HistTypeOK /\ OneAwaited

-----------------------------------------------------------------------------
(* The requests that are or may be sent under a number, with it.            *)
SizeOf(n) == IF n < 0 THEN -n ELSE n

Tagged ==
  {<<m.req, Number(m)>> : m \in {w \in wire : w.num # 0}} \cup
  {<<stack[i].req, SizeOf(stack[i].seq)>> : i \in {j \in 1 .. Len(stack) : stack[j].seq # 0}}

(* A call keeps its number, and once executed has it on the servers' list.  *)
TagsOfCalls ==
  /\ \A a \in Tagged : a[1] \in 0 .. requests /\ a[2] \in 1 .. MaxSeqNo
  /\ \A a, b \in Tagged : a[1] = b[1] /\ a[1] # Script => a[2] = b[2]

ExecutedOnce ==
  clientId =>
    /\ \A m \in wire : m.req \notin uploads \cup {Script} => m.num # 0
    /\ \A r \in Requests \ uploads :
         /\ ran[r] <= 1
         /\ ran[r] = 1 => \A a \in Tagged : a[1] = r => a[2] \in seen

OnceInv == StackInv /\ TagsOfCalls /\ ExecutedOnce

-----------------------------------------------------------------------------
(* Without a wrap of the numbers a number is that of one request.           *)
OwnNumbers ==
  /\ seen \subseteq 1 .. runSeqNo
  /\ \A a \in Tagged : a[2] <= runSeqNo
  /\ \A a, b \in Tagged : a[2] = b[2] => a[1] = b[1]
  /\ \A a \in Tagged : a[1] # Script /\ a[2] \in seen => ran[a[1]] >= 1

(* An answer is there for the call that waits for it only.                  *)
AnswerExecuted ==
  reply # NoAnswer =>
    /\ Calling("reply")
    /\ reply = Ok /\ Top.req # Script => ran[Top.req] >= 1

Scripted(s) == <<Script, s>> \in ranIn \/ s \in scriptFailed

(* The initial script is about to be sent, or has been, and no server has   *)
(* seen its number, nor will but the one it is sent to now.                 *)
ScriptPending ==
  /\ Running("run", "send") \/ (Running("run", "reply") /\ reply = NoAnswer)
  /\ Top.req = Script
  /\ SizeOf(Top.seq) \notin seen
  /\ \A m \in wire : m.num # 0 /\ Number(m) = SizeOf(Top.seq) =>
                       m.in = session /\ Running("run", "reply")

BeforeScript ==
  \/ Running("connect", "start") \/ Running("connect", "dial")
  \/ Running("connect", "clientId") \/ Running("switch", "host")

MayGoOn == (mode = "plain" \/ ~closed) /\ phase \in {"connecting", "ready"}

ScriptInv ==
  HasScript =>
    /\ \A m \in wire : m.req # Script => Scripted(m.in)
    /\ \A e \in ranIn : e[1] # Script => Scripted(e[2])
    /\ link # NoNode /\ MayGoOn => Scripted(session) \/ BeforeScript \/ ScriptPending

AnswerInv == OwnNumbers /\ AnswerExecuted /\ AnsweredIsExecuted /\ ScriptInv

(* The numbers have not come to the largest long.                           *)
NumbersLast == runSeqNo < MaxSeqNo

-----------------------------------------------------------------------------
(* Frames and the stack of them.                                            *)

LEMMA FrameFields ==
  ASSUME NEW f, FrameOK(f)
  PROVE  /\ f \in FrameType /\ f.kind \in Kinds /\ f.at \in Labels[f.kind]
         /\ f.req \in 0 .. MaxRequests /\ f.seq \in -MaxSeqNo .. MaxSeqNo
         /\ f.err \in Errors \cup {NoAnswer} /\ f.host \in Nodes \cup {NoNode}
         /\ f.node \in Nodes \cup {NoNode} /\ f.left \in 0 .. NodeCount
BY ConnectionAssumption DEF FrameOK, FrameType, Requests, Script

LEMMA SitesFacts ==
  ASSUME ConnTypeOK, mode # "plain"
  PROVE  /\ Sites \in 1 .. NodeCount
         /\ NextSite(lastIndex) \in 0 .. Sites - 1
         /\ NextSite(lastIndex) + 1 \in Nodes
<1>1. mode \in {"reconnect", "ha"} /\ NodeCount \in Nat \ {0} /\ lastIndex \in Nat
  BY ConnectionAssumption DEF ConnTypeOK, ModeKinds
<1>2. Sites \in 1 .. NodeCount
  BY <1>1 DEF Sites
<1>3. \A k \in Nat, s \in Nat \ {0} : k % s \in 0 .. s - 1
  OBVIOUS
<1>4. NextSite(lastIndex) \in 0 .. Sites - 1
  BY <1>1, <1>2, <1>3 DEF NextSite
<1>5. QED
  BY <1>1, <1>2, <1>4 DEF Nodes

LEMMA RunFrameOK ==
  ASSUME ConnTypeOK, NEW r \in 0 .. MaxRequests
  PROVE  /\ FrameOK(RunFrame(r)) /\ RunFrame(r).kind = "run" /\ RunFrame(r).at = "send"
         /\ RunFrame(r).req = r
         /\ RunFrame(r).seq = IF mode = "plain" THEN 0 ELSE NextSeqNo
<1>1. NextSeqNo \in 1 .. MaxSeqNo
  BY ConnectionAssumption DEF ConnTypeOK, NextSeqNo
<1> DEFINE seq == IF mode = "plain" THEN 0 ELSE NextSeqNo
<1>2. RunFrame(r) = [kind |-> "run", at |-> "send", req |-> r, seq |-> seq, err |-> NoAnswer,
                     host |-> NoNode, node |-> NoNode, left |-> 0]
  <2>1. RunFrame(r) = [Frame("run", "send") EXCEPT !.req = r, !.seq = seq]
    BY DEF RunFrame
  <2> HIDE DEF seq
  <2>2. QED
    BY <2>1 DEF Frame
<1>3. "run" \in Kinds /\ Labels["run"] = {"send", "reply", "caught"}
  BY DEF Kinds, Labels
<1>4. RunFrame(r) \in FrameType
  BY <1>1, <1>2, <1>3, ConnectionAssumption DEF FrameType, Requests, Script
<1>5. QED
  BY <1>1, <1>2, <1>3, <1>4 DEF FrameOK

LEMMA OtherFrameOK ==
  ASSUME ConnTypeOK
  PROVE  /\ \A h \in Nodes \cup {NoNode} : mode # "plain" =>
              /\ FrameOK(SwitchFrame(h)) /\ SwitchFrame(h).kind = "switch"
              /\ SwitchFrame(h).at = "host" /\ SwitchFrame(h).seq = 0
              /\ SwitchFrame(h).req = Script
         /\ \A r \in 0 .. MaxRequests :
              LET f == [Frame("upload", "send") EXCEPT !.req = r]
              IN  FrameOK(f) /\ f.kind = "upload" /\ f.at = "send" /\ f.seq = 0 /\ f.req = r
         /\ FrameOK(Frame("connect", "start"))
<1>1. /\ "switch" \in Kinds /\ Labels["switch"] = {"host", "dial", "return"}
      /\ "upload" \in Kinds /\ Labels["upload"] = {"send", "reply", "caught"}
      /\ "connect" \in Kinds /\ Labels["connect"] = {"start", "dial", "clientId", "return"}
  BY DEF Kinds, Labels
<1>2. MaxSeqNo \in Nat /\ NodeCount \in Nat
  BY ConnectionAssumption
<1>3. ASSUME NEW h \in Nodes \cup {NoNode}, mode # "plain"
      PROVE  /\ FrameOK(SwitchFrame(h)) /\ SwitchFrame(h).kind = "switch"
             /\ SwitchFrame(h).at = "host" /\ SwitchFrame(h).seq = 0
             /\ SwitchFrame(h).req = Script
  <2>1. SwitchFrame(h) = [kind |-> "switch", at |-> "host", req |-> Script, seq |-> 0,
                          err |-> NoAnswer, host |-> h, node |-> NoNode, left |-> 0]
    BY DEF SwitchFrame, Frame
  <2>2. SwitchFrame(h) \in FrameType
    BY <1>1, <1>2, <2>1 DEF FrameType
  <2>3. QED
    BY <1>1, <1>3, <2>1, <2>2 DEF FrameOK
<1>4. ASSUME NEW r \in 0 .. MaxRequests
      PROVE  LET f == [Frame("upload", "send") EXCEPT !.req = r]
             IN  FrameOK(f) /\ f.kind = "upload" /\ f.at = "send" /\ f.seq = 0 /\ f.req = r
  <2> DEFINE f == [Frame("upload", "send") EXCEPT !.req = r]
  <2>1. f = [kind |-> "upload", at |-> "send", req |-> r, seq |-> 0,
             err |-> NoAnswer, host |-> NoNode, node |-> NoNode, left |-> 0]
    BY DEF Frame
  <2>2. f \in FrameType
    BY <1>1, <1>2, <2>1, ConnectionAssumption DEF FrameType, Requests, Script
  <2>3. QED
    BY <1>1, <2>1, <2>2 DEF FrameOK
<1>5. FrameOK(Frame("connect", "start"))
  <2>1. Frame("connect", "start") \in FrameType
    BY <1>1, <1>2 DEF FrameType, Frame
  <2>2. QED
    BY <1>1, <2>1 DEF FrameOK, Frame
<1>6. QED
  BY <1>3, <1>4, <1>5

(* What the operations on the stack make of it.                             *)
AllBut(s) == SubSeq(s, 1, Len(s) - 1)

LEMMA SequenceFacts ==
  ASSUME NEW s \in Seq(FrameType), s # <<>>, NEW f \in FrameType, NEW g \in FrameType
  PROVE  /\ Len(s) \in Nat /\ Len(s) > 0 /\ \A i \in 1 .. Len(s) : s[i] \in FrameType
         /\ AllBut(s) \in Seq(FrameType) /\ Len(AllBut(s)) = Len(s) - 1
         /\ \A i \in 1 .. Len(s) - 1 : AllBut(s)[i] = s[i]
         /\ Append(AllBut(s), f) \in Seq(FrameType) /\ Len(Append(AllBut(s), f)) = Len(s)
         /\ \A i \in 1 .. Len(s) : Append(AllBut(s), f)[i] = IF i = Len(s) THEN f ELSE s[i]
         /\ AllBut(s) \o <<f, g>> \in Seq(FrameType) /\ Len(AllBut(s) \o <<f, g>>) = Len(s) + 1
         /\ \A i \in 1 .. Len(s) + 1 : (AllBut(s) \o <<f, g>>)[i] =
                IF i = Len(s) + 1 THEN g ELSE IF i = Len(s) THEN f ELSE s[i]
<1> DEFINE n == Len(s)
           b == SubSeq(s, 1, n - 1)
<1>1. n \in Nat /\ n > 0 /\ \A i \in 1 .. n : s[i] \in FrameType
  OBVIOUS
<1>2. b \in Seq(FrameType) /\ Len(b) = n - 1 /\ \A i \in 1 .. n - 1 : b[i] = s[i]
  <2>1. n - 1 \in Nat /\ n - 1 <= Len(s)
    BY <1>1
  <2>2. QED
    BY <2>1
<1>3. <<f, g>> \in Seq(FrameType) /\ Len(<<f, g>>) = 2 /\ <<f, g>>[1] = f /\ <<f, g>>[2] = g
  OBVIOUS
<1>4. b = AllBut(s)
  BY DEF AllBut
<1> HIDE DEF b, n
<1>5. /\ Append(b, f) \in Seq(FrameType) /\ Len(Append(b, f)) = n
      /\ \A i \in 1 .. n : Append(b, f)[i] = IF i = n THEN f ELSE s[i]
  BY <1>1, <1>2
<1>6. /\ b \o <<f, g>> \in Seq(FrameType) /\ Len(b \o <<f, g>>) = n + 1
      /\ \A i \in 1 .. n + 1 : (b \o <<f, g>>)[i] =
           IF i = n + 1 THEN g ELSE IF i = n THEN f ELSE s[i]
  <2>1. b \o <<f, g>> \in Seq(FrameType) /\ Len(b \o <<f, g>>) = n + 1
    BY <1>1, <1>2, <1>3
  <2>2. \A i \in 1 .. n + 1 : (b \o <<f, g>>)[i] = IF i <= n - 1 THEN b[i] ELSE <<f, g>>[i - (n - 1)]
    BY <1>1, <1>2, <1>3
  <2>3. QED
    BY <1>1, <1>2, <1>3, <2>1, <2>2
<1>7. QED
  BY <1>1, <1>2, <1>4, <1>5, <1>6 DEF n

LEMMA BelowFacts ==
  ASSUME stack \in Seq(FrameType), stack # <<>>, NEW f \in FrameType, NEW g \in FrameType
  PROVE  /\ Len(stack) \in Nat /\ Len(stack) > 0 /\ \A i \in 1 .. Len(stack) : stack[i] \in FrameType
         /\ Below \in Seq(FrameType) /\ Len(Below) = Len(stack) - 1
         /\ \A i \in 1 .. Len(stack) - 1 : Below[i] = stack[i]
         /\ Append(Below, f) \in Seq(FrameType) /\ Len(Append(Below, f)) = Len(stack)
         /\ \A i \in 1 .. Len(stack) : Append(Below, f)[i] = IF i = Len(stack) THEN f ELSE stack[i]
         /\ Below \o <<f, g>> \in Seq(FrameType) /\ Len(Below \o <<f, g>>) = Len(stack) + 1
         /\ \A i \in 1 .. Len(stack) + 1 : (Below \o <<f, g>>)[i] =
                IF i = Len(stack) + 1 THEN g ELSE IF i = Len(stack) THEN f ELSE stack[i]
<1>1. Below = AllBut(stack)
  BY DEF Below, AllBut
<1>2. QED
  BY <1>1, SequenceFacts

LEMMA TopFacts ==
  ASSUME StackShape, stack # <<>>
  PROVE  /\ Len(stack) \in Nat /\ Len(stack) > 0
         /\ FrameOK(Top) /\ Top \in FrameType /\ Top.kind \in Kinds /\ Top.at \in Labels[Top.kind]
         /\ Top.kind \in {"connect", "upload"} => Len(stack) = 1
         /\ Top.kind = "switch" => Len(stack) > 1
         /\ Top.kind = "run" /\ Len(stack) > 1 => Top.req = Script
<1>1. Len(stack) \in Nat /\ Len(stack) > 0
  BY DEF StackShape
<1>2. FrameOK(Top) /\ (Len(stack) > 1 => MayCall(stack[Len(stack) - 1], Top))
  BY <1>1 DEF StackShape, Top
<1>3. Top.kind = "switch" => Len(stack) > 1
  BY <1>1 DEF StackShape, Top
<1>4. Top \in FrameType /\ Top.kind \in Kinds /\ Top.at \in Labels[Top.kind]
  BY <1>2, FrameFields
<1>5. \A f, g : MayCall(f, g) => g.kind \in {"switch", "run"} /\ (g.kind = "run" => g.req = Script)
  BY DEF MayCall
<1>6. Len(stack) > 1 => Top.kind \in {"switch", "run"} /\ (Top.kind = "run" => Top.req = Script)
  BY <1>2, <1>5
<1>7. Top.kind \in {"connect", "upload"} => Len(stack) = 1
  <2>1. Top.kind \in {"connect", "upload"} => ~(Len(stack) > 1)
    BY <1>6
  <2>2. \A n \in Nat : n > 0 => n > 1 \/ n = 1
    OBVIOUS
  <2>3. QED
    BY <1>1, <2>1, <2>2
<1>8. QED
  BY <1>1, <1>2, <1>3, <1>4, <1>6, <1>7

(* The running frame may go on as f; it takes the next number for g.        *)
Onward(f) ==
  /\ FrameOK(f)
  /\ f.kind = Top.kind /\ f.req = Top.req
  /\ SizeOf(f.seq) = SizeOf(Top.seq)

Calls(f, g) == Onward(f) /\ FrameOK(g) /\ MayCall(f, g) /\ CallFrom(f, g)

(* What a step of the client may make of the stack.                         *)
StackStep ==
  \/ /\ runSeqNo' = runSeqNo
     /\ \/ stack' = stack
        \/ stack' = Below
        \/ stack' = <<>>
        \/ \E f \in FrameType : Onward(f) /\ Continue(f)
        \/ \E f, g \in FrameType : Calls(f, g) /\ g.seq = 0
  \/ /\ mode # "plain"
     /\ runSeqNo' = NextSeqNo
     /\ \E f, g \in FrameType : Calls(f, g) /\ g.seq = NextSeqNo

(* How it ends the call at the bottom.                                      *)
EndStep ==
  IF stack' # <<>>
  THEN UNCHANGED <<phase, outcome>>
  ELSE IF stack[1].kind = "connect"
  THEN phase' \in {"ready", "false", "error", "crashed"} /\ UNCHANGED outcome
  ELSE /\ UNCHANGED phase
       /\ \E result \in {"ok", "error", "null"} :
            outcome' = [outcome EXCEPT ![stack[1].req] = result]

LEMMA ReturnEnds ==
  ASSUME StackShape, stack # <<>>, NEW result, Return(result)
  PROVE  /\ stack' = Below
         /\ Len(stack) > 1 => stack' # <<>> /\ UNCHANGED <<phase, outcome>>
         /\ Len(stack) = 1 => stack' = <<>> /\ EndsBottom(result)
<1>1. /\ Len(stack) \in Nat /\ Len(Below) = Len(stack) - 1 /\ Below \in Seq(FrameType)
      /\ Len(stack) > 0
  BY TopFacts, BelowFacts DEF StackShape
<1>2. Below = <<>> <=> Len(stack) = 1
  BY <1>1
<1>3. QED
  BY <1>1, <1>2 DEF Return

LEMMA Appended ==
  ASSUME StackShape, stack # <<>>, NEW f \in FrameType, NEW g \in FrameType
  PROVE  /\ Continue(f) => stack' # <<>>
         /\ CallFrom(f, g) => stack' # <<>>
<1>1. Len(stack) \in Nat /\ Len(stack) > 0 /\ stack \in Seq(FrameType)
  BY TopFacts DEF StackShape
<1>2. /\ Len(Append(Below, f)) = Len(stack)
      /\ Len(Below \o <<f, g>>) = Len(stack) + 1
  BY <1>1, BelowFacts
<1>3. QED
  BY <1>1, <1>2 DEF Continue, CallFrom

LEMMA ConnectStack ==
  ASSUME StackInv, ConnectStep
  PROVE  stack # <<>> /\ StackStep /\ EndStep
<1>1. stack # <<>> /\ Top.kind = "connect"
  BY DEF ConnectStep, ConnectPlain, ConnectReconnect, ConnectFirst, ConnectDialled,
         ConnectClosed, ClusterPerfFails, ClusterPerf, ConnectReturns, InitClientID,
         InitClientIDFails, Running, Top
<1>2. /\ ConnTypeOK /\ StackShape /\ NodeCount \in Nat \ {0} /\ mode \in ModeKinds
      /\ 0 \in 0 .. MaxRequests /\ Errors = {IOError, Unknown, NotAvail} \cup Nodes
  BY ConnectionAssumption DEF StackInv, ConnTypeOK, Errors, Refusals
<1>3. /\ FrameOK(Top) /\ Top \in FrameType /\ Top.at \in Labels["connect"] /\ Len(stack) = 1
      /\ stack[1] = Top
  BY <1>1, <1>2, TopFacts DEF Top
<1>4. Labels["connect"] = {"start", "dial", "clientId", "return"} /\ "connect" \in Kinds
  BY DEF Labels, Kinds
<1>5. ASSUME NEW f \in FrameType, Continue(f) PROVE stack' # <<>>
  BY <1>1, <1>2, <1>5, Appended
<1>6. ASSUME NEW f \in FrameType, NEW g \in FrameType, CallFrom(f, g) PROVE stack' # <<>>
  BY <1>1, <1>2, <1>6, Appended
<1>7. ASSUME NEW at \in Labels["connect"] \ {"dial"}, NEW h \in Nodes \cup {NoNode}
      PROVE  /\ Onward([Top EXCEPT !.at = at]) /\ [Top EXCEPT !.at = at] \in FrameType
             /\ Onward([Top EXCEPT !.at = at, !.host = h])
             /\ [Top EXCEPT !.at = at, !.host = h] \in FrameType
  BY <1>1, <1>3, <1>4, <1>7 DEF Onward, FrameOK, FrameType
<1>8. ASSUME NEW n \in Nodes, NEW k \in 0 .. NodeCount, n + k <= NodeCount,
             mode = "plain" => k = 0
      PROVE  /\ Onward([Top EXCEPT !.at = "dial", !.node = n, !.left = k])
             /\ [Top EXCEPT !.at = "dial", !.node = n, !.left = k] \in FrameType
  BY <1>1, <1>3, <1>4, <1>8 DEF Onward, FrameOK, FrameType
<1>9. ASSUME NEW f \in FrameType, Onward(f), NEW h \in Nodes \cup {NoNode}, mode # "plain",
             CallFrom(f, SwitchFrame(h)), runSeqNo' = runSeqNo
      PROVE  StackStep /\ stack' # <<>>
  <2>1. FrameOK(SwitchFrame(h)) /\ SwitchFrame(h).kind = "switch" /\ SwitchFrame(h).seq = 0
    BY <1>2, <1>9, OtherFrameOK
  <2>2. SwitchFrame(h) \in FrameType /\ MayCall(f, SwitchFrame(h))
    BY <1>1, <1>9, <2>1 DEF FrameOK, MayCall, Onward
  <2>3. QED
    BY <1>6, <1>9, <2>1, <2>2 DEF StackStep, Calls
<1>10. ASSUME NEW f \in FrameType, Onward(f), Continue(f), runSeqNo' = runSeqNo
       PROVE  StackStep /\ stack' # <<>>
  BY <1>5, <1>10 DEF StackStep
<1>11. ASSUME NEW result \in {"ok", "false"}, Return(result), runSeqNo' = runSeqNo
       PROVE  StackStep /\ EndStep
  <2>1. stack' = <<>> /\ stack' = Below /\ EndsBottom(result)
    BY <1>1, <1>2, <1>3, <1>11, ReturnEnds
  <2>2. QED
    BY <1>1, <1>3, <1>11, <2>1 DEF StackStep, EndStep, EndsBottom
<1>12. CASE ConnectPlain
  <2>1. runSeqNo' = runSeqNo
    BY <1>12 DEF ConnectPlain
  <2>2. CASE closed
    BY <1>1, <1>11, <1>12, <2>1, <2>2 DEF ConnectPlain
  <2>3. CASE ~closed
    <3>1. Continue([Top EXCEPT !.at = "dial", !.node = 1]) /\ UNCHANGED <<phase, outcome>>
      BY <1>12, <2>3 DEF ConnectPlain, Dial
    <3>2. Top.left = 0 /\ mode = "plain"
      BY <1>1, <1>3, <1>12 DEF ConnectPlain, FrameOK
    <3>3. Continue([Top EXCEPT !.at = "dial", !.node = 1, !.left = 0])
      BY <1>3, <3>1, <3>2 DEF FrameType
    <3>4. 1 \in Nodes /\ 0 \in 0 .. NodeCount /\ 1 + 0 <= NodeCount
      BY <1>2 DEF Nodes
    <3>5. StackStep /\ stack' # <<>>
      BY <1>8, <1>10, <2>1, <3>2, <3>3, <3>4
    <3>6. QED
      BY <1>1, <3>1, <3>5 DEF EndStep
  <2>4. QED
    BY <2>2, <2>3
<1>13. CASE ConnectReconnect \/ ConnectFirst
  <2>1. runSeqNo' = runSeqNo /\ UNCHANGED <<phase, outcome>>
    BY <1>13 DEF ConnectReconnect, ConnectFirst, connVars, histVars
  <2>2. CASE ConnectReconnect
    <3>1. CallFrom([Top EXCEPT !.at = "clientId"], SwitchFrame(NoNode)) /\ mode # "plain"
      BY <2>2 DEF ConnectReconnect
    <3>2. StackStep /\ stack' # <<>>
      BY <1>4, <1>7, <1>9, <2>1, <3>1
    <3>3. QED
      BY <1>1, <2>1, <3>2 DEF EndStep
  <2>3. CASE ConnectFirst
    <3>1. Continue([[Top EXCEPT !.left = NodeCount - 1] EXCEPT !.at = "dial", !.node = 1])
          /\ mode = "ha"
      BY <2>3 DEF ConnectFirst, Dial
    <3>2. Continue([Top EXCEPT !.at = "dial", !.node = 1, !.left = NodeCount - 1])
      BY <1>3, <3>1 DEF FrameType
    <3>3. 1 \in Nodes /\ NodeCount - 1 \in 0 .. NodeCount /\ 1 + (NodeCount - 1) <= NodeCount
      BY <1>2 DEF Nodes
    <3>4. StackStep /\ stack' # <<>>
      BY <1>8, <1>10, <2>1, <3>1, <3>2, <3>3
    <3>5. QED
      BY <1>1, <2>1, <3>4 DEF EndStep
  <2>4. QED
    BY <1>13, <2>2, <2>3
<1>14. CASE ConnectDialled
  <2>1. runSeqNo' = runSeqNo /\ Top.at = "dial" /\ Top.node \in Nodes
        /\ Top.node + Top.left <= NodeCount /\ Top.left \in 0 .. NodeCount
    BY <1>1, <1>3, <1>14 DEF ConnectDialled, Running, Top, FrameOK, FrameType
  <2>2. CASE UNCHANGED <<phase, outcome>> /\ \E at \in {"start", "clientId"} :
               Continue([Top EXCEPT !.at = at, !.host = Top.node])
    <3>1. StackStep /\ stack' # <<>>
      BY <1>4, <1>7, <1>10, <2>1, <2>2
    <3>2. QED
      BY <1>1, <2>2, <3>1 DEF EndStep
  <2>3. CASE mode = "plain" /\ Return("false")
    BY <1>1, <1>11, <2>1, <2>3
  <2>4. CASE /\ mode # "plain" /\ UNCHANGED <<phase, outcome>>
             /\ Continue(IF Top.left = 0 \/ closed
                         THEN [Top EXCEPT !.at = "start"]
                         ELSE [Top EXCEPT !.node = Top.node + 1, !.left = @ - 1])
    <3>1. CASE Top.left = 0 \/ closed
      <4>1. StackStep /\ stack' # <<>>
        BY <1>4, <1>7, <1>10, <2>1, <2>4, <3>1
      <4>2. QED
        BY <1>1, <2>4, <4>1 DEF EndStep
    <3>2. CASE ~(Top.left = 0 \/ closed)
      <4>1. Continue([Top EXCEPT !.at = "dial", !.node = Top.node + 1, !.left = Top.left - 1])
        BY <1>3, <2>1, <2>4, <3>2 DEF FrameType
      <4>2. /\ Top.node + 1 \in Nodes /\ Top.left - 1 \in 0 .. NodeCount
            /\ (Top.node + 1) + (Top.left - 1) <= NodeCount
        BY <1>2, <2>1, <3>2 DEF Nodes
      <4>3. StackStep /\ stack' # <<>>
        BY <1>8, <1>10, <2>1, <2>4, <4>1, <4>2
      <4>4. QED
        BY <1>1, <2>4, <4>3 DEF EndStep
    <3>3. QED
      BY <3>1, <3>2
  <2>5. QED
    BY <1>14, <2>2, <2>3, <2>4 DEF ConnectDialled
<1>15. CASE ConnectClosed
  <2>1. stack' = <<>> /\ phase' = "crashed" /\ runSeqNo' = runSeqNo /\ outcome' = outcome
    BY <1>15 DEF ConnectClosed, histVars
  <2>2. QED
    BY <1>1, <1>3, <2>1 DEF StackStep, EndStep
<1>16. CASE ClusterPerfFails \/ ClusterPerf
  <2>1. runSeqNo' = runSeqNo /\ UNCHANGED <<phase, outcome>> /\ mode = "ha" /\ Top.at = "start"
    BY <1>16 DEF ClusterPerfFails, ClusterPerf, histVars, Running, Top
  <2>2. CASE ClusterPerfFails
    <3>1. PICK err \in Errors : stack' = stack \/ CallFrom(Top, SwitchFrame(HostOf(err)))
      BY <2>2 DEF ClusterPerfFails
    <3>2. HostOf(err) \in Nodes \cup {NoNode}
      BY DEF HostOf
    <3>3. Onward(Top)
      BY <1>3 DEF Onward
    <3>4. StackStep /\ stack' # <<>>
      BY <1>1, <1>3, <1>9, <2>1, <3>1, <3>2, <3>3 DEF StackStep
    <3>5. QED
      BY <1>1, <2>1, <3>4 DEF EndStep
  <2>3. CASE ClusterPerf
    <3>1. PICK min \in Nodes :
            \/ Continue([Top EXCEPT !.at = "clientId"])
            \/ CallFrom([Top EXCEPT !.at = "return"], SwitchFrame(min))
      BY <2>3 DEF ClusterPerf
    <3>2. StackStep /\ stack' # <<>>
      BY <1>4, <1>7, <1>9, <1>10, <2>1, <3>1
    <3>3. QED
      BY <1>1, <2>1, <3>2 DEF EndStep
  <2>4. QED
    BY <1>16, <2>2, <2>3
<1>17. CASE ConnectReturns
  BY <1>1, <1>11, <1>17 DEF ConnectReturns
<1>18. CASE InitClientID
  <2>1. UNCHANGED <<phase, outcome>>
    BY <1>18 DEF InitClientID, histVars
  <2>2. CASE HasScript
    <3> DEFINE f == [Top EXCEPT !.at = "return"]
               g == RunFrame(Script)
    <3>1. CallFrom(f, g) /\ TakeSeqNo
      BY <1>18, <2>2 DEF InitClientID
    <3>2. Onward(f) /\ f \in FrameType
      BY <1>4, <1>7
    <3>3. /\ FrameOK(g) /\ g.kind = "run" /\ g.req = Script
          /\ g.seq = IF mode = "plain" THEN 0 ELSE NextSeqNo
      BY <1>2, RunFrameOK DEF Script
    <3> HIDE DEF f, g
    <3>4. g \in FrameType /\ MayCall(f, g)
      BY <1>1, <3>2, <3>3 DEF FrameOK, MayCall, Onward
    <3>5. stack' # <<>>
      BY <1>6, <3>1, <3>2, <3>4
    <3>6. Calls(f, g)
      BY <3>1, <3>2, <3>3, <3>4 DEF Calls
    <3>7. StackStep
      BY <3>1, <3>2, <3>3, <3>4, <3>6 DEF StackStep, TakeSeqNo
    <3>8. QED
      BY <1>1, <2>1, <3>5, <3>7 DEF EndStep
  <2>3. CASE ~HasScript
    <3>1. StackStep /\ stack' # <<>>
      BY <1>4, <1>7, <1>10, <1>18, <2>3 DEF InitClientID
    <3>2. QED
      BY <1>1, <2>1, <3>1 DEF EndStep
  <2>4. QED
    BY <2>2, <2>3
<1>19. CASE InitClientIDFails
  BY <1>1, <1>3, <1>19 DEF InitClientIDFails, Throw, EndsBottom, StackStep, EndStep
<1>20. QED
  BY <1>1, <1>12, <1>13, <1>14, <1>15, <1>16, <1>17, <1>18, <1>19 DEF ConnectStep

LEMMA SwitchStack ==
  ASSUME StackInv, SwitchStep
  PROVE  stack # <<>> /\ StackStep /\ EndStep
<1>1. stack # <<>> /\ Top.kind = "switch"
  BY DEF SwitchStep, SwitchDataNode, SwitchConnected, SwitchNext, SwitchReturns, Running, Top
<1>2. ConnTypeOK /\ StackShape /\ NodeCount \in Nat \ {0} /\ 0 \in 0 .. MaxRequests
  BY ConnectionAssumption DEF StackInv
<1>3. /\ FrameOK(Top) /\ Top \in FrameType /\ Top.at \in Labels["switch"] /\ Len(stack) > 1
      /\ mode # "plain" /\ Sites \in 1 .. NodeCount /\ NextSite(lastIndex) + 1 \in Nodes
  <2>1. FrameOK(Top) /\ Top \in FrameType /\ Top.at \in Labels["switch"] /\ Len(stack) > 1
    BY <1>1, <1>2, TopFacts
  <2>2. mode # "plain"
    BY <1>1, <2>1 DEF FrameOK
  <2>3. QED
    BY <1>2, <2>1, <2>2, SitesFacts
<1>4. Labels["switch"] = {"host", "dial", "return"} /\ "switch" \in Kinds
  BY DEF Labels, Kinds
<1>5. ASSUME NEW at \in {"host", "return"}
      PROVE  Onward([Top EXCEPT !.at = at]) /\ [Top EXCEPT !.at = at] \in FrameType
  BY <1>1, <1>3, <1>4, <1>5 DEF Onward, FrameOK, FrameType
<1>6. ASSUME NEW n \in Nodes, NEW k \in 0 .. NodeCount
      PROVE  /\ Onward([Top EXCEPT !.at = "dial", !.node = n, !.left = k])
             /\ [Top EXCEPT !.at = "dial", !.node = n, !.left = k] \in FrameType
  BY <1>1, <1>3, <1>4, <1>6 DEF Onward, FrameOK, FrameType
<1>7. ASSUME NEW f \in FrameType, Onward(f), Continue(f), runSeqNo' = runSeqNo,
             UNCHANGED <<phase, outcome>>
      PROVE  StackStep /\ EndStep
  <2>1. stack' # <<>>
    BY <1>1, <1>2, <1>7, Appended
  <2>2. QED
    BY <1>7, <2>1 DEF StackStep, EndStep
<1>8. ASSUME Return("ok"), runSeqNo' = runSeqNo
      PROVE  StackStep /\ EndStep
  <2>1. stack' = Below /\ stack' # <<>> /\ UNCHANGED <<phase, outcome>>
    BY <1>1, <1>2, <1>3, <1>8, ReturnEnds
  <2>2. QED
    BY <1>8, <2>1 DEF StackStep, EndStep
<1>9. CASE SwitchDataNode
  <2>1. runSeqNo' = runSeqNo
    BY <1>9 DEF SwitchDataNode
  <2>2. CASE closed
    BY <1>1, <1>8, <1>9, <2>1, <2>2 DEF SwitchDataNode
  <2>3. CASE ~closed /\ Top.host # NoNode
    <3>1. /\ Continue([[Top EXCEPT !.left = Sites] EXCEPT !.at = "dial", !.node = Top.host])
          /\ UNCHANGED <<phase, outcome>> /\ Top.host \in Nodes
      BY <1>3, <1>9, <2>3 DEF SwitchDataNode, Dial, FrameType
    <3>2. Continue([Top EXCEPT !.at = "dial", !.node = Top.host, !.left = Sites])
      BY <1>3, <3>1 DEF FrameType
    <3>3. Sites \in 0 .. NodeCount
      BY <1>3
    <3>4. QED
      BY <1>1, <1>6, <1>7, <2>1, <3>1, <3>2, <3>3
  <2>4. CASE ~closed /\ Top.host = NoNode
    <3> DEFINE n == NextSite(lastIndex) + 1
    <3>1. /\ Continue([[Top EXCEPT !.left = Sites - 1] EXCEPT !.at = "dial", !.node = n])
          /\ UNCHANGED <<phase, outcome>>
      BY <1>9, <2>4 DEF SwitchDataNode, Dial
    <3>2. n \in Nodes /\ Sites - 1 \in 0 .. NodeCount
      BY <1>2, <1>3
    <3> HIDE DEF n
    <3>3. Continue([Top EXCEPT !.at = "dial", !.node = n, !.left = Sites - 1])
      BY <1>3, <3>1 DEF FrameType
    <3>4. QED
      BY <1>1, <1>6, <1>7, <2>1, <3>1, <3>2, <3>3
  <2>5. QED
    BY <2>2, <2>3, <2>4
<1>10. CASE SwitchConnected
  <2>1. UNCHANGED <<phase, outcome>>
    BY <1>10 DEF SwitchConnected, histVars
  <2>2. CASE HasScript
    <3> DEFINE f == [Top EXCEPT !.at = "return"]
               g == RunFrame(Script)
    <3>1. CallFrom(f, g) /\ TakeSeqNo
      BY <1>10, <2>2 DEF SwitchConnected, ScriptOnMove
    <3>2. Onward(f) /\ f \in FrameType
      BY <1>5
    <3>3. FrameOK(g) /\ g.kind = "run" /\ g.req = Script /\ g.seq = NextSeqNo
      BY <1>2, <1>3, RunFrameOK DEF Script
    <3> HIDE DEF f, g
    <3>4. g \in FrameType /\ MayCall(f, g)
      BY <1>1, <3>2, <3>3 DEF FrameOK, MayCall, Onward
    <3>5. stack' # <<>>
      BY <1>1, <1>2, <3>1, <3>2, <3>4, Appended
    <3>6. Calls(f, g)
      BY <3>1, <3>2, <3>3, <3>4 DEF Calls
    <3>7. StackStep
      BY <1>3, <3>1, <3>2, <3>3, <3>4, <3>6 DEF StackStep, TakeSeqNo
    <3>8. QED
      BY <1>1, <2>1, <3>5, <3>7 DEF EndStep
  <2>3. CASE ~HasScript
    BY <1>1, <1>5, <1>7, <1>10, <2>1, <2>3 DEF SwitchConnected, ScriptOnMove
  <2>4. QED
    BY <2>2, <2>3
<1>11. CASE SwitchNext
  <2>1. UNCHANGED <<phase, outcome>> /\ runSeqNo' = runSeqNo /\ Top.at = "dial"
    BY <1>11 DEF SwitchNext, histVars, Running, Top
  <2>2. CASE closed \/ Top.left = 0
    BY <1>1, <1>5, <1>7, <1>11, <2>1, <2>2 DEF SwitchNext
  <2>3. CASE ~(closed \/ Top.left = 0)
    <3> DEFINE n == NextSite(lastIndex) + 1
    <3>1. Continue([Top EXCEPT !.left = @ - 1, !.node = n])
      BY <1>11, <2>3 DEF SwitchNext
    <3>2. n \in Nodes /\ Top.left - 1 \in 0 .. NodeCount
      BY <1>2, <1>3, <2>3 DEF FrameType
    <3> HIDE DEF n
    <3>3. Continue([Top EXCEPT !.at = "dial", !.node = n, !.left = Top.left - 1])
      BY <1>3, <2>1, <3>1 DEF FrameType
    <3>4. QED
      BY <1>1, <1>6, <1>7, <2>1, <3>2, <3>3
  <2>4. QED
    BY <2>2, <2>3
<1>12. CASE SwitchReturns
  BY <1>1, <1>8, <1>12 DEF SwitchReturns
<1>13. QED
  BY <1>9, <1>10, <1>11, <1>12 DEF SwitchStep

LEMMA CallStack ==
  ASSUME StackInv, CallStep
  PROVE  stack # <<>> /\ Top.kind \in {"run", "upload"} /\ StackStep /\ EndStep
<1>1. stack # <<>> /\ Top.kind \in {"run", "upload"}
  BY DEF CallStep, CallClosed, Send, Receive, ReceiveFails, Rethrow, TryElsewhere, Calling,
         Running, Top
<1>2. ConnTypeOK /\ StackShape
  BY DEF StackInv
<1>3. FrameOK(Top) /\ Top \in FrameType /\ Len(stack) \in Nat /\ Len(stack) > 0
  BY <1>1, <1>2, TopFacts
<1>4. /\ Labels["run"] = {"send", "reply", "caught"} /\ "run" \in Kinds
      /\ Labels["upload"] = {"send", "reply", "caught"} /\ "upload" \in Kinds
  BY DEF Labels, Kinds
<1>a. ASSUME NEW f \in FrameType, f.at \in {"send", "reply", "caught"}, f.kind = Top.kind,
             f.req = Top.req, f.seq = Top.seq
      PROVE  Onward(f)
  <2>1. FrameOK(f)
    BY <1>1, <1>3, <1>4, <1>a DEF FrameOK
  <2>2. QED
    BY <1>a, <2>1 DEF Onward
<1>5. ASSUME NEW at \in {"send", "reply", "caught"}, NEW err \in Errors \cup {NoAnswer}
      PROVE  /\ Onward([Top EXCEPT !.at = at]) /\ [Top EXCEPT !.at = at] \in FrameType
             /\ Onward([Top EXCEPT !.at = at, !.err = err])
             /\ [Top EXCEPT !.at = at, !.err = err] \in FrameType
  <2>1. [Top EXCEPT !.at = at] \in FrameType /\ [Top EXCEPT !.at = at, !.err = err] \in FrameType
    BY <1>3, <1>5 DEF FrameType
  <2>2. /\ [Top EXCEPT !.at = at].at = at /\ [Top EXCEPT !.at = at].kind = Top.kind
        /\ [Top EXCEPT !.at = at].req = Top.req /\ [Top EXCEPT !.at = at].seq = Top.seq
    BY <1>3 DEF FrameType
  <2>3. /\ [Top EXCEPT !.at = at, !.err = err].at = at
        /\ [Top EXCEPT !.at = at, !.err = err].kind = Top.kind
        /\ [Top EXCEPT !.at = at, !.err = err].req = Top.req
        /\ [Top EXCEPT !.at = at, !.err = err].seq = Top.seq
    BY <1>3 DEF FrameType
  <2>4. QED
    BY <1>a, <1>5, <2>1, <2>2, <2>3
<1>6. ASSUME NEW f \in FrameType, Onward(f), Continue(f), runSeqNo' = runSeqNo,
             UNCHANGED <<phase, outcome>>
      PROVE  StackStep /\ EndStep
  <2>1. stack' # <<>>
    BY <1>1, <1>2, <1>6, Appended
  <2>2. QED
    BY <1>6, <2>1 DEF StackStep, EndStep
<1>7. Len(stack) = 1 => stack[1].kind # "connect"
  BY <1>1 DEF Top
<1>8. ASSUME NEW result \in {"ok", "null"}, Return(result), runSeqNo' = runSeqNo
      PROVE  StackStep /\ EndStep
  <2>1. CASE Len(stack) > 1
    <3>1. stack' = Below /\ stack' # <<>> /\ UNCHANGED <<phase, outcome>>
      BY <1>1, <1>2, <1>8, <2>1, ReturnEnds
    <3>2. QED
      BY <1>8, <3>1 DEF StackStep, EndStep
  <2>2. CASE Len(stack) = 1
    <3>1. stack' = Below /\ stack' = <<>> /\ EndsBottom(result)
      BY <1>1, <1>2, <1>8, <2>2, ReturnEnds
    <3>2. QED
      BY <1>7, <1>8, <2>2, <3>1 DEF StackStep, EndStep, EndsBottom
  <2>3. \A n \in Nat : n > 0 => n > 1 \/ n = 1
    OBVIOUS
  <2>4. QED
    BY <1>3, <2>1, <2>2, <2>3
<1>9. CASE CallClosed
  BY <1>1, <1>8, <1>9 DEF CallClosed
<1>10. CASE Send
  <2>1. UNCHANGED <<phase, outcome>> /\ runSeqNo' = runSeqNo
    BY <1>10 DEF Send, histVars
  <2>2. CASE Connected
    <3>1. Continue([Top EXCEPT !.at = "reply"])
      BY <1>10, <2>2 DEF Send
    <3>2. QED
      BY <1>1, <1>5, <1>6, <2>1, <3>1
  <2>3. CASE ~Connected
    <3>1. Continue([Top EXCEPT !.at = "caught", !.err = IOError])
      BY <1>10, <2>3 DEF Send
    <3>2. IOError \in Errors
      BY DEF Errors
    <3>3. QED
      BY <1>1, <1>5, <1>6, <2>1, <3>1, <3>2
  <2>4. QED
    BY <2>2, <2>3
<1>11. CASE Receive \/ ReceiveFails
  <2>1. runSeqNo' = runSeqNo /\ IOError \in Errors /\ reply \in Errors \cup {NoAnswer, Ok}
    BY <1>11 DEF Receive, ReceiveFails, StackInv, ServerTypeOK, Errors
  <2>2. CASE Receive /\ reply = Ok
    BY <1>1, <1>8, <2>1, <2>2 DEF Receive
  <2>3. CASE Receive /\ reply # Ok
    <3>1. Continue([Top EXCEPT !.at = "caught", !.err = reply]) /\ UNCHANGED <<phase, outcome>>
          /\ reply \in Errors
      BY <2>1, <2>3 DEF Receive
    <3>2. QED
      BY <1>1, <1>5, <1>6, <2>1, <3>1
  <2>4. CASE ReceiveFails
    <3>1. Continue([Top EXCEPT !.at = "caught", !.err = IOError]) /\ UNCHANGED <<phase, outcome>>
      BY <2>4 DEF ReceiveFails, histVars
    <3>2. QED
      BY <1>1, <1>5, <1>6, <2>1, <3>1
  <2>5. QED
    BY <1>11, <2>2, <2>3, <2>4
<1>12. CASE Rethrow
  <2>1. Throw /\ runSeqNo' = runSeqNo
    BY <1>12 DEF Rethrow
  <2>2. QED
    BY <1>1, <2>1 DEF Throw, EndsBottom, StackStep, EndStep
<1>13. CASE TryElsewhere
  <2> DEFINE f == Again(Top)
             g == SwitchFrame(HostOf(Top.err))
  <2>1. UNCHANGED <<phase, outcome>> /\ runSeqNo' = runSeqNo /\ mode # "plain" /\ CallFrom(f, g)
    BY <1>13 DEF TryElsewhere, histVars
  <2>2. HostOf(Top.err) \in Nodes \cup {NoNode}
    BY DEF HostOf
  <2>3. FrameOK(g) /\ g.kind = "switch" /\ g.seq = 0
    BY <1>2, <2>1, <2>2, OtherFrameOK
  <2>4. Onward(f) /\ f \in FrameType /\ f.kind = Top.kind
    <3> DEFINE seq == IF Top.seq > 0 THEN -Top.seq ELSE Top.seq
    <3>1. Top.seq \in -MaxSeqNo .. MaxSeqNo /\ MaxSeqNo \in Nat
      BY <1>3, ConnectionAssumption DEF FrameType
    <3>2. /\ seq \in -MaxSeqNo .. MaxSeqNo /\ SizeOf(seq) = SizeOf(Top.seq)
          /\ seq = 0 <=> Top.seq = 0
      BY <3>1 DEF SizeOf
    <3>3. f = [Top EXCEPT !.at = "send", !.err = NoAnswer, !.seq = seq]
      BY DEF Again
    <3> HIDE DEF seq
    <3>4. /\ f.at = "send" /\ f.err = NoAnswer /\ f.seq = seq /\ f.kind = Top.kind
          /\ f.req = Top.req /\ f \in FrameType
      BY <1>3, <3>2, <3>3 DEF FrameType
    <3> HIDE DEF f
    <3>5. FrameOK(f)
      BY <1>1, <1>3, <1>4, <3>2, <3>4 DEF FrameOK
    <3>6. QED
      BY <3>2, <3>4, <3>5 DEF Onward
  <2> HIDE DEF f, g
  <2>5. g \in FrameType /\ MayCall(f, g)
    BY <1>1, <2>3, <2>4 DEF FrameOK, MayCall
  <2>6. stack' # <<>>
    BY <1>1, <1>2, <2>1, <2>4, <2>5, Appended
  <2>7. QED
    BY <1>1, <2>1, <2>3, <2>4, <2>5, <2>6 DEF StackStep, EndStep, Calls
<1>14. QED
  BY <1>1, <1>9, <1>10, <1>11, <1>12, <1>13 DEF CallStep

LEMMA ShapeStep ==
  ASSUME StackShape, stack # <<>>, StackStep, mode' = mode
  PROVE  /\ StackShape'
         /\ stack' # <<>> => stack'[1].kind = stack[1].kind /\ stack'[1].req = stack[1].req
<1>1. \A x : FrameOK(x)' <=> FrameOK(x)
  BY DEF FrameOK
<1> DEFINE n == Len(stack)
<1>2. /\ stack \in Seq(FrameType) /\ n \in Nat /\ n > 0 /\ stack[1].kind # "switch" /\ Top = stack[n]
      /\ \A i \in 1 .. n : FrameOK(stack[i]) /\ (i > 1 => MayCall(stack[i - 1], stack[i]))
  BY DEF StackShape, Top
<1>3. SUFFICES /\ stack' \in Seq(FrameType)
               /\ stack' # <<>> => stack'[1].kind = stack[1].kind /\ stack'[1].req = stack[1].req
               /\ \A i \in 1 .. Len(stack') :
                    FrameOK(stack'[i]) /\ (i > 1 => MayCall(stack'[i - 1], stack'[i]))
  BY <1>1, <1>2 DEF StackShape
<1>4. CASE stack' = stack
  BY <1>2, <1>4
<1>5. CASE stack' = <<>>
  BY <1>5
<1> HIDE DEF n
<1>6. \A f, g, h : f.kind = g.kind /\ f.req = g.req =>
                     /\ MayCall(h, f) <=> MayCall(h, g)
                     /\ MayCall(f, h) <=> MayCall(g, h)
  BY DEF MayCall
<1>7. CASE stack' = Below
  <2>1. /\ Below \in Seq(FrameType) /\ Len(Below) = n - 1
        /\ \A i \in 1 .. n - 1 : Below[i] = stack[i]
    <3>1. stack[n] \in FrameType
      BY <1>2, FrameFields
    <3>2. QED
      BY <1>2, <3>1, BelowFacts DEF n
  <2>2. Below # <<>> => 1 \in 1 .. n - 1
    BY <1>2, <2>1
  <2>3. \A i \in 1 .. n - 1 : i \in 1 .. n /\ (i > 1 => i - 1 \in 1 .. n - 1)
    BY <1>2
  <2>4. QED
    BY <1>2, <1>7, <2>1, <2>2, <2>3
<1>8. ASSUME NEW f \in FrameType, Onward(f), Continue(f)
      PROVE  /\ stack' \in Seq(FrameType)
             /\ stack' # <<>> => stack'[1].kind = stack[1].kind /\ stack'[1].req = stack[1].req
             /\ \A i \in 1 .. Len(stack') :
                  FrameOK(stack'[i]) /\ (i > 1 => MayCall(stack'[i - 1], stack'[i]))
  <2>1. /\ stack' \in Seq(FrameType) /\ Len(stack') = n
        /\ \A i \in 1 .. n : stack'[i] = IF i = n THEN f ELSE stack[i]
    BY <1>2, <1>8, BelowFacts DEF Continue, n
  <2>2. f.kind = stack[n].kind /\ f.req = stack[n].req /\ FrameOK(f)
    BY <1>2, <1>8 DEF Onward
  <2>3. ASSUME NEW i \in 1 .. n PROVE FrameOK(stack'[i]) /\ (i > 1 => MayCall(stack'[i - 1], stack'[i]))
    <3>1. FrameOK(stack'[i])
      BY <1>2, <2>1, <2>2
    <3>2. ASSUME i > 1 PROVE MayCall(stack'[i - 1], stack'[i])
      <4>1. i - 1 \in 1 .. n /\ i - 1 # n
        BY <1>2, <3>2
      <4>2. stack'[i - 1] = stack[i - 1] /\ MayCall(stack[i - 1], stack[i])
        BY <1>2, <2>1, <3>2, <4>1
      <4>3. CASE i = n
        BY <1>6, <2>1, <2>2, <4>2, <4>3
      <4>4. CASE i # n
        BY <2>1, <4>2, <4>4
      <4>5. QED
        BY <4>3, <4>4
    <3>3. QED
      BY <3>1, <3>2
  <2>4. 1 \in 1 .. n
    BY <1>2
  <2>5. QED
    BY <2>1, <2>2, <2>3, <2>4
<1>9. ASSUME NEW f \in FrameType, NEW g \in FrameType, Calls(f, g)
      PROVE  /\ stack' \in Seq(FrameType)
             /\ stack' # <<>> => stack'[1].kind = stack[1].kind /\ stack'[1].req = stack[1].req
             /\ \A i \in 1 .. Len(stack') :
                  FrameOK(stack'[i]) /\ (i > 1 => MayCall(stack'[i - 1], stack'[i]))
  <2>1. /\ stack' \in Seq(FrameType) /\ Len(stack') = n + 1
        /\ \A i \in 1 .. n + 1 : stack'[i] = IF i = n + 1 THEN g ELSE IF i = n THEN f ELSE stack[i]
    BY <1>2, <1>9, BelowFacts DEF Calls, CallFrom, n
  <2>2. f.kind = stack[n].kind /\ f.req = stack[n].req /\ FrameOK(f) /\ FrameOK(g) /\ MayCall(f, g)
    BY <1>2, <1>9 DEF Onward, Calls
  <2>3. n \in 1 .. n + 1 /\ n # n + 1 /\ n + 1 \in 1 .. n + 1 /\ 1 \in 1 .. n + 1 /\ 1 # n + 1
    BY <1>2
  <2>4. stack'[n] = f /\ stack'[n + 1] = g
    BY <2>1, <2>3
  <2>5. ASSUME NEW i \in 1 .. n + 1
        PROVE  FrameOK(stack'[i]) /\ (i > 1 => MayCall(stack'[i - 1], stack'[i]))
    <3>1. CASE i = n + 1
      <4>1. i - 1 = n
        BY <1>2, <3>1
      <4>2. QED
        BY <2>2, <2>4, <3>1, <4>1
    <3>2. CASE i # n + 1
      <4>1. i \in 1 .. n /\ (i > 1 => i - 1 \in 1 .. n + 1 /\ i - 1 # n + 1 /\ i - 1 # n)
        BY <1>2, <3>2
      <4>2. stack'[i] = IF i = n THEN f ELSE stack[i]
        BY <2>1, <3>2
      <4>3. FrameOK(stack'[i])
        BY <1>2, <2>2, <4>1, <4>2
      <4>4. ASSUME i > 1 PROVE MayCall(stack'[i - 1], stack'[i])
        <5>1. stack'[i - 1] = stack[i - 1] /\ MayCall(stack[i - 1], stack[i])
          BY <1>2, <2>1, <4>1, <4>4
        <5>2. QED
          BY <1>6, <2>2, <4>2, <5>1
      <4>5. QED
        BY <4>3, <4>4
    <3>3. QED
      BY <3>1, <3>2
  <2>6. QED
    BY <2>1, <2>2, <2>3, <2>5
<1>10. QED
  BY <1>4, <1>5, <1>7, <1>8, <1>9 DEF StackStep

(* What the steps of each kind leave as it is.                              *)
LEMMA ClientFrame ==
  ASSUME ClientStep
  PROVE  /\ UNCHANGED <<mode, closed, up, seen, requests, uploads, ran, ranIn, scriptFailed>>
         /\ clientId' = clientId \/ mode # "plain" \/ ~clientId'
         /\ clientId' = clientId \/ InitClientID
<1>1. CASE ConnectPlain \/ ConnectReconnect \/ ConnectFirst \/ ConnectDialled \/ ConnectClosed
  BY <1>1 DEF ConnectPlain, ConnectReconnect, ConnectFirst, ConnectDialled, ConnectClosed,
              connVars, serverVars, histVars, DialSucceeds, DialLost, DialFails
<1>2. CASE ClusterPerfFails \/ ClusterPerf \/ ConnectReturns \/ InitClientID \/ InitClientIDFails
  BY <1>2 DEF ClusterPerfFails, ClusterPerf, ConnectReturns, InitClientID, InitClientIDFails,
              serverVars, histVars
<1>3. CASE SwitchStep
  BY <1>3 DEF SwitchStep, SwitchDataNode, SwitchConnected, SwitchNext, SwitchReturns,
              serverVars, histVars, DialSucceeds, DialLost, DialFails
<1>4. CASE CallStep
  BY <1>4 DEF CallStep, CallClosed, Send, Receive, ReceiveFails, Rethrow, TryElsewhere,
              serverVars, histVars
<1>5. QED
  BY <1>1, <1>2, <1>3, <1>4 DEF ClientStep, ConnectStep

OutsideStep == ServerStep \/ Close \/ LinkFails \/ \E n \in Nodes : NodeStops(n)

LEMMA OutsideFrame ==
  ASSUME OutsideStep
  PROVE  UNCHANGED <<mode, phase, clientId, runSeqNo, lastIndex, stack, session, requests,
                     uploads, outcome>>
BY DEF OutsideStep, ServerStep, Execute, Refuse, Vanish, Close, LinkFails, NodeStops, connVars,
       histVars

(* A step of the client, of the application, of something outside, or none. *)
LEMMA NextSteps ==
  ASSUME [Next]_vars
  PROVE  \/ ClientStep
         \/ \E kind \in {"run", "upload"} : Call(kind)
         \/ OutsideStep
         \/ UNCHANGED vars
BY DEF Next, OutsideStep

LEMMA CallPushes ==
  ASSUME StackInv, NEW kind \in {"run", "upload"}, Call(kind)
  PROVE  /\ stack = <<>> /\ phase = "ready" /\ requests < MaxRequests /\ requests' = requests + 1
         /\ \E f \in FrameType :
              /\ FrameOK(f) /\ stack' = <<f>> /\ f.kind = kind /\ f.req = requests + 1
              /\ f.at = "send"
              /\ IF kind = "upload" \/ mode = "plain"
                 THEN f.seq = 0 /\ runSeqNo' = runSeqNo
                 ELSE f.seq = NextSeqNo /\ runSeqNo' = NextSeqNo
         /\ uploads' = IF kind = "upload" THEN uploads \cup {requests + 1} ELSE uploads
<1>1. /\ stack = <<>> /\ phase = "ready" /\ requests < MaxRequests /\ requests' = requests + 1
  BY DEF Call
<1>2. ConnTypeOK /\ requests + 1 \in 0 .. MaxRequests
  BY <1>1, ConnectionAssumption DEF StackInv, HistTypeOK
<1>3. CASE kind = "run"
  <2> DEFINE f == RunFrame(requests + 1)
  <2>1. /\ FrameOK(f) /\ f.kind = "run" /\ f.at = "send" /\ f.req = requests + 1
        /\ f.seq = IF mode = "plain" THEN 0 ELSE NextSeqNo
    BY <1>2, RunFrameOK
  <2>2. stack' = <<f>> /\ TakeSeqNo /\ uploads' = uploads
    BY <1>3 DEF Call
  <2> HIDE DEF f
  <2>3. f \in FrameType
    BY <2>1 DEF FrameOK
  <2>4. QED
    BY <1>1, <1>3, <2>1, <2>2, <2>3 DEF TakeSeqNo
<1>4. CASE kind = "upload"
  <2> DEFINE f == [Frame("upload", "send") EXCEPT !.req = requests + 1]
  <2>1. FrameOK(f) /\ f.kind = "upload" /\ f.at = "send" /\ f.seq = 0 /\ f.req = requests + 1
    BY <1>2, OtherFrameOK
  <2>2. stack' = <<f>> /\ runSeqNo' = runSeqNo /\ uploads' = uploads \cup {requests + 1}
    BY <1>4 DEF Call
  <2> HIDE DEF f
  <2>3. f \in FrameType
    BY <2>1 DEF FrameOK
  <2>4. QED
    BY <1>1, <1>4, <2>1, <2>2, <2>3
<1>5. QED
  BY <1>3, <1>4

LEMMA ClientStack ==
  ASSUME StackInv, ClientStep
  PROVE  stack # <<>> /\ StackStep /\ EndStep
BY ConnectStack, SwitchStack, CallStack DEF ClientStep

LEMMA CallFrame ==
  ASSUME NEW kind \in {"run", "upload"}, Call(kind)
  PROVE  UNCHANGED <<mode, phase, closed, isConnected, clientId, lastIndex, serverVars, outcome,
                     ran, ranIn, scriptFailed>>
BY DEF Call

LEMMA ShapeNext ==
  ASSUME StackInv, [Next]_vars
  PROVE  StackShape' /\ PhaseShape'
<1>1. StackShape /\ PhaseShape /\ requests \in Nat /\ uploads \subseteq 1 .. requests
  BY ConnectionAssumption DEF StackInv, HistTypeOK
<1>2. CASE ClientStep
  <2>1. /\ UNCHANGED <<mode, requests, uploads>>
        /\ clientId' = clientId \/ mode # "plain" \/ ~clientId'
    BY <1>2, ClientFrame
  <2>2. stack # <<>> /\ StackStep /\ EndStep
    BY <1>2, ClientStack
  <2>3. /\ StackShape'
        /\ stack' # <<>> => stack'[1].kind = stack[1].kind /\ stack'[1].req = stack[1].req
    BY <1>1, <2>1, <2>2, ShapeStep
  <2>4. CASE stack' # <<>>
    BY <1>1, <2>1, <2>2, <2>3, <2>4 DEF PhaseShape, EndStep
  <2>5. CASE stack' = <<>>
    <3>1. phase' # "connecting"
      BY <1>1, <2>2, <2>5 DEF PhaseShape, EndStep
    <3>2. clientId' => mode' # "plain"
      BY <1>1, <2>1 DEF PhaseShape
    <3>3. QED
      BY <2>3, <2>5, <3>1, <3>2 DEF PhaseShape
  <2>6. QED
    BY <2>3, <2>4, <2>5
<1>3. ASSUME NEW kind \in {"run", "upload"}, Call(kind) PROVE StackShape' /\ PhaseShape'
  <2>1. UNCHANGED <<mode, phase, clientId>>
    BY <1>3, CallFrame
  <2>2. stack = <<>> /\ phase = "ready" /\ requests' = requests + 1
    BY <1>3, CallPushes
  <2>3. PICK f \in FrameType :
          FrameOK(f) /\ stack' = <<f>> /\ f.kind = kind /\ f.req = requests + 1
    BY <1>3, CallPushes
  <2>4. stack' \in Seq(FrameType) /\ Len(stack') = 1 /\ stack'[1] = f /\ stack' # <<>>
    BY <2>3
  <2>5. FrameOK(f)'
    BY <2>1, <2>3 DEF FrameOK
  <2>6. StackShape'
    BY <1>3, <2>3, <2>4, <2>5 DEF StackShape
  <2>7. uploads' = IF kind = "upload" THEN uploads \cup {requests + 1} ELSE uploads
    BY <1>3, CallPushes
  <2>8. requests + 1 \notin uploads
    BY <1>1
  <2>9. PhaseShape'
    BY <1>1, <1>3, <2>1, <2>2, <2>3, <2>4, <2>7, <2>8 DEF PhaseShape
  <2>10. QED
    BY <2>6, <2>9
<1>4. CASE OutsideStep \/ UNCHANGED vars
  <2>1. UNCHANGED <<mode, phase, clientId, stack, requests, uploads>>
    BY <1>4, OutsideFrame DEF vars, connVars, histVars
  <2>2. QED
    BY <1>1, <2>1 DEF StackShape, PhaseShape, FrameOK
<1>5. QED
  BY <1>2, <1>3, <1>4, NextSteps

-----------------------------------------------------------------------------
(* Types.                                                                   *)

LEMMA ConnTypeNext ==
  ASSUME StackInv, [Next]_vars
  PROVE  ConnTypeOK'
<1>1. /\ ConnTypeOK /\ StackShape /\ NodeCount \in Nat \ {0} /\ MaxSeqNo \in Nat \ {0}
      /\ NextSeqNo \in 0 .. MaxSeqNo
  BY ConnectionAssumption DEF StackInv, ConnTypeOK, NextSeqNo
<1>2. CASE ClientStep
  <2>1. UNCHANGED <<mode, closed>> /\ stack # <<>> /\ StackStep /\ EndStep
    BY <1>2, ClientFrame, ClientStack
  <2>2. runSeqNo' \in 0 .. MaxSeqNo
    BY <1>1, <2>1 DEF ConnTypeOK, StackStep
  <2>3. phase' \in {"connecting", "ready", "false", "error", "crashed", "null"}
    BY <1>1, <2>1 DEF ConnTypeOK, EndStep
  <2>4. isConnected' \in BOOLEAN /\ clientId' \in BOOLEAN
    <3>1. CASE ConnectStep
      BY <1>1, <3>1, ConnectionAssumption
         DEF ConnectStep, ConnectPlain, ConnectReconnect, ConnectFirst, ConnectDialled,
             ConnectClosed, ClusterPerfFails, ClusterPerf, ConnectReturns, InitClientID,
             InitClientIDFails, connVars, Dial, DialSucceeds, DialLost, DialFails, QueryFails,
             ConnTypeOK
    <3>2. CASE SwitchStep
      BY <1>1, <3>2 DEF SwitchStep, SwitchDataNode, SwitchConnected, SwitchNext, SwitchReturns,
                        Dial, DialSucceeds, DialLost, DialFails, ConnTypeOK
    <3>3. CASE CallStep
      BY <1>1, <3>3 DEF CallStep, CallClosed, Send, Receive, ReceiveFails, Rethrow, TryElsewhere,
                        Connected, ConnTypeOK
    <3>4. QED
      BY <1>2, <3>1, <3>2, <3>3 DEF ClientStep
  <2>5. lastIndex' = lastIndex \/ (mode # "plain" /\ lastIndex' = NextSite(lastIndex))
    <3>1. CASE ConnectStep
      BY <3>1 DEF ConnectStep, ConnectPlain, ConnectReconnect, ConnectFirst, ConnectDialled,
                  ConnectClosed, ClusterPerfFails, ClusterPerf, ConnectReturns, InitClientID,
                  InitClientIDFails, connVars
    <3>2. CASE SwitchStep
      <4>1. mode # "plain"
        <5>1. stack # <<>> /\ Top.kind = "switch"
          BY <3>2 DEF SwitchStep, SwitchDataNode, SwitchConnected, SwitchNext, SwitchReturns,
                      Running, Top
        <5>2. QED
          BY <1>1, <5>1, TopFacts DEF FrameOK
      <4>2. QED
        BY <3>2, <4>1 DEF SwitchStep, SwitchDataNode, SwitchConnected, SwitchNext, SwitchReturns
    <3>3. CASE CallStep
      BY <3>3 DEF CallStep, CallClosed, Send, Receive, ReceiveFails, Rethrow, TryElsewhere
    <3>4. QED
      BY <1>2, <3>1, <3>2, <3>3 DEF ClientStep
  <2>6. lastIndex' \in 0 .. NodeCount - 1 /\ (mode # "plain" => lastIndex' < Sites)
    BY <1>1, <2>5, SitesFacts DEF ConnTypeOK
  <2>7. Sites' = Sites
    BY <2>1 DEF Sites
  <2>8. QED
    BY <1>1, <2>1, <2>2, <2>3, <2>4, <2>6, <2>7 DEF ConnTypeOK
<1>3. ASSUME NEW kind \in {"run", "upload"}, Call(kind) PROVE ConnTypeOK'
  <2>1. UNCHANGED <<mode, phase, closed, isConnected, clientId, lastIndex>>
    BY <1>3, CallFrame
  <2>2. runSeqNo' = runSeqNo \/ runSeqNo' = NextSeqNo
    BY <1>3, CallPushes
  <2>3. Sites' = Sites
    BY <2>1 DEF Sites
  <2>4. QED
    BY <1>1, <2>1, <2>2, <2>3 DEF ConnTypeOK
<1>4. CASE OutsideStep \/ UNCHANGED vars
  <2>1. UNCHANGED <<mode, phase, clientId, runSeqNo, lastIndex>>
    BY <1>4, OutsideFrame DEF vars, connVars
  <2>2. closed' \in BOOLEAN /\ isConnected' \in BOOLEAN
    BY <1>1, <1>4 DEF OutsideStep, ServerStep, Execute, Refuse, Vanish, Close, LinkFails,
                      NodeStops, connVars, vars, ConnTypeOK
  <2>3. Sites' = Sites
    BY <2>1 DEF Sites
  <2>4. QED
    BY <1>1, <2>1, <2>2, <2>3 DEF ConnTypeOK
<1>5. QED
  BY <1>2, <1>3, <1>4, NextSteps

(* What a step of the client may do to the link and to what is sent.        *)
LinkStep ==
  \/ UNCHANGED <<link, session>> /\ (link # NoNode => isConnected')
  \/ link' = NoNode /\ session' = session
  \/ link' \in up /\ isConnected' /\ session' = session + 1 /\ Top.at = "dial"

LEMMA ConnectedIsLinked ==
  ASSUME ServerTypeOK
  PROVE  Connected <=> link # NoNode
BY DEF ServerTypeOK, Connected

LEMMA ClientLink ==
  ASSUME StackInv, ClientStep
  PROVE  /\ LinkStep
         /\ faults' \in 0 .. MaxFaults
         /\ reply' \in {reply, NoAnswer}
         /\ wire' = wire \/ Send
<1>1. /\ Connected <=> link # NoNode
      /\ link # NoNode => isConnected
      /\ faults \in 0 .. MaxFaults /\ MaxFaults \in Nat
  BY ConnectedIsLinked, ConnectionAssumption DEF StackInv, ServerTypeOK
<1>2. \A n : n \in up /\ isConnected' = TRUE /\ link' = n /\ session' = session + 1
             /\ Top.at = "dial" => LinkStep
  BY DEF LinkStep
<1>3. CASE ConnectPlain \/ ConnectReconnect \/ ConnectFirst \/ ConnectClosed \/ ConnectReturns
  BY <1>1, <1>3 DEF ConnectPlain, ConnectReconnect, ConnectFirst, ConnectClosed, ConnectReturns,
                    connVars, serverVars, Dial, LinkStep
<1>4. CASE ConnectDialled \/ SwitchConnected \/ SwitchNext
  <2>1. \E n : DialSucceeds(n) \/ DialLost(n) \/ DialFails(n)
    BY <1>4 DEF ConnectDialled, SwitchConnected, SwitchNext
  <2>2. wire' = wire /\ reply' = reply /\ Top.at = "dial"
    BY <1>4 DEF ConnectDialled, SwitchConnected, SwitchNext, Running, Top
  <2>3. isConnected' = isConnected \/ isConnected' = TRUE
    BY <2>1 DEF DialSucceeds, DialLost, DialFails
  <2>4. LinkStep
    BY <1>1, <1>2, <2>1, <2>2 DEF DialSucceeds, DialLost, DialFails, LinkStep
  <2>5. faults' \in 0 .. MaxFaults
    BY <1>1, <2>1 DEF DialSucceeds, DialLost, DialFails
  <2>6. QED
    BY <2>2, <2>4, <2>5
<1>5. CASE ClusterPerfFails \/ InitClientIDFails
  <2>1. PICK err \in Errors : QueryFails(err)
    BY <1>5 DEF ClusterPerfFails, InitClientIDFails
  <2>2. UNCHANGED <<link, session, wire, reply>>
    BY <1>5 DEF ClusterPerfFails, InitClientIDFails
  <2>3. LinkStep
    BY <1>1, <2>1, <2>2 DEF QueryFails, LinkStep
  <2>4. faults' \in 0 .. MaxFaults
    BY <1>1, <2>1 DEF QueryFails
  <2>5. QED
    BY <2>2, <2>3, <2>4
<1>6. CASE ClusterPerf \/ InitClientID
  BY <1>1, <1>6 DEF ClusterPerf, InitClientID, serverVars, LinkStep
<1>7. CASE SwitchDataNode \/ SwitchReturns
  BY <1>1, <1>7 DEF SwitchDataNode, SwitchReturns, serverVars, Dial, LinkStep
<1>8. CASE CallClosed \/ Receive \/ ReceiveFails \/ Rethrow \/ TryElsewhere
  BY <1>1, <1>8 DEF CallClosed, Receive, ReceiveFails, Rethrow, TryElsewhere, serverVars, LinkStep
<1>9. CASE Send
  BY <1>1, <1>9 DEF Send, LinkStep
<1>10. QED
  BY <1>3, <1>4, <1>5, <1>6, <1>7, <1>8, <1>9 DEF ClientStep, ConnectStep, SwitchStep, CallStep

(* A request that is sent.                                                  *)
LEMMA MessageFacts ==
  ASSUME StackInv, stack # <<>>, Top.kind \in {"run", "upload"}, Connected
  PROVE  /\ Message(Top) \in [req : 0 .. requests, num : -MaxSeqNo .. MaxSeqNo, in : 1 .. session]
         /\ Message(Top).req = Top.req /\ Message(Top).in = session
         /\ Message(Top).num = IF clientId THEN Top.seq ELSE 0
<1>1. Message(Top) = [req |-> Top.req, num |-> IF clientId THEN Top.seq ELSE 0, in |-> session]
  BY DEF Message
<1>2. /\ StackShape /\ PhaseShape /\ session \in Nat /\ session > 0 /\ requests \in Nat
      /\ MaxSeqNo \in Nat
  BY ConnectedIsLinked, ConnectionAssumption DEF StackInv, ServerTypeOK, HistTypeOK
<1>3. FrameOK(Top) /\ Len(stack) \in Nat /\ Len(stack) > 0
  BY <1>2, TopFacts
<1>4. Top.seq \in -MaxSeqNo .. MaxSeqNo /\ session \in 1 .. session
  BY <1>2, <1>3, FrameFields
<1>5. Top.req \in 0 .. requests
  <2>1. CASE Top.req = Script
    BY <1>2, <2>1 DEF Script
  <2>2. CASE Top.req # Script
    <3>1. Top = stack[1]
      <4>1. ~(Len(stack) > 1) \/ Len(stack) = 1
        BY <1>2, <2>2, TopFacts
      <4>2. \A n \in Nat : n > 0 => n > 1 \/ n = 1
        OBVIOUS
      <4>3. QED
        BY <1>3, <4>1, <4>2 DEF Top
    <3>2. QED
      BY <1>2, <2>2, <3>1 DEF PhaseShape
  <2>3. QED
    BY <2>1, <2>2
<1>6. QED
  BY <1>1, <1>2, <1>4, <1>5

LEMMA ServerTypeNext ==
  ASSUME StackInv, [Next]_vars
  PROVE  ServerTypeOK'
<1>1. /\ up \subseteq Nodes /\ link \in up \cup {NoNode} /\ (link # NoNode => isConnected /\ session > 0)
      /\ session \in Nat /\ reply \in Refusals \cup {NoAnswer, Ok} /\ seen \subseteq 1 .. MaxSeqNo
      /\ faults \in 0 .. MaxFaults /\ MaxFaults \in Nat /\ MaxSeqNo \in Nat /\ requests \in Nat
      /\ wire \subseteq [req : 0 .. requests, num : -MaxSeqNo .. MaxSeqNo, in : 1 .. session]
  BY ConnectionAssumption DEF StackInv, ServerTypeOK, HistTypeOK
<1>2. ASSUME NEW r \in Nat, NEW s \in Nat, r >= requests, s >= session
      PROVE  wire \subseteq [req : 0 .. r, num : -MaxSeqNo .. MaxSeqNo, in : 1 .. s]
  <2>1. 0 .. requests \subseteq 0 .. r /\ 1 .. session \subseteq 1 .. s
    BY <1>1, <1>2
  <2>2. QED
    BY <1>1, <2>1
<1>3. CASE ClientStep
  <2>1. UNCHANGED <<up, seen, requests>>
    BY <1>3, ClientFrame
  <2>2. LinkStep /\ faults' \in 0 .. MaxFaults /\ reply' \in {reply, NoAnswer} /\ (wire' = wire \/ Send)
    BY <1>3, ClientLink
  <2>3. /\ link' \in up' \cup {NoNode} /\ (link' # NoNode => isConnected' /\ session' > 0)
        /\ session' \in Nat /\ session' >= session
    BY <1>1, <2>1, <2>2 DEF LinkStep
  <2>4. wire' \subseteq [req : 0 .. requests', num : -MaxSeqNo .. MaxSeqNo, in : 1 .. session']
    <3>1. CASE wire' = wire
      BY <1>1, <1>2, <2>1, <2>3, <3>1
    <3>2. CASE Send /\ Connected
      <4>1. stack # <<>> /\ Top.kind \in {"run", "upload"} /\ session' = session
            /\ wire' = wire \cup {Message(Top)}
        BY <3>2 DEF Send, Calling, Running, Top
      <4>2. QED
        BY <1>1, <2>1, <3>2, <4>1, MessageFacts
    <3>3. CASE Send /\ ~Connected
      BY <3>1, <3>3 DEF Send
    <3>4. QED
      BY <2>2, <3>1, <3>2, <3>3
  <2>5. QED
    BY <1>1, <2>1, <2>2, <2>3, <2>4 DEF ServerTypeOK
<1>4. ASSUME NEW kind \in {"run", "upload"}, Call(kind) PROVE ServerTypeOK'
  <2>1. UNCHANGED <<isConnected, serverVars>> /\ requests' = requests + 1
    BY <1>4, CallFrame, CallPushes
  <2>2. wire \subseteq [req : 0 .. requests', num : -MaxSeqNo .. MaxSeqNo, in : 1 .. session]
    BY <1>1, <1>2, <2>1
  <2>3. QED
    BY <1>1, <2>1, <2>2 DEF ServerTypeOK, serverVars
<1>5. CASE OutsideStep
  <2>1. requests' = requests /\ session' = session
    BY <1>5, OutsideFrame
  <2>2. ASSUME NEW m \in wire, Execute(m) PROVE ServerTypeOK'
    <3>1. m.num \in -MaxSeqNo .. MaxSeqNo
      BY <1>1
    <3>2. seen' \subseteq 1 .. MaxSeqNo
      <4>1. seen' = seen \/ (m.num # 0 /\ seen' = seen \cup {Number(m)})
        BY <2>2 DEF Execute
      <4>2. m.num # 0 => Number(m) \in 1 .. MaxSeqNo
        BY <1>1, <3>1 DEF Number
      <4>3. QED
        BY <1>1, <4>1, <4>2
    <3>3. UNCHANGED <<isConnected, up, link, session, faults>> /\ wire' = wire \ {m}
          /\ reply' \in {reply, Ok}
      BY <2>2 DEF Execute, Answer, connVars
    <3>4. QED
      BY <1>1, <2>1, <3>2, <3>3 DEF ServerTypeOK
  <2>3. ASSUME NEW m \in wire, Refuse(m) \/ Vanish(m) PROVE ServerTypeOK'
    <3>1. UNCHANGED <<isConnected, up, link, session, seen>> /\ wire' = wire \ {m}
          /\ reply' \in {reply} \cup Refusals
      BY <2>3 DEF Refuse, Vanish, Answer, connVars
    <3>2. faults' \in 0 .. MaxFaults
      BY <1>1, <2>3 DEF Refuse, Vanish
    <3>3. QED
      BY <1>1, <2>1, <3>1, <3>2 DEF ServerTypeOK
  <2>4. CASE Close
    BY <1>1, <2>1, <2>4 DEF Close, ServerTypeOK
  <2>5. CASE LinkFails \/ \E n \in Nodes : NodeStops(n)
    <3>1. UNCHANGED <<isConnected, wire, reply, seen>> /\ faults' \in 0 .. MaxFaults
          /\ (link' = NoNode \/ link' = link) /\ up' \subseteq up /\ link' \in up' \cup {NoNode}
      BY <1>1, <2>5 DEF LinkFails, NodeStops, connVars
    <3>2. QED
      BY <1>1, <2>1, <3>1 DEF ServerTypeOK
  <2>6. QED
    BY <1>5, <2>2, <2>3, <2>4, <2>5 DEF OutsideStep, ServerStep
<1>6. CASE UNCHANGED vars
  BY <1>6 DEF StackInv, ServerTypeOK, vars, connVars, serverVars, histVars
<1>7. QED
  BY <1>3, <1>4, <1>5, <1>6, NextSteps

LEMMA HistTypeNext ==
  ASSUME StackInv, [Next]_vars
  PROVE  HistTypeOK'
<1>1. /\ requests \in 0 .. MaxRequests /\ MaxRequests \in Nat /\ uploads \subseteq 1 .. requests
      /\ outcome \in [Requests -> {"none", "ok", "error", "null"}]
      /\ ran \in [Requests -> Nat] /\ \A r \in Requests : r > requests => ran[r] = 0
  BY ConnectionAssumption DEF StackInv, HistTypeOK
<1>2. CASE ClientStep
  <2>1. UNCHANGED <<requests, uploads, ran>> /\ EndStep /\ stack # <<>>
    BY <1>2, ClientFrame, ClientStack
  <2>2. outcome' \in [Requests -> {"none", "ok", "error", "null"}]
    BY <1>1, <2>1 DEF EndStep
  <2>3. QED
    BY <1>1, <2>1, <2>2 DEF HistTypeOK
<1>3. ASSUME NEW kind \in {"run", "upload"}, Call(kind) PROVE HistTypeOK'
  <2>1. /\ UNCHANGED <<outcome, ran>> /\ requests' = requests + 1 /\ requests < MaxRequests
        /\ uploads' \subseteq uploads \cup {requests + 1}
    BY <1>3, CallFrame, CallPushes
  <2>2. requests' \in 0 .. MaxRequests /\ uploads' \subseteq 1 .. requests'
    BY <1>1, <2>1
  <2>3. \A r \in Requests : r > requests' => ran'[r] = 0
    <3>1. \A r \in Requests : r > requests + 1 => r > requests
      BY <1>1 DEF Requests
    <3>2. QED
      BY <1>1, <2>1, <3>1
  <2>4. QED
    BY <1>1, <2>1, <2>2, <2>3 DEF HistTypeOK
<1>4. CASE OutsideStep
  <2>1. UNCHANGED <<requests, uploads, outcome>>
    BY <1>4, OutsideFrame
  <2>2. ASSUME NEW m \in wire, Execute(m)
        PROVE  ran' \in [Requests -> Nat] /\ \A r \in Requests : r > requests => ran'[r] = 0
    <3>1. m.req \in 0 .. requests
      BY DEF StackInv, ServerTypeOK
    <3>2. ran' = ran \/ (m.req # Script /\ ran' = [ran EXCEPT ![m.req] = @ + 1])
      BY <2>2 DEF Execute
    <3>3. CASE m.req # Script /\ ran' = [ran EXCEPT ![m.req] = @ + 1]
      <4>1. m.req \in Requests /\ ran[m.req] \in Nat /\ ~(m.req > requests)
        BY <1>1, <3>1, <3>3 DEF Requests, Script
      <4>2. QED
        BY <1>1, <3>3, <4>1
    <3>4. QED
      BY <1>1, <3>2, <3>3
  <2>3. ASSUME ran' # ran PROVE \E m \in wire : Execute(m)
    BY <1>4, <2>3 DEF OutsideStep, ServerStep, Refuse, Vanish, Close, LinkFails, NodeStops, histVars
  <2>4. QED
    BY <1>1, <2>1, <2>2, <2>3 DEF HistTypeOK
<1>5. CASE UNCHANGED vars
  BY <1>5 DEF StackInv, HistTypeOK, vars, histVars
<1>6. QED
  BY <1>2, <1>3, <1>4, <1>5, NextSteps

LEMMA OneAwaitedNext ==
  ASSUME StackInv, [Next]_vars
  PROVE  OneAwaited'
<1>1. /\ OneAwaited /\ StackShape /\ (link # NoNode => isConnected) /\ (Connected <=> link # NoNode)
      /\ wire \subseteq [req : 0 .. requests, num : -MaxSeqNo .. MaxSeqNo, in : 1 .. session]
      /\ session \in Nat
  BY ConnectedIsLinked DEF StackInv, ServerTypeOK
<1>2. CASE ClientStep
  <2>1. LinkStep /\ (wire' = wire \/ Send) /\ stack # <<>>
    BY <1>2, ClientLink, ClientStack
  <2>2. ASSUME NEW m \in wire, m.in = session', link' # NoNode
        PROVE  Awaited(m) /\ ~Calling("reply")
    <3>1. m.in # session + 1 /\ session # session + 1
      BY <1>1
    <3>2. UNCHANGED <<link, session>>
      BY <2>1, <2>2, <3>1 DEF LinkStep
    <3>3. Awaited(m)
      BY <2>2, <3>2 DEF Awaited
    <3>4. reply = NoAnswer /\ link # NoNode
      BY <1>1, <2>2, <3>2, <3>3 DEF OneAwaited
    <3>5. ~Receive /\ ~ReceiveFails
      BY <3>4 DEF Receive, ReceiveFails
    <3>6. ASSUME Calling("reply") PROVE FALSE
      <4>1. Top.at = "reply" /\ Top.kind \in {"run", "upload"}
        BY <3>6 DEF Calling, Running, Top
      <4>2. ~ConnectStep
        BY <4>1 DEF ConnectStep, ConnectPlain, ConnectReconnect, ConnectFirst, ConnectDialled,
                    ConnectClosed, ClusterPerfFails, ClusterPerf, ConnectReturns, InitClientID,
                    InitClientIDFails, Running, Top
      <4>3. ~SwitchStep
        BY <4>1 DEF SwitchStep, SwitchDataNode, SwitchConnected, SwitchNext, SwitchReturns,
                    Running, Top
      <4>4. ~CallClosed /\ ~Send /\ ~Rethrow /\ ~TryElsewhere
        BY <4>1 DEF CallClosed, Send, Rethrow, TryElsewhere, Calling, Running, Top
      <4>5. QED
        BY <1>2, <3>5, <4>2, <4>3, <4>4 DEF ClientStep, CallStep
    <3>7. QED
      BY <3>3, <3>6
  <2>3. ~(\E m \in wire : m.in = session' /\ link' # NoNode)
    BY <1>1, <2>2 DEF OneAwaited
  <2>4. CASE wire' = wire
    BY <2>3, <2>4 DEF OneAwaited, Awaited
  <2>5. CASE Send /\ Connected
    <3>1. /\ Top.kind \in {"run", "upload"} /\ Len(stack) \in Nat /\ Len(stack) > 0
          /\ Top \in FrameType /\ stack \in Seq(FrameType)
      <4>1. Top.kind \in {"run", "upload"}
        BY <2>5 DEF Send, Calling, Running, Top
      <4>2. QED
        BY <1>1, <2>1, <4>1, TopFacts DEF StackShape
    <3> DEFINE f == [Top EXCEPT !.at = "reply"]
    <3>2. /\ stack' = Append(Below, f) /\ reply' = NoAnswer /\ wire' = wire \cup {Message(Top)}
          /\ UNCHANGED <<clientId, session>>
      BY <2>5 DEF Send, Continue
    <3>3. f \in FrameType /\ f.kind = Top.kind /\ f.req = Top.req /\ f.seq = Top.seq /\ f.at = "reply"
      BY <3>1 DEF FrameType, Kinds
    <3> HIDE DEF f
    <3>4. stack' # <<>> /\ stack'[Len(stack')] = f
      <4>1. Len(stack) \in 1 .. Len(stack)
        BY <3>1
      <4>2. QED
        BY <2>1, <3>1, <3>2, <3>3, <4>1, BelowFacts
    <3>5. Calling("reply")'
      BY <3>1, <3>3, <3>4 DEF Calling, Running
    <3>6. Message(Top)' = Message(Top)
      BY <3>2, <3>3, <3>4 DEF Message, Top
    <3>7. QED
      BY <2>3, <3>2, <3>5, <3>6 DEF OneAwaited, Awaited
  <2>6. CASE Send /\ ~Connected
    BY <2>4, <2>6 DEF Send
  <2>7. QED
    BY <2>1, <2>4, <2>5, <2>6
<1>3. ASSUME NEW kind \in {"run", "upload"}, Call(kind) PROVE OneAwaited'
  <2>1. stack = <<>> /\ UNCHANGED <<link, session, wire>>
    BY <1>3, CallFrame, CallPushes DEF serverVars
  <2>2. ~Calling("reply")
    BY <2>1 DEF Calling, Running
  <2>3. QED
    BY <1>1, <2>1, <2>2 DEF OneAwaited, Awaited
<1>4. CASE OutsideStep
  <2>1. UNCHANGED <<session, stack, clientId>>
    BY <1>4, OutsideFrame
  <2>2. \A m : Message(Top)' = Message(Top) /\ (Calling("reply")' <=> Calling("reply"))
    BY <2>1 DEF Message, Top, Calling, Running
  <2>3. ASSUME NEW n \in wire, Execute(n) \/ Refuse(n) \/ Vanish(n) PROVE OneAwaited'
    <3>1. link' = link /\ wire' = wire \ {n} /\ (reply' = reply \/ Awaited(n))
      BY <2>3 DEF Execute, Refuse, Vanish, Answer
    <3>2. QED
      BY <1>1, <2>1, <2>2, <3>1 DEF OneAwaited, Awaited
  <2>4. CASE Close \/ LinkFails \/ \E n \in Nodes : NodeStops(n)
    <3>1. UNCHANGED <<wire, reply>> /\ (link' = link \/ link' = NoNode)
      BY <2>4 DEF Close, LinkFails, NodeStops
    <3>2. QED
      BY <1>1, <2>1, <2>2, <3>1 DEF OneAwaited, Awaited
  <2>5. QED
    BY <1>4, <2>3, <2>4 DEF OutsideStep, ServerStep
<1>5. CASE UNCHANGED vars
  <2>1. UNCHANGED <<session, stack, clientId, link, wire, reply>>
    BY <1>5 DEF vars, connVars, serverVars
  <2>2. Message(Top)' = Message(Top) /\ (Calling("reply")' <=> Calling("reply"))
    BY <2>1 DEF Message, Top, Calling, Running
  <2>3. QED
    BY <1>1, <2>1, <2>2 DEF OneAwaited, Awaited
<1>6. QED
  BY <1>2, <1>3, <1>4, <1>5, NextSteps

LEMMA StackInvInit ==
  ASSUME Init
  PROVE  StackInv
<1> USE DEF Init
<1>1. /\ NodeCount \in Nat \ {0} /\ MaxSeqNo \in Nat \ {0} /\ MaxFaults \in Nat
      /\ MaxRequests \in Nat /\ Modes \subseteq ModeKinds
  BY ConnectionAssumption
<1>2. ConnTypeOK
  <2>1. mode \in {"plain", "reconnect", "ha"}
    BY <1>1 DEF ModeKinds
  <2>2. mode # "plain" => 0 < Sites
    BY <1>1, <2>1 DEF Sites
  <2>3. mode \in Modes /\ phase \in {"connecting", "ready", "false", "error", "crashed", "null"}
    OBVIOUS
  <2>4. closed \in BOOLEAN /\ isConnected \in BOOLEAN /\ clientId \in BOOLEAN
    OBVIOUS
  <2>5. runSeqNo \in 0 .. MaxSeqNo /\ lastIndex \in 0 .. NodeCount - 1
    BY <1>1
  <2>6. mode # "plain" => lastIndex < Sites
    BY <2>2
  <2> HIDE DEF Init
  <2>7. QED
    BY <2>3, <2>4, <2>5, <2>6 DEF ConnTypeOK
<1>3. StackShape
  <2>1. FrameOK(Frame("connect", "start")) /\ Frame("connect", "start").kind = "connect"
    BY <1>2, OtherFrameOK DEF Frame
  <2>2. Frame("connect", "start") \in FrameType
    BY <2>1 DEF FrameOK
  <2> DEFINE f == Frame("connect", "start")
  <2>3. stack = <<f>> /\ Len(stack) = 1
    OBVIOUS
  <2> HIDE DEF f, Init
  <2>4. QED
    BY <2>1, <2>2, <2>3 DEF StackShape, f
<1>4. PhaseShape
  BY DEF PhaseShape, Frame
<1>5. ServerTypeOK
  BY <1>1 DEF ServerTypeOK
<1>6. HistTypeOK
  BY <1>1 DEF HistTypeOK
<1>7. OneAwaited
  BY DEF OneAwaited
<1>8. QED
  BY <1>2, <1>3, <1>4, <1>5, <1>6, <1>7 DEF StackInv

(* Types, how the calls are nested, and that the answer a call waits for is *)
(* the one to its own request (DBConnection of src/src/DolphinDB.cpp).      *)
THEOREM StackInvCorrect == Spec => []StackInv
<1>1. Init => StackInv
  BY StackInvInit
<1>2. StackInv /\ [Next]_vars => StackInv'
  BY ConnTypeNext, ShapeNext, ServerTypeNext, HistTypeNext, OneAwaitedNext DEF StackInv
<1>3. QED
  BY <1>1, <1>2, PTL DEF Spec

-----------------------------------------------------------------------------
(* Numbers.                                                                 *)

LEMMA TaggedFacts ==
  /\ \A a : a \in Tagged <=>
       \/ \E m \in wire : m.num # 0 /\ a = <<m.req, Number(m)>>
       \/ \E i \in 1 .. Len(stack) :
            stack[i].seq # 0 /\ a = <<stack[i].req, SizeOf(stack[i].seq)>>
  /\ \A a : a \in Tagged' <=>
       \/ \E m \in wire' : m.num # 0 /\ a = <<m.req, Number(m)>>
       \/ \E i \in 1 .. Len(stack') :
            stack'[i].seq # 0 /\ a = <<stack'[i].req, SizeOf(stack'[i].seq)>>
BY DEF Tagged

(* A step uses no number but those in use and, for one request, the next.   *)
TagStep ==
  \/ runSeqNo' = runSeqNo /\ Tagged' \subseteq Tagged
  \/ /\ mode # "plain" /\ runSeqNo' = NextSeqNo
     /\ \E r \in {Script, requests + 1} :
          /\ Tagged' \subseteq Tagged \cup {<<r, NextSeqNo>>}
          /\ r # Script => requests' = requests + 1

LEMMA StackTags ==
  ASSUME StackInv, stack # <<>>, StackStep,
         NEW i \in 1 .. Len(stack'), stack'[i].seq # 0
  PROVE  \/ <<stack'[i].req, SizeOf(stack'[i].seq)>> \in Tagged
         \/ /\ mode # "plain" /\ runSeqNo' = NextSeqNo /\ stack'[i].seq = NextSeqNo
            /\ stack'[i].req = Script
<1> DEFINE n == Len(stack)
<1>1. /\ stack \in Seq(FrameType) /\ n \in Nat /\ n > 0 /\ Top = stack[n] /\ n \in 1 .. n
      /\ stack[n] \in FrameType
  BY DEF StackInv, StackShape, Top
<1>2. \A j \in 1 .. n : stack[j].seq # 0 => <<stack[j].req, SizeOf(stack[j].seq)>> \in Tagged
  BY TaggedFacts
<1>3. ASSUME NEW f \in FrameType, Onward(f), f.seq # 0
      PROVE  <<f.req, SizeOf(f.seq)>> \in Tagged
  <2>1. f.req = stack[n].req /\ SizeOf(f.seq) = SizeOf(stack[n].seq)
    BY <1>1, <1>3 DEF Onward
  <2>2. f.seq \in Int /\ stack[n].seq \in Int
    BY <1>1, <1>3, ConnectionAssumption DEF FrameType
  <2>3. stack[n].seq # 0
    BY <1>3, <2>1, <2>2 DEF SizeOf
  <2>4. QED
    BY <1>1, <1>2, <2>1, <2>3
<1> HIDE DEF n
<1>4. CASE stack' = stack \/ stack' = <<>>
  BY <1>2, <1>4 DEF n
<1>5. CASE stack' = Below
  <2>1. Len(Below) = n - 1 /\ \A j \in 1 .. n - 1 : Below[j] = stack[j]
    BY <1>1, BelowFacts DEF n
  <2>2. i \in 1 .. n /\ stack'[i] = stack[i]
    BY <1>1, <1>5, <2>1
  <2>3. QED
    BY <1>2, <2>2
<1>6. ASSUME NEW f \in FrameType, Onward(f), Continue(f)
      PROVE  <<stack'[i].req, SizeOf(stack'[i].seq)>> \in Tagged
  <2>1. Len(stack') = n /\ \A j \in 1 .. n : stack'[j] = IF j = n THEN f ELSE stack[j]
    BY <1>1, <1>6, BelowFacts DEF Continue, n
  <2>2. QED
    BY <1>2, <1>3, <1>6, <2>1
<1>7. ASSUME NEW f \in FrameType, NEW g \in FrameType, Calls(f, g)
      PROVE  <<stack'[i].req, SizeOf(stack'[i].seq)>> \in Tagged \/ stack'[i] = g
  <2>1. /\ Len(stack') = n + 1
        /\ \A j \in 1 .. n + 1 : stack'[j] = IF j = n + 1 THEN g ELSE IF j = n THEN f ELSE stack[j]
    BY <1>1, <1>7, BelowFacts DEF Calls, CallFrom, n
  <2>2. i = n + 1 \/ i \in 1 .. n
    BY <1>1, <2>1
  <2>3. Onward(f)
    BY <1>7 DEF Calls
  <2>4. QED
    BY <1>2, <1>3, <2>1, <2>2, <2>3
<1>8. ASSUME NEW f \in FrameType, NEW g \in FrameType, Calls(f, g), g.seq # 0
      PROVE  g.req = Script
  <2>1. FrameOK(g) /\ MayCall(f, g)
    BY <1>8 DEF Calls
  <2>2. QED
    BY <1>8, <2>1 DEF FrameOK, MayCall
<1>9. CASE \E f \in FrameType : Onward(f) /\ Continue(f)
  BY <1>6, <1>9
<1>10. CASE \E f, g \in FrameType : Calls(f, g) /\ g.seq = 0
  BY <1>7, <1>10
<1>11. CASE /\ mode # "plain" /\ runSeqNo' = NextSeqNo
            /\ \E f, g \in FrameType : Calls(f, g) /\ g.seq = NextSeqNo
  BY <1>7, <1>8, <1>11
<1>12. QED
  BY <1>4, <1>5, <1>9, <1>10, <1>11 DEF StackStep

LEMMA NextNumber ==
  ASSUME StackInv
  PROVE  NextSeqNo \in 1 .. MaxSeqNo /\ SizeOf(NextSeqNo) = NextSeqNo /\ MaxSeqNo \in Nat
BY ConnectionAssumption DEF StackInv, ConnTypeOK, NextSeqNo, SizeOf

LEMMA TagsNext ==
  ASSUME StackInv, [Next]_vars
  PROVE  TagStep
<1>1. CASE ClientStep
  <2>1. stack # <<>> /\ StackStep /\ (wire' = wire \/ Send)
    BY <1>1, ClientStack, ClientLink
  <2>2. ASSUME NEW m \in wire', m.num # 0
        PROVE  <<m.req, Number(m)>> \in Tagged
    <3>1. CASE m \in wire
      BY <2>2, <3>1, TaggedFacts
    <3>2. CASE m \notin wire
      <4>1. Send /\ Connected /\ m = Message(Top) /\ Top.kind \in {"run", "upload"}
        BY <2>1, <3>2 DEF Send, Calling, Running, Top
      <4>2. m.req = Top.req /\ m.num = Top.seq
        BY <2>1, <2>2, <4>1, MessageFacts
      <4>3. Len(stack) \in 1 .. Len(stack) /\ Top = stack[Len(stack)]
        BY <2>1 DEF StackInv, StackShape, Top
      <4>4. QED
        BY <2>2, <4>2, <4>3, TaggedFacts DEF Number, SizeOf
    <3>3. QED
      BY <3>1, <3>2
  <2>3. ASSUME runSeqNo' = runSeqNo, ~(mode # "plain" /\ runSeqNo' = NextSeqNo)
        PROVE  Tagged' \subseteq Tagged
    BY <2>1, <2>2, <2>3, StackTags, TaggedFacts
  <2>4. ASSUME mode # "plain", runSeqNo' = NextSeqNo
        PROVE  Tagged' \subseteq Tagged \cup {<<Script, NextSeqNo>>}
    <3>1. SizeOf(NextSeqNo) = NextSeqNo
      BY NextNumber
    <3>2. QED
      BY <2>1, <2>2, <3>1, StackTags, TaggedFacts
  <2>5. runSeqNo' = runSeqNo \/ (mode # "plain" /\ runSeqNo' = NextSeqNo)
    BY <2>1 DEF StackStep
  <2>6. QED
    BY <2>3, <2>4, <2>5 DEF TagStep
<1>2. ASSUME NEW kind \in {"run", "upload"}, Call(kind) PROVE TagStep
  <2>1. stack = <<>> /\ requests' = requests + 1 /\ wire' = wire
    BY <1>2, CallFrame, CallPushes DEF serverVars
  <2>2. PICK f \in FrameType :
          /\ stack' = <<f>> /\ f.req = requests + 1
          /\ IF kind = "upload" \/ mode = "plain"
             THEN f.seq = 0 /\ runSeqNo' = runSeqNo
             ELSE f.seq = NextSeqNo /\ runSeqNo' = NextSeqNo
    BY <1>2, CallPushes
  <2>3. Len(stack') = 1 /\ stack'[1] = f
    BY <2>2
  <2>4. \A a \in Tagged' : a \in Tagged \/ (f.seq # 0 /\ a = <<f.req, SizeOf(f.seq)>>)
    BY <2>1, <2>3, TaggedFacts
  <2>5. SizeOf(NextSeqNo) = NextSeqNo
    BY NextNumber
  <2>6. QED
    BY <2>1, <2>2, <2>4, <2>5 DEF TagStep
<1>3. CASE OutsideStep \/ UNCHANGED vars
  <2>1. stack' = stack /\ runSeqNo' = runSeqNo
    BY <1>3, OutsideFrame DEF vars, connVars
  <2>2. wire' \subseteq wire
    BY <1>3 DEF OutsideStep, ServerStep, Execute, Refuse, Vanish, Close, LinkFails, NodeStops,
                vars, serverVars
  <2>3. QED
    BY <2>1, <2>2, TaggedFacts DEF TagStep
<1>4. QED
  BY <1>1, <1>2, <1>3, NextSteps

LEMMA RequestsGrow ==
  ASSUME StackInv, [Next]_vars
  PROVE  /\ requests' \in Nat /\ requests \in Nat /\ requests' >= requests
         /\ uploads \subseteq uploads' /\ uploads' \subseteq uploads \cup {requests + 1}
<1>1. requests \in Nat
  BY ConnectionAssumption DEF StackInv, HistTypeOK
<1>2. ASSUME NEW kind \in {"run", "upload"}, Call(kind)
      PROVE  /\ requests' = requests + 1 /\ uploads \subseteq uploads'
             /\ uploads' \subseteq uploads \cup {requests + 1}
  BY <1>2, CallPushes
<1>3. CASE ClientStep \/ OutsideStep \/ UNCHANGED vars
  BY <1>1, <1>3, ClientFrame, OutsideFrame DEF vars, histVars
<1>4. QED
  BY <1>1, <1>2, <1>3, NextSteps

LEMMA TagsOfCallsNext ==
  ASSUME StackInv, TagsOfCalls, [Next]_vars
  PROVE  TagsOfCalls'
<1>1. /\ requests' \in Nat /\ requests \in Nat /\ requests' >= requests
      /\ NextSeqNo \in 1 .. MaxSeqNo
  BY RequestsGrow, NextNumber
<1>2. /\ \A a \in Tagged : a[1] \in 0 .. requests' /\ a[2] \in 1 .. MaxSeqNo /\ a[1] # requests + 1
      /\ \A a, b \in Tagged : a[1] = b[1] /\ a[1] # Script => a[2] = b[2]
  BY <1>1 DEF TagsOfCalls
<1>3. CASE Tagged' \subseteq Tagged
  BY <1>2, <1>3 DEF TagsOfCalls
<1>4. ASSUME NEW r \in {Script, requests + 1}, Tagged' \subseteq Tagged \cup {<<r, NextSeqNo>>},
             r # Script => requests' = requests + 1
      PROVE  TagsOfCalls'
  <2>1. r \in 0 .. requests'
    BY <1>1, <1>4 DEF Script
  <2>2. \A a \in Tagged' : a \in Tagged \/ (a[1] = r /\ a[2] = NextSeqNo)
    BY <1>4
  <2>3. \A a \in Tagged : a[1] = r => r = Script
    BY <1>2
  <2>4. QED
    BY <1>1, <1>2, <2>1, <2>2, <2>3 DEF TagsOfCalls
<1>5. QED
  BY <1>3, <1>4, TagsNext DEF TagStep

LEMMA ExecutedOnceNext ==
  ASSUME StackInv, TagsOfCalls, ExecutedOnce, [Next]_vars
  PROVE  ExecutedOnce'
<1>1. /\ requests \in 0 .. MaxRequests /\ MaxRequests \in Nat /\ uploads \subseteq 1 .. requests
      /\ ran \in [Requests -> Nat] /\ \A r \in Requests : r > requests => ran[r] = 0
      /\ \A m \in wire : m.req \in 0 .. requests
  BY ConnectionAssumption DEF StackInv, HistTypeOK, ServerTypeOK
<1>2. ASSUME NEW a \in Tagged', a[1] # Script
      PROVE  a \in Tagged \/ (a[1] = requests + 1 /\ requests' = requests + 1)
  BY <1>2, TagsNext DEF TagStep
<1>3. CASE ClientStep
  <2>1. UNCHANGED <<requests, uploads, ran, seen>> /\ (clientId' = clientId \/ InitClientID)
    BY <1>3, ClientFrame
  <2>2. requests' # requests + 1
    BY <1>1, <2>1
  <2>3. CASE InitClientID
    <3>1. requests = 0 /\ wire' = wire
      BY <1>3, <2>3, ClientStack DEF InitClientID, Running, serverVars, StackInv, PhaseShape,
                                     StackShape, MayCall, Kinds
    <3>2. \A r \in Requests : ran'[r] = 0
      BY <1>1, <2>1, <3>1 DEF Requests
    <3>3. \A m \in wire' : m.req = Script
      BY <1>1, <3>1 DEF Script
    <3>4. QED
      BY <3>2, <3>3 DEF ExecutedOnce
  <2>4. CASE clientId' = clientId /\ clientId
    <3>1. ASSUME NEW m \in wire', m.req \notin uploads \cup {Script} PROVE m.num # 0
      <4>1. CASE m \in wire
        BY <2>4, <3>1, <4>1 DEF ExecutedOnce
      <4>2. CASE m \notin wire
        <5>1. Send /\ Connected /\ m = Message(Top) /\ Top.kind \in {"run", "upload"} /\ stack # <<>>
          BY <1>3, <4>2, ClientLink DEF Send, Calling, Running, Top
        <5>2. m.req = Top.req /\ m.num = Top.seq
          BY <2>4, <5>1, MessageFacts
        <5>3. FrameOK(Top) /\ mode # "plain"
          BY <2>4, <5>1, TopFacts DEF StackInv, PhaseShape
        <5>4. CASE Top.kind = "run"
          BY <5>2, <5>3, <5>4 DEF FrameOK
        <5>5. CASE Top.kind = "upload"
          <6>1. Len(stack) = 1
            BY <5>1, <5>5, TopFacts DEF StackInv
          <6>2. stack[1].req \in uploads
            BY <5>1, <5>5, <6>1 DEF StackInv, PhaseShape, Top
          <6>3. QED
            BY <3>1, <5>2, <6>1, <6>2 DEF Top
        <5>6. QED
          BY <5>1, <5>4, <5>5
      <4>3. QED
        BY <4>1, <4>2
    <3>2. ASSUME NEW r \in Requests \ uploads
          PROVE  ran[r] <= 1 /\ (ran[r] = 1 => \A a \in Tagged' : a[1] = r => a[2] \in seen)
      <4>1. ran[r] <= 1 /\ (ran[r] = 1 => \A a \in Tagged : a[1] = r => a[2] \in seen)
        BY <2>4, <3>2 DEF ExecutedOnce
      <4>2. r # Script
        BY <3>2 DEF Requests, Script
      <4>3. QED
        BY <1>2, <2>2, <4>1, <4>2
    <3>3. QED
      BY <2>1, <3>1, <3>2 DEF ExecutedOnce
  <2>5. QED
    BY <2>1, <2>3, <2>4 DEF ExecutedOnce
<1>4. ASSUME NEW kind \in {"run", "upload"}, Call(kind) PROVE ExecutedOnce'
  <2>1. /\ UNCHANGED <<clientId, ran, wire, seen>> /\ requests' = requests + 1
        /\ uploads \subseteq uploads'
    BY <1>4, CallFrame, CallPushes, RequestsGrow DEF serverVars
  <2>2. ASSUME clientId, NEW r \in Requests \ uploads'
        PROVE  ran[r] <= 1 /\ (ran[r] = 1 => \A a \in Tagged' : a[1] = r => a[2] \in seen)
    <3>1. r \in Requests \ uploads /\ r # Script
      BY <2>1, <2>2 DEF Requests, Script
    <3>2. ran[r] <= 1 /\ (ran[r] = 1 => \A a \in Tagged : a[1] = r => a[2] \in seen)
      BY <2>2, <3>1 DEF ExecutedOnce
    <3>3. CASE r = requests + 1
      BY <1>1, <3>1, <3>2, <3>3
    <3>4. CASE r # requests + 1
      BY <1>2, <3>1, <3>2, <3>4
    <3>5. QED
      BY <3>3, <3>4
  <2>3. QED
    BY <2>1, <2>2 DEF ExecutedOnce
<1>5. CASE OutsideStep \/ UNCHANGED vars
  <2>1. UNCHANGED <<clientId, requests, uploads>>
    BY <1>5, OutsideFrame DEF vars, connVars, histVars
  <2>2. requests' # requests + 1
    BY <1>1, <2>1
  <2>3. \A a \in Tagged' : a[1] # Script => a \in Tagged
    BY <1>2, <2>2
  <2>4. \A r \in Requests : r # Script
    BY DEF Requests, Script
  <2>5. CASE wire' \subseteq wire /\ UNCHANGED <<ran, seen>>
    BY <2>1, <2>3, <2>4, <2>5 DEF ExecutedOnce
  <2>6. ASSUME NEW m \in wire, Execute(m), clientId,
               ~(m.num # 0 /\ Number(m) \in seen)
        PROVE  ExecutedOnce'
    <3>1. /\ wire' \subseteq wire
          /\ seen' = IF m.num = 0 THEN seen ELSE seen \cup {Number(m)}
          /\ ran' = IF m.req = Script THEN ran ELSE [ran EXCEPT ![m.req] = @ + 1]
      BY <2>6 DEF Execute
    <3>2. ASSUME NEW r \in Requests \ uploads
          PROVE  ran'[r] <= 1 /\ (ran'[r] = 1 => \A a \in Tagged' : a[1] = r => a[2] \in seen')
      <4>1. ran[r] <= 1 /\ (ran[r] = 1 => \A a \in Tagged : a[1] = r => a[2] \in seen)
        BY <2>6, <3>2 DEF ExecutedOnce
      <4>2. seen \subseteq seen' /\ r # Script
        BY <2>4, <3>1, <3>2
      <4>3. CASE m.req # r
        <5>1. ran'[r] = ran[r]
          BY <1>1, <3>1, <4>3
        <5>2. QED
          BY <2>3, <4>1, <4>2, <5>1
      <4>4. CASE m.req = r
        <5>1. m.num # 0 /\ Number(m) \notin seen
          BY <2>6, <3>2, <4>2, <4>4 DEF ExecutedOnce
        <5>2. <<r, Number(m)>> \in Tagged
          BY <4>4, <5>1, TaggedFacts
        <5>3. ran[r] = 0 /\ ran'[r] = 1
          BY <1>1, <3>1, <3>2, <4>1, <4>2, <4>4, <5>1, <5>2
        <5>4. \A a \in Tagged : a[1] = r => a[2] = Number(m)
          BY <4>2, <5>2 DEF TagsOfCalls
        <5>5. Number(m) \in seen'
          BY <3>1, <5>1
        <5>6. QED
          BY <2>3, <4>2, <5>3, <5>4, <5>5
      <4>5. QED
        BY <4>3, <4>4
    <3>3. QED
      BY <2>1, <2>6, <3>1, <3>2 DEF ExecutedOnce
  <2>7. ASSUME NEW m \in wire, Execute(m), m.num # 0 /\ Number(m) \in seen
        PROVE  wire' \subseteq wire /\ UNCHANGED <<ran, seen>>
    BY <2>7 DEF Execute
  <2>8. CASE ~clientId
    BY <2>1, <2>8 DEF ExecutedOnce
  <2>9. ASSUME ~(\E m \in wire : Execute(m))
        PROVE  wire' \subseteq wire /\ UNCHANGED <<ran, seen>>
    BY <1>5, <2>9 DEF OutsideStep, ServerStep, Refuse, Vanish, Close, LinkFails, NodeStops, vars,
                      serverVars, histVars
  <2>10. QED
    BY <2>5, <2>6, <2>7, <2>8, <2>9
<1>6. QED
  BY <1>3, <1>4, <1>5, NextSteps

LEMMA NoTagsInit ==
  ASSUME Init, NEW a \in Tagged
  PROVE  FALSE
<1>1. wire = {} /\ stack = <<Frame("connect", "start")>> /\ Frame("connect", "start").seq = 0
  BY DEF Init, Frame
<1>2. Len(stack) = 1 /\ stack[1].seq = 0
  BY <1>1
<1>3. QED
  BY <1>1, <1>2, TaggedFacts

LEMMA OnceInvInit ==
  ASSUME Init
  PROVE  OnceInv
<1>1. StackInv
  BY StackInvInit
<1>2. ASSUME NEW a \in Tagged PROVE FALSE
  BY <1>2, NoTagsInit
<1>3. QED
  BY <1>1, <1>2 DEF OnceInv, TagsOfCalls, ExecutedOnce, Init

LEMMA OnceInvNext ==
  ASSUME OnceInv, [Next]_vars
  PROVE  OnceInv'
BY ConnTypeNext, ShapeNext, ServerTypeNext, HistTypeNext, OneAwaitedNext, TagsOfCallsNext,
   ExecutedOnceNext DEF OnceInv, StackInv

(* What keeps a numbered call from being executed twice: a request is sent  *)
(* under one number only, however often and wherever, and once executed it  *)
(* is one the servers know (nextSeqNo() and the negated number of a retry). *)
THEOREM OnceInvCorrect == Spec => []OnceInv
<1>1. Init => OnceInv
  BY OnceInvInit
<1>2. OnceInv /\ [Next]_vars => OnceInv'
  BY OnceInvNext
<1>3. QED
  BY <1>1, <1>2, PTL DEF Spec

(* A run() with a number is executed once at most, however often it is sent *)
(* and to whichever nodes, even when the numbers wrap.                      *)
THEOREM NumberedCorrect == Spec => []NumberedRunsOnce
<1>1. OnceInv => NumberedRunsOnce
  BY DEF OnceInv, ExecutedOnce, NumberedRunsOnce
<1>2. QED
  BY <1>1, OnceInvCorrect, PTL

-----------------------------------------------------------------------------
(* Numbers that do not come to the largest long.                            *)

(* What a server makes of a request, and everyone else leaves alone.        *)
Executes(m) ==
  /\ Execute(m)
  /\ m.num = 0 \/ Number(m) \notin seen
  /\ seen' = IF m.num = 0 THEN seen ELSE seen \cup {Number(m)}
  /\ ran' = IF m.req = Script THEN ran ELSE [ran EXCEPT ![m.req] = @ + 1]
  /\ ranIn' = ranIn \cup {<<m.req, m.in>>}

LEMMA ExecuteSteps ==
  ASSUME [Next]_vars
  PROVE  UNCHANGED <<seen, ran, ranIn>> \/ \E m \in wire : Executes(m)
<1>1. CASE ClientStep
  BY <1>1, ClientFrame
<1>2. ASSUME NEW kind \in {"run", "upload"}, Call(kind) PROVE UNCHANGED <<seen, ran, ranIn>>
  BY <1>2, CallFrame DEF serverVars
<1>3. ASSUME NEW m \in wire, Execute(m)
      PROVE  UNCHANGED <<seen, ran, ranIn>> \/ Executes(m)
  BY <1>3 DEF Execute, Executes
<1>4. ASSUME NEW m \in wire, Refuse(m) \/ Vanish(m) PROVE UNCHANGED <<seen, ran, ranIn>>
  BY <1>4 DEF Refuse, Vanish, histVars
<1>5. CASE Close \/ LinkFails \/ (\E n \in Nodes : NodeStops(n)) \/ UNCHANGED vars
  BY <1>5 DEF Close, LinkFails, NodeStops, vars, serverVars, histVars
<1>6. QED
  BY <1>1, <1>2, <1>3, <1>4, <1>5, NextSteps DEF OutsideStep, ServerStep

LEMMA RanGrows ==
  ASSUME StackInv, [Next]_vars, NEW r \in Requests
  PROVE  ran[r] \in Nat /\ ran'[r] \in Nat /\ ran'[r] >= ran[r]
<1>1. ran \in [Requests -> Nat]
  BY DEF StackInv, HistTypeOK
<1>2. ASSUME NEW m \in wire, Executes(m) PROVE ran'[r] \in Nat /\ ran'[r] >= ran[r]
  BY <1>1, <1>2 DEF Executes
<1>3. QED
  BY <1>1, <1>2, ExecuteSteps

LEMMA FreshNumber ==
  ASSUME StackInv, NumbersLast
  PROVE  runSeqNo \in Nat /\ NextSeqNo = runSeqNo + 1
BY ConnectionAssumption DEF StackInv, ConnTypeOK, NumbersLast, NextSeqNo

LEMMA OwnNumbersNext ==
  ASSUME StackInv, TagsOfCalls, OwnNumbers, NumbersLast, [Next]_vars
  PROVE  OwnNumbers'
<1>1. runSeqNo \in Nat /\ NextSeqNo = runSeqNo + 1
  BY FreshNumber
<1>2. \A a \in Tagged : a[1] \in 0 .. requests /\ a[2] \in 1 .. MaxSeqNo
  BY DEF TagsOfCalls
<1>3. /\ seen \subseteq 1 .. runSeqNo
      /\ \A a \in Tagged : a[2] <= runSeqNo
      /\ \A a, b \in Tagged : a[2] = b[2] => a[1] = b[1]
      /\ \A a \in Tagged : a[1] # Script /\ a[2] \in seen => ran[a[1]] >= 1
  BY DEF OwnNumbers
<1>4. MaxSeqNo \in Nat
  BY NextNumber
<1>5. CASE UNCHANGED <<seen, ran>> /\ runSeqNo' = runSeqNo /\ Tagged' \subseteq Tagged
  BY <1>3, <1>5 DEF OwnNumbers
<1>6. ASSUME UNCHANGED <<seen, ran>>, runSeqNo' = NextSeqNo,
             NEW r, Tagged' \subseteq Tagged \cup {<<r, NextSeqNo>>}
      PROVE  OwnNumbers'
  <2>1. \A a \in Tagged' : a \in Tagged \/ (a[1] = r /\ a[2] = NextSeqNo)
    BY <1>6
  <2>2. NextSeqNo \notin seen /\ \A a \in Tagged : a[2] # NextSeqNo /\ a[2] <= NextSeqNo
    BY <1>1, <1>2, <1>3, <1>4
  <2>3. seen \subseteq 1 .. NextSeqNo
    BY <1>1, <1>3
  <2>4. /\ \A a \in Tagged' : a[2] <= NextSeqNo
        /\ \A a, b \in Tagged' : a[2] = b[2] => a[1] = b[1]
        /\ \A a \in Tagged' : a[1] # Script /\ a[2] \in seen => ran[a[1]] >= 1
    BY <1>1, <1>3, <2>1, <2>2
  <2>5. QED
    BY <1>6, <2>3, <2>4 DEF OwnNumbers
<1>7. ASSUME NEW m \in wire, Executes(m) PROVE OwnNumbers'
  <2>1. runSeqNo' = runSeqNo /\ Tagged' \subseteq Tagged
    <3>1. runSeqNo' = runSeqNo
      BY <1>7 DEF Executes, Execute, connVars
    <3>2. runSeqNo' # NextSeqNo
      BY <1>1, <3>1
    <3>3. QED
      BY <3>1, <3>2, TagsNext DEF TagStep
  <2>2. ASSUME NEW a \in Tagged, a[1] # Script, a[2] \in seen' PROVE ran'[a[1]] >= 1
    <3>1. a[1] \in Requests
      BY <1>2, <2>2, ConnectionAssumption DEF StackInv, HistTypeOK, Requests, Script
    <3>2. ran[a[1]] \in Nat /\ ran'[a[1]] \in Nat /\ ran'[a[1]] >= ran[a[1]]
      BY <3>1, RanGrows
    <3>3. CASE a[2] \in seen
      BY <1>3, <2>2, <3>2, <3>3
    <3>4. CASE a[2] \notin seen
      <4>1. m.num # 0 /\ a[2] = Number(m)
        BY <1>7, <2>2, <3>4 DEF Executes
      <4>2. a[1] = m.req
        <5> DEFINE b == <<m.req, Number(m)>>
        <5>1. b \in Tagged /\ b[1] = m.req /\ b[2] = Number(m)
          BY <4>1, TaggedFacts
        <5> HIDE DEF b
        <5>2. QED
          BY <1>3, <4>1, <5>1
      <4>3. ran'[a[1]] = ran[a[1]] + 1
        BY <1>7, <2>2, <3>1, <4>2 DEF Executes, StackInv, HistTypeOK
      <4>4. QED
        BY <3>2, <4>3
    <3>5. QED
      BY <3>3, <3>4
  <2>3. seen' \subseteq 1 .. runSeqNo
    <3>1. CASE m.num = 0
      BY <1>3, <1>7, <3>1 DEF Executes
    <3>2. CASE m.num # 0
      <4> DEFINE b == <<m.req, Number(m)>>
      <4>1. b \in Tagged /\ b[2] = Number(m)
        BY <3>2, TaggedFacts
      <4> HIDE DEF b
      <4>2. Number(m) \in 1 .. runSeqNo
        BY <1>1, <1>2, <1>3, <1>4, <4>1
      <4>3. QED
        BY <1>3, <1>7, <4>2 DEF Executes
    <3>3. QED
      BY <3>1, <3>2
  <2>4. QED
    BY <1>3, <2>1, <2>2, <2>3 DEF OwnNumbers
<1>8. QED
  BY <1>5, <1>6, <1>7, ExecuteSteps, TagsNext DEF TagStep

(* The answer a call waits for comes when it is executed, or was before.    *)
LEMMA AnswerExecutedNext ==
  ASSUME StackInv, TagsOfCalls, OwnNumbers, AnswerExecuted, [Next]_vars
  PROVE  AnswerExecuted'
<1>1. CASE ClientStep
  <2>1. reply' \in {reply, NoAnswer}
    BY <1>1, ClientLink
  <2>2. ASSUME reply' # NoAnswer PROVE FALSE
    <3>1. reply' = reply /\ reply # NoAnswer
      BY <2>1, <2>2
    <3>2. Top.at = "reply" /\ Top.kind \in {"run", "upload"}
      BY <3>1 DEF AnswerExecuted, Calling, Running, Top
    <3>3. ~ConnectStep
      BY <3>2 DEF ConnectStep, ConnectPlain, ConnectReconnect, ConnectFirst, ConnectDialled,
                  ConnectClosed, ClusterPerfFails, ClusterPerf, ConnectReturns, InitClientID,
                  InitClientIDFails, Running, Top
    <3>4. ~SwitchStep
      BY <3>2 DEF SwitchStep, SwitchDataNode, SwitchConnected, SwitchNext, SwitchReturns,
                  Running, Top
    <3>5. ~CallClosed /\ ~Send /\ ~Rethrow /\ ~TryElsewhere
      BY <3>2 DEF CallClosed, Send, Rethrow, TryElsewhere, Calling, Running, Top
    <3>6. ~Receive /\ ~ReceiveFails
      BY <2>2, <3>1 DEF Receive, ReceiveFails
    <3>7. QED
      BY <1>1, <3>3, <3>4, <3>5, <3>6 DEF ClientStep, CallStep
  <2>3. QED
    BY <2>2 DEF AnswerExecuted
<1>2. ASSUME NEW kind \in {"run", "upload"}, Call(kind) PROVE AnswerExecuted'
  <2>1. stack = <<>> /\ reply' = reply
    BY <1>2, CallFrame, CallPushes DEF serverVars
  <2>2. QED
    BY <2>1 DEF AnswerExecuted, Calling, Running
<1>3. CASE OutsideStep \/ UNCHANGED vars
  <2>1. UNCHANGED <<stack, session, clientId, requests>>
    BY <1>3, OutsideFrame DEF vars, connVars, serverVars, histVars
  <2>2. Top' = Top /\ (Calling("reply")' <=> Calling("reply"))
    BY <2>1 DEF Top, Calling, Running
  <2>3. ASSUME stack # <<>> PROVE Top.req \in 0 .. MaxRequests
    BY <2>3, TopFacts, FrameFields DEF StackInv
  <2>4. CASE reply' = reply
    <3>1. ASSUME reply = Ok, Calling("reply"), Top.req # Script PROVE ran'[Top.req] >= 1
      <4>1. ran[Top.req] >= 1
        BY <3>1 DEF AnswerExecuted, Ok, NoAnswer
      <4>2. Top.req \in Requests
        BY <2>3, <3>1, ConnectionAssumption DEF Calling, Running, Requests, Script
      <4>3. QED
        BY <4>1, <4>2, RanGrows
    <3>2. QED
      BY <2>2, <2>4, <3>1 DEF AnswerExecuted
  <2>5. ASSUME NEW m \in wire, Execute(m), Awaited(m) PROVE AnswerExecuted'
    <3>1. Calling("reply") /\ m = Message(Top)
      BY <2>5 DEF StackInv, OneAwaited
    <3>2. stack # <<>> /\ m.req = Top.req
      BY <3>1 DEF Message, Calling, Running
    <3>3. ASSUME Top.req # Script PROVE ran'[Top.req] >= 1
      <4>1. Top.req \in Requests
        BY <2>3, <3>2, <3>3, ConnectionAssumption DEF Requests, Script
      <4>2. ran[Top.req] \in Nat /\ ran'[Top.req] \in Nat /\ ran'[Top.req] >= ran[Top.req]
        BY <4>1, RanGrows
      <4>3. CASE m.num # 0 /\ Number(m) \in seen
        <5> DEFINE b == <<m.req, Number(m)>>
        <5>1. b \in Tagged /\ b[1] = Top.req /\ b[2] = Number(m)
          BY <3>2, <4>3, TaggedFacts
        <5> HIDE DEF b
        <5>2. ran[Top.req] >= 1
          BY <3>3, <4>3, <5>1 DEF OwnNumbers
        <5>3. QED
          BY <4>2, <5>2
      <4>4. CASE ~(m.num # 0 /\ Number(m) \in seen)
        <5>1. ran' = [ran EXCEPT ![Top.req] = @ + 1]
          BY <2>5, <3>2, <3>3, <4>4 DEF Execute
        <5>2. ran'[Top.req] = ran[Top.req] + 1
          BY <4>1, <5>1 DEF StackInv, HistTypeOK
        <5>3. QED
          BY <4>2, <5>2
      <4>5. QED
        BY <4>3, <4>4
    <3>4. QED
      BY <2>2, <3>1, <3>3 DEF AnswerExecuted
  <2>6. ASSUME NEW m \in wire, Refuse(m) PROVE AnswerExecuted'
    <3>1. Calling("reply") /\ Awaited(m)
      BY <2>6 DEF Refuse, StackInv, OneAwaited
    <3>2. reply' \in Refusals
      BY <2>6, <3>1 DEF Refuse, Answer
    <3>3. reply' # Ok
      BY <3>2, ConnectionAssumption DEF Refusals, Unknown, NotAvail, Nodes, Ok
    <3>4. QED
      BY <2>2, <3>1, <3>3 DEF AnswerExecuted
  <2>7. ASSUME NEW m \in wire, Execute(m), ~Awaited(m) PROVE reply' = reply
    BY <2>7 DEF Execute, Answer
  <2>8. ASSUME NEW m \in wire, Vanish(m) PROVE reply' = reply
    BY <2>8 DEF Vanish
  <2>9. CASE Close \/ LinkFails \/ (\E n \in Nodes : NodeStops(n)) \/ UNCHANGED vars
    BY <2>4, <2>9 DEF Close, LinkFails, NodeStops, vars, serverVars
  <2>10. QED
    BY <1>3, <2>4, <2>5, <2>6, <2>7, <2>8, <2>9 DEF OutsideStep, ServerStep
<1>4. QED
  BY <1>1, <1>2, <1>3, NextSteps

(* A call that returns an answer has read one.                              *)
LEMMA AnsweredBy ==
  ASSUME StackInv, ClientStep, NEW r \in Requests, outcome'[r] = "ok"
  PROVE  outcome[r] = "ok" \/ (Calling("reply") /\ reply = Ok /\ Top.req = r)
<1>1. stack # <<>> /\ EndStep /\ StackShape /\ outcome \in [Requests -> {"none", "ok", "error", "null"}]
  BY ClientStack DEF StackInv, HistTypeOK
<1>2. /\ Len(stack) \in Nat /\ Len(stack) > 0
      /\ Top.kind \in {"connect", "upload"} => Len(stack) = 1
      /\ Top.kind = "switch" => Len(stack) > 1
  BY <1>1, TopFacts
<1>3. CASE ConnectStep
  <2>1. Top.kind = "connect"
    BY <1>3 DEF ConnectStep, ConnectPlain, ConnectReconnect, ConnectFirst, ConnectDialled,
                ConnectClosed, ClusterPerfFails, ClusterPerf, ConnectReturns, InitClientID,
                InitClientIDFails, Running, Top
  <2>2. stack[1].kind = "connect"
    BY <1>2, <2>1 DEF Top
  <2>3. QED
    BY <1>1, <2>2 DEF EndStep
<1>4. CASE SwitchStep
  <2>1. Top.kind = "switch"
    BY <1>4 DEF SwitchStep, SwitchDataNode, SwitchConnected, SwitchNext, SwitchReturns, Running, Top
  <2>2. Return("ok") => outcome' = outcome
    BY <1>1, <1>2, <2>1, ReturnEnds
  <2>3. outcome' = outcome
    BY <1>4, <2>2 DEF SwitchStep, SwitchDataNode, SwitchConnected, SwitchNext, SwitchReturns, histVars
  <2>4. QED
    BY <2>3
<1>5. CASE CallStep
  <2>1. \A res : EndsBottom(res) /\ res # "ok" => outcome[r] = "ok"
    BY <1>1 DEF EndsBottom
  <2>2. CASE CallClosed
    BY <1>1, <2>1, <2>2 DEF CallClosed, Return
  <2>3. CASE Rethrow
    BY <2>1, <2>3 DEF Rethrow, Throw
  <2>4. CASE Send \/ ReceiveFails \/ TryElsewhere
    BY <2>4 DEF Send, ReceiveFails, TryElsewhere, histVars
  <2>5. CASE Receive
    <3>1. CASE reply # Ok \/ outcome' = outcome
      BY <2>5, <3>1 DEF Receive
    <3>2. CASE reply = Ok /\ outcome' # outcome
      <4>1. Calling("reply") /\ Return("ok")
        BY <2>5, <3>2 DEF Receive
      <4>2. Len(stack) = 1
        <5>1. ~(Len(stack) > 1)
          BY <1>1, <3>2, <4>1, ReturnEnds
        <5>2. \A n \in Nat : n > 0 => n > 1 \/ n = 1
          OBVIOUS
        <5>3. QED
          BY <1>2, <5>1, <5>2
      <4>3. EndsBottom("ok") /\ Top = stack[1] /\ Top.kind # "connect"
        BY <1>1, <4>1, <4>2, ReturnEnds DEF Top, Calling, Running
      <4>4. outcome' = [outcome EXCEPT ![Top.req] = "ok"]
        BY <4>3 DEF EndsBottom
      <4>5. QED
        BY <1>1, <3>2, <4>1, <4>4
    <3>3. QED
      BY <3>1, <3>2
  <2>6. QED
    BY <1>5, <2>2, <2>3, <2>4, <2>5 DEF CallStep
<1>6. QED
  BY <1>3, <1>4, <1>5 DEF ClientStep

LEMMA AnsweredNext ==
  ASSUME StackInv, AnswerExecuted, AnsweredIsExecuted, [Next]_vars
  PROVE  AnsweredIsExecuted'
<1>1. SUFFICES ASSUME NEW r \in Requests, outcome'[r] = "ok"
               PROVE  ran[r] >= 1
  BY RanGrows DEF AnsweredIsExecuted
<1>2. CASE ClientStep
  <2>1. r # Script /\ Ok # NoAnswer
    BY DEF Requests, Script, Ok, NoAnswer
  <2>2. QED
    BY <1>1, <1>2, <2>1, AnsweredBy DEF AnswerExecuted, AnsweredIsExecuted
<1>3. ASSUME ~ClientStep PROVE outcome' = outcome
  BY <1>3, NextSteps, CallFrame, OutsideFrame DEF vars, histVars
<1>4. QED
  BY <1>1, <1>2, <1>3 DEF AnsweredIsExecuted

-----------------------------------------------------------------------------
(* The initial script.                                                      *)

LEMMA NewTop ==
  ASSUME StackShape, stack # <<>>, NEW f \in FrameType, NEW g \in FrameType
  PROVE  /\ Continue(f) => stack' # <<>> /\ stack'[Len(stack')] = f
         /\ CallFrom(f, g) => stack' # <<>> /\ stack'[Len(stack')] = g
<1>1. /\ Len(stack) \in Nat /\ Len(stack) > 0 /\ stack \in Seq(FrameType)
      /\ Len(stack) \in 1 .. Len(stack) /\ Len(stack) + 1 \in 1 .. Len(stack) + 1
  BY TopFacts DEF StackShape
<1>2. /\ Len(Append(Below, f)) = Len(stack)
      /\ Len(Below \o <<f, g>>) = Len(stack) + 1
      /\ \A i \in 1 .. Len(stack) : Append(Below, f)[i] = IF i = Len(stack) THEN f ELSE stack[i]
      /\ \A i \in 1 .. Len(stack) + 1 : (Below \o <<f, g>>)[i] =
           IF i = Len(stack) + 1 THEN g ELSE IF i = Len(stack) THEN f ELSE stack[i]
  BY <1>1, BelowFacts
<1>3. QED
  BY <1>1, <1>2, Appended DEF Continue, CallFrom

LEMMA ScriptedStays ==
  ASSUME [Next]_vars, NEW s
  PROVE  /\ ranIn \subseteq ranIn' /\ scriptFailed \subseteq scriptFailed'
         /\ Scripted(s) => <<Script, s>> \in ranIn' \/ s \in scriptFailed'
<1>1. ranIn \subseteq ranIn'
  BY ExecuteSteps DEF Executes
<1>2. CASE ClientStep
  BY <1>1, <1>2, ClientFrame DEF Scripted
<1>3. ASSUME NEW kind \in {"run", "upload"}, Call(kind) PROVE scriptFailed' = scriptFailed
  BY <1>3, CallFrame
<1>4. CASE OutsideStep \/ UNCHANGED vars
  <2>1. scriptFailed \subseteq scriptFailed'
    BY <1>4 DEF OutsideStep, ServerStep, Execute, Refuse, Vanish, Close, LinkFails, NodeStops,
                vars, histVars
  <2>2. QED
    BY <1>1, <2>1 DEF Scripted
<1>5. QED
  BY <1>1, <1>2, <1>3, <1>4, NextSteps DEF Scripted

(* A step of a connection that may go on, and may after it.                 *)
LEMMA GoesOn ==
  ASSUME StackInv, ClientStep, MayGoOn'
  PROVE  MayGoOn /\ (stack' = <<>> /\ stack[1].kind = "connect" => phase' = "ready")
<1>1. /\ UNCHANGED <<mode, closed>> /\ EndStep /\ stack # <<>>
      /\ (phase = "connecting" <=> stack # <<>> /\ stack[1].kind = "connect")
  BY ClientFrame, ClientStack DEF StackInv, PhaseShape
<1>2. QED
  BY <1>1 DEF EndStep, MayGoOn

(* A frame of the initial script that has just been called.                 *)
LEMMA FreshScript ==
  ASSUME OnceInv, OwnNumbers, NumbersLast, ClientStep, wire' = wire,
         NEW f \in FrameType, CallFrom(f, RunFrame(Script))
  PROVE  ScriptPending'
<1>1. ConnTypeOK /\ StackShape /\ stack # <<>> /\ 0 \in 0 .. MaxRequests
  BY ClientStack, ConnectionAssumption DEF OnceInv, StackInv
<1> DEFINE g == RunFrame(Script)
<1>2. /\ FrameOK(g) /\ g.kind = "run" /\ g.at = "send" /\ g.req = Script
      /\ g.seq = IF mode = "plain" THEN 0 ELSE NextSeqNo
  BY <1>1, RunFrameOK DEF Script
<1>3. CallFrom(f, g)
  OBVIOUS
<1> HIDE DEF g
<1>4. stack' # <<>> /\ stack'[Len(stack')] = g
  BY <1>1, <1>2, <1>3, NewTop DEF FrameOK
<1>5. /\ runSeqNo \in Nat /\ NextSeqNo = runSeqNo + 1 /\ SizeOf(NextSeqNo) = NextSeqNo /\ SizeOf(0) = 0
      /\ seen \subseteq 1 .. runSeqNo /\ seen' = seen /\ MaxSeqNo \in Nat
  BY FreshNumber, NextNumber, ClientFrame DEF OnceInv, OwnNumbers, SizeOf
<1>6. SizeOf(g.seq) \in {0, runSeqNo + 1}
  BY <1>2, <1>5
<1>7. ASSUME NEW m \in wire, m.num # 0 PROVE Number(m) \in 1 .. runSeqNo
  <2> DEFINE b == <<m.req, Number(m)>>
  <2>1. b \in Tagged /\ b[2] = Number(m)
    BY <1>7, TaggedFacts
  <2> HIDE DEF b
  <2>2. Number(m) \in 1 .. MaxSeqNo /\ Number(m) <= runSeqNo
    BY <2>1 DEF OnceInv, TagsOfCalls, OwnNumbers
  <2>3. QED
    BY <1>5, <2>2
<1>8. /\ SizeOf(g.seq) \notin seen
      /\ \A m \in wire : ~(m.num # 0 /\ Number(m) = SizeOf(g.seq))
  BY <1>5, <1>6, <1>7
<1>9. Running("run", "send")' /\ Top' = g
  BY <1>2, <1>4 DEF Running, Top
<1>10. QED
  BY <1>2, <1>5, <1>8, <1>9 DEF ScriptPending

ScriptDue == link # NoNode /\ MayGoOn => Scripted(session) \/ BeforeScript \/ ScriptPending

LEMMA ScriptConnect ==
  ASSUME OnceInv, OwnNumbers, NumbersLast, HasScript, ScriptDue, ConnectStep
  PROVE  ScriptDue'
<1>1. SUFFICES ASSUME link' # NoNode, MayGoOn'
               PROVE  Scripted(session)' \/ BeforeScript' \/ ScriptPending'
  BY DEF ScriptDue
<1>2. /\ StackInv /\ StackShape /\ stack # <<>> /\ ClientStep /\ MayGoOn /\ [Next]_vars
      /\ UNCHANGED <<mode, closed>> /\ 0 \in 0 .. MaxRequests /\ ConnTypeOK
  BY <1>1, ClientStack, ClientFrame, GoesOn, ConnectionAssumption
     DEF OnceInv, StackInv, ClientStep, Next
<1>3. Top.kind = "connect" /\ Top \in FrameType /\ stack[1].kind = "connect"
      /\ (stack' = <<>> => phase' = "ready")
  <2>1. Top.kind = "connect"
    BY DEF ConnectStep, ConnectPlain, ConnectReconnect, ConnectFirst, ConnectDialled,
           ConnectClosed, ClusterPerfFails, ClusterPerf, ConnectReturns, InitClientID,
           InitClientIDFails, Running, Top
  <2>2. Top \in FrameType /\ Len(stack) = 1
    BY <1>2, <2>1, TopFacts
  <2>3. stack[1].kind = "connect"
    BY <2>1, <2>2 DEF Top
  <2>4. QED
    BY <1>1, <1>2, <2>1, <2>2, <2>3, GoesOn
<1>4. ASSUME NEW f \in FrameType, f.kind = "connect", f.at \in {"start", "dial", "clientId"},
             Continue(f)
      PROVE  BeforeScript'
  <2>1. stack' # <<>> /\ stack'[Len(stack')] = f
    BY <1>2, <1>4, NewTop
  <2>2. QED
    BY <1>4, <2>1 DEF BeforeScript, Running
<1>5. ASSUME NEW f \in FrameType, NEW h \in Nodes \cup {NoNode}, mode # "plain",
             CallFrom(f, SwitchFrame(h))
      PROVE  BeforeScript'
  <2> DEFINE g == SwitchFrame(h)
  <2>1. FrameOK(g) /\ g.kind = "switch" /\ g.at = "host" /\ CallFrom(f, g)
    BY <1>2, <1>5, OtherFrameOK
  <2> HIDE DEF g
  <2>2. stack' # <<>> /\ stack'[Len(stack')] = g
    BY <1>2, <2>1, NewTop DEF FrameOK
  <2>3. QED
    BY <2>1, <2>2 DEF BeforeScript, Running
<1>6. ASSUME NEW at \in {"start", "dial", "clientId", "return"}, NEW h \in Nodes \cup {NoNode}
      PROVE  /\ [Top EXCEPT !.at = at] \in FrameType /\ [Top EXCEPT !.at = at].kind = "connect"
             /\ [Top EXCEPT !.at = at].at = at
             /\ [Top EXCEPT !.at = at, !.host = h] \in FrameType
             /\ [Top EXCEPT !.at = at, !.host = h].kind = "connect"
             /\ [Top EXCEPT !.at = at, !.host = h].at = at
  BY <1>3, <1>6 DEF FrameType
<1>7. CASE ConnectPlain
  <2>1. closed => stack' = <<>> /\ phase' = "false"
    <3>1. Len(stack) = 1
      BY <1>2, <1>3, TopFacts
    <3>2. QED
      BY <1>2, <1>3, <1>7, <3>1, ReturnEnds DEF ConnectPlain, EndsBottom
  <2>2. ~closed => link' = NoNode
    BY <1>7 DEF ConnectPlain, Dial
  <2>3. QED
    BY <1>1, <1>3, <2>1, <2>2
<1>8. CASE ConnectReconnect
  BY <1>5, <1>6, <1>8 DEF ConnectReconnect
<1>9. CASE ConnectFirst
  BY <1>1, <1>9 DEF ConnectFirst, Dial
<1>10. CASE ConnectDialled
  <2>1. Top.at = "dial" /\ Top.node \in Nodes \cup {NoNode} /\ Top.left \in 0 .. NodeCount
    BY <1>3, <1>10 DEF ConnectDialled, Running, Top, FrameType
  <2>2. CASE \E at \in {"start", "clientId"} : Continue([Top EXCEPT !.at = at, !.host = Top.node])
    <3>1. PICK at \in {"start", "clientId"} : Continue([Top EXCEPT !.at = at, !.host = Top.node])
      BY <2>2
    <3>2. at \in {"start", "dial", "clientId", "return"} /\ Top.node \in Nodes \cup {NoNode}
      BY <2>1
    <3> DEFINE f == [Top EXCEPT !.at = at, !.host = Top.node]
    <3>3. f \in FrameType /\ f.kind = "connect" /\ f.at = at
      BY <1>3, <3>2 DEF FrameType
    <3>4. Continue(f)
      BY <3>1
    <3> HIDE DEF f
    <3>5. QED
      BY <1>4, <3>1, <3>3, <3>4
  <2>3. CASE Continue([Top EXCEPT !.at = "start"])
    BY <1>4, <1>6, <2>3
  <2>4. CASE /\ Continue([Top EXCEPT !.node = Top.node + 1, !.left = @ - 1]) /\ mode # "plain"
             /\ Top.left # 0
    <3>1. Top.node + 1 \in Nodes /\ Top.left - 1 \in 0 .. NodeCount
      <4>1. FrameOK(Top)
        BY <1>2, TopFacts
      <4>2. QED
        BY <1>3, <2>1, <2>4, <4>1, ConnectionAssumption DEF FrameOK, Nodes
    <3> DEFINE f == [Top EXCEPT !.node = Top.node + 1, !.left = @ - 1]
    <3>2. f \in FrameType /\ f.kind = "connect" /\ f.at = "dial"
      BY <1>3, <2>1, <3>1 DEF FrameType
    <3>3. QED
      BY <1>4, <2>4, <3>2
  <2>5. CASE mode = "plain" /\ Return("false")
    <3>1. Len(stack) = 1
      BY <1>2, <1>3, TopFacts
    <3>2. stack' = <<>> /\ phase' = "false"
      BY <1>2, <1>3, <2>5, <3>1, ReturnEnds DEF EndsBottom
    <3>3. QED
      BY <1>3, <3>2
  <2>6. QED
    BY <1>10, <2>2, <2>3, <2>4, <2>5 DEF ConnectDialled
<1>11. CASE ConnectClosed
  BY <1>3, <1>11 DEF ConnectClosed
<1>12. CASE ClusterPerfFails
  <2>1. PICK err \in Errors : stack' = stack \/ CallFrom(Top, SwitchFrame(HostOf(err)))
    BY <1>12 DEF ClusterPerfFails
  <2>2. HostOf(err) \in Nodes \cup {NoNode} /\ mode # "plain" /\ Running("connect", "start")
    BY <1>12 DEF HostOf, ClusterPerfFails
  <2>3. stack' = stack => BeforeScript'
    BY <2>2 DEF BeforeScript, Running
  <2>4. QED
    BY <1>3, <1>5, <2>1, <2>2, <2>3
<1>13. CASE ClusterPerf
  BY <1>1, <1>4, <1>6, <1>13 DEF ClusterPerf
<1>14. CASE ConnectReturns
  <2>1. UNCHANGED <<link, session>> /\ Running("connect", "return")
    BY <1>14 DEF ConnectReturns, serverVars
  <2>2. ~BeforeScript /\ ~ScriptPending
    BY <2>1 DEF BeforeScript, ScriptPending, Running
  <2>3. Scripted(session)
    BY <1>1, <1>2, <2>1, <2>2 DEF ScriptDue
  <2>4. QED
    BY <1>2, <2>1, <2>3, ScriptedStays DEF Scripted
<1>15. CASE InitClientID
  <2>1. CallFrom([Top EXCEPT !.at = "return"], RunFrame(Script)) /\ wire' = wire
    BY <1>15 DEF InitClientID, serverVars
  <2>2. QED
    BY <1>2, <1>6, <2>1, FreshScript
<1>16. CASE InitClientIDFails
  BY <1>3, <1>16 DEF InitClientIDFails, Throw, EndsBottom
<1>17. QED
  BY <1>7, <1>8, <1>9, <1>10, <1>11, <1>12, <1>13, <1>14, <1>15, <1>16 DEF ConnectStep

LEMMA ScriptSwitch ==
  ASSUME OnceInv, OwnNumbers, NumbersLast, HasScript, ScriptDue, SwitchStep
  PROVE  ScriptDue'
<1>1. SUFFICES ASSUME link' # NoNode, MayGoOn'
               PROVE  Scripted(session)' \/ BeforeScript' \/ ScriptPending'
  BY DEF ScriptDue
<1>2. /\ StackInv /\ StackShape /\ stack # <<>> /\ ClientStep /\ MayGoOn /\ [Next]_vars
      /\ UNCHANGED <<mode, closed>>
  BY <1>1, ClientStack, ClientFrame, GoesOn DEF OnceInv, StackInv, ClientStep, Next
<1>3. Top.kind = "switch" /\ Top \in FrameType /\ mode # "plain"
  <2>1. Top.kind = "switch"
    BY DEF SwitchStep, SwitchDataNode, SwitchConnected, SwitchNext, SwitchReturns, Running, Top
  <2>2. QED
    BY <1>2, <2>1, TopFacts DEF FrameOK
<1>4. [Top EXCEPT !.at = "host"] \in FrameType /\ [Top EXCEPT !.at = "return"] \in FrameType
      /\ [Top EXCEPT !.at = "host"].kind = "switch" /\ [Top EXCEPT !.at = "host"].at = "host"
  BY <1>3 DEF FrameType
<1>5. ASSUME UNCHANGED <<link, session>>, ~Running("switch", "host")
      PROVE  Scripted(session)'
  <2>1. ~BeforeScript /\ ~ScriptPending
    BY <1>3, <1>5 DEF BeforeScript, ScriptPending, Running, Top
  <2>2. Scripted(session)
    BY <1>1, <1>2, <1>5, <2>1 DEF ScriptDue
  <2>3. QED
    BY <1>2, <1>5, <2>2, ScriptedStays DEF Scripted
<1>6. CASE SwitchDataNode
  BY <1>1, <1>2, <1>3, <1>6 DEF SwitchDataNode, Dial, MayGoOn
<1>7. CASE SwitchConnected
  <2>1. CallFrom([Top EXCEPT !.at = "return"], RunFrame(Script)) /\ wire' = wire
    BY <1>7 DEF SwitchConnected, ScriptOnMove
  <2>2. QED
    BY <1>2, <1>4, <2>1, FreshScript
<1>8. CASE SwitchNext
  BY <1>3, <1>5, <1>8 DEF SwitchNext, DialFails, Running
<1>9. CASE SwitchReturns
  BY <1>3, <1>5, <1>9 DEF SwitchReturns, serverVars, Running
<1>10. QED
  BY <1>6, <1>7, <1>8, <1>9 DEF SwitchStep

LEMMA ScriptCall ==
  ASSUME OnceInv, OwnNumbers, NumbersLast, HasScript, ScriptDue, CallStep
  PROVE  ScriptDue'
<1>1. SUFFICES ASSUME link' # NoNode, MayGoOn'
               PROVE  Scripted(session)' \/ BeforeScript' \/ ScriptPending'
  BY DEF ScriptDue
<1>2. /\ StackInv /\ StackShape /\ stack # <<>> /\ ClientStep /\ MayGoOn /\ [Next]_vars
      /\ UNCHANGED <<mode, closed, seen>> /\ ConnTypeOK /\ ServerTypeOK
  BY <1>1, ClientStack, ClientFrame, GoesOn DEF OnceInv, StackInv, ClientStep, Next
<1>3. Top.kind \in {"run", "upload"} /\ Top \in FrameType
  <2>1. Top.kind \in {"run", "upload"}
    BY DEF CallStep, CallClosed, Send, Receive, ReceiveFails, Rethrow, TryElsewhere, Calling,
           Running, Top
  <2>2. QED
    BY <1>2, <2>1, TopFacts
<1>4. ~BeforeScript
  BY <1>3 DEF BeforeScript, Running, Top
<1>5. ASSUME UNCHANGED <<link, session>>, ~ScriptPending PROVE Scripted(session)'
  <2>1. Scripted(session)
    BY <1>1, <1>2, <1>4, <1>5 DEF ScriptDue
  <2>2. QED
    BY <1>2, <1>5, <2>1, ScriptedStays DEF Scripted
<1>6. CASE CallClosed
  BY <1>1, <1>2, <1>6 DEF CallClosed, MayGoOn
<1>7. CASE Send
  <2>1. /\ UNCHANGED <<link, session, clientId>> /\ Connected
        /\ wire' = wire \cup {Message(Top)} /\ reply' = NoAnswer
        /\ Continue([Top EXCEPT !.at = "reply"])
    BY <1>1, <1>2, <1>7, ConnectedIsLinked DEF Send
  <2>2. CASE ~ScriptPending
    BY <1>5, <2>1, <2>2
  <2>3. CASE ScriptPending
    <3>1. Top.at = "send" /\ Top.kind = "run" /\ ~Running("run", "reply")
      BY <1>3, <1>7, <2>3 DEF Send, Calling, Running, Top, ScriptPending
    <3> DEFINE f == [Top EXCEPT !.at = "reply"]
    <3>2. /\ f \in FrameType /\ f.kind = "run" /\ f.at = "reply" /\ f.req = Top.req
          /\ f.seq = Top.seq
      BY <1>3, <3>1 DEF FrameType
    <3>3. Continue(f)
      BY <2>1
    <3> HIDE DEF f
    <3>4. stack' # <<>> /\ stack'[Len(stack')] = f
      BY <1>2, <3>2, <3>3, NewTop
    <3>5. Running("run", "reply")' /\ Top' = f
      BY <3>2, <3>4 DEF Running, Top
    <3>6. Message(Top).in = session
      BY DEF Message
    <3>7. ASSUME NEW m \in wire', m.num # 0 /\ Number(m) = SizeOf(Top.seq) PROVE m.in = session
      BY <2>1, <2>3, <3>1, <3>6, <3>7 DEF ScriptPending
    <3>8. ScriptPending'
      BY <1>2, <2>1, <2>3, <3>2, <3>5, <3>7 DEF ScriptPending
    <3>9. QED
      BY <3>8
  <2>4. QED
    BY <2>2, <2>3
<1>8. CASE Receive
  <2>1. UNCHANGED <<link, session>> /\ reply # NoAnswer /\ ~Running("run", "send")
    BY <1>8 DEF Receive, Calling, Running
  <2>2. QED
    BY <1>5, <2>1 DEF ScriptPending
<1>9. CASE ReceiveFails
  BY <1>1, <1>9 DEF ReceiveFails, serverVars
<1>10. CASE Rethrow
  <2>1. UNCHANGED <<link, session>> /\ Top.at = "caught"
    BY <1>10 DEF Rethrow, serverVars, Calling, Running, Top
  <2>2. QED
    BY <1>5, <2>1 DEF ScriptPending, Running, Top
<1>11. CASE TryElsewhere
  <2>1. /\ CallFrom(Again(Top), SwitchFrame(HostOf(Top.err))) /\ mode # "plain"
        /\ HostOf(Top.err) \in Nodes \cup {NoNode}
    BY <1>11 DEF TryElsewhere, HostOf
  <2>2. Again(Top) \in FrameType
    <3>1. /\ Top.seq \in -MaxSeqNo .. MaxSeqNo /\ MaxSeqNo \in Nat
      BY <1>3, ConnectionAssumption DEF FrameType
    <3> DEFINE s == IF Top.seq > 0 THEN -Top.seq ELSE Top.seq
    <3>2. s \in -MaxSeqNo .. MaxSeqNo
      BY <3>1
    <3>3. Again(Top) = [Top EXCEPT !.at = "send", !.err = NoAnswer, !.seq = s]
      BY DEF Again
    <3> HIDE DEF s
    <3>4. QED
      BY <1>3, <3>2, <3>3 DEF FrameType
  <2> DEFINE g == SwitchFrame(HostOf(Top.err))
  <2>3. FrameOK(g) /\ g.kind = "switch" /\ g.at = "host" /\ CallFrom(Again(Top), g)
    BY <1>2, <2>1, OtherFrameOK
  <2> HIDE DEF g
  <2>4. stack' # <<>> /\ stack'[Len(stack')] = g
    BY <1>2, <2>2, <2>3, NewTop DEF FrameOK
  <2>5. BeforeScript'
    BY <2>3, <2>4 DEF BeforeScript, Running
  <2>6. QED
    BY <2>5
<1>12. QED
  BY <1>6, <1>7, <1>8, <1>9, <1>10, <1>11 DEF CallStep

LEMMA ScriptOutside ==
  ASSUME OnceInv, OwnNumbers, HasScript, ScriptDue, OutsideStep
  PROVE  ScriptDue'
<1>1. SUFFICES ASSUME link' # NoNode, MayGoOn'
               PROVE  Scripted(session)' \/ BeforeScript' \/ ScriptPending'
  BY DEF ScriptDue
<1>2. UNCHANGED <<mode, phase, stack, session, clientId>> /\ StackInv /\ [Next]_vars
  BY OutsideFrame DEF OnceInv, OutsideStep, Next
<1>3. /\ \A k, at : Running(k, at)' <=> Running(k, at)
      /\ Top' = Top /\ (BeforeScript' <=> BeforeScript)
  BY <1>2 DEF Running, Top, BeforeScript
<1>4. ASSUME link' = link, closed' = closed
      PROVE  Scripted(session)' \/ BeforeScript' \/ ScriptPending
  <2>1. Scripted(session) \/ BeforeScript \/ ScriptPending
    BY <1>1, <1>2, <1>4 DEF ScriptDue, MayGoOn
  <2>2. QED
    BY <1>2, <1>3, <2>1, ScriptedStays DEF Scripted
<1>5. ASSUME UNCHANGED <<reply, seen>>, wire' \subseteq wire, ScriptPending
      PROVE  ScriptPending'
  BY <1>2, <1>3, <1>5 DEF ScriptPending
<1>6. ASSUME NEW m \in wire, Execute(m)
      PROVE  Scripted(session)' \/ BeforeScript' \/ ScriptPending'
  <2>1. link' = link /\ closed' = closed /\ wire' = wire \ {m}
    BY <1>6 DEF Execute, connVars
  <2>2. CASE ScriptPending /\ Awaited(m)
    <3>1. m = Message(Top) /\ Top.req = Script /\ SizeOf(Top.seq) \notin seen
      BY <2>2 DEF OnceInv, StackInv, OneAwaited, ScriptPending
    <3>2. /\ m.req = Script /\ m.in = session
          /\ m.num # 0 => Number(m) = SizeOf(Top.seq)
      BY <3>1 DEF Message, Number, SizeOf
    <3>3. ranIn' = ranIn \cup {<<Script, session>>}
      BY <1>6, <3>1, <3>2 DEF Execute
    <3>4. QED
      BY <1>2, <3>3 DEF Scripted
  <2>3. CASE ScriptPending /\ ~Awaited(m)
    <3>1. reply' = reply
      BY <1>6, <2>3 DEF Execute, Answer
    <3>2. m.num # 0 => Number(m) # SizeOf(Top.seq)
      BY <1>1, <2>1, <2>3 DEF ScriptPending, Awaited
    <3>3. SizeOf(Top.seq) \notin seen'
      BY <1>6, <2>3, <3>2 DEF Execute, ScriptPending
    <3>4. ScriptPending'
      BY <1>2, <1>3, <2>1, <2>3, <3>1, <3>3 DEF ScriptPending
    <3>5. QED
      BY <3>4
  <2>4. QED
    BY <1>4, <2>1, <2>2, <2>3
<1>7. ASSUME NEW m \in wire, Refuse(m)
      PROVE  Scripted(session)' \/ BeforeScript' \/ ScriptPending'
  <2>1. link' = link /\ closed' = closed /\ Awaited(m)
    BY <1>7 DEF Refuse, connVars
  <2>2. CASE ScriptPending
    <3>1. m.req = Script /\ m.in = session
      BY <2>1, <2>2 DEF OnceInv, StackInv, OneAwaited, ScriptPending, Message
    <3>2. scriptFailed' = scriptFailed \cup {session}
      BY <1>7, <3>1 DEF Refuse
    <3>3. QED
      BY <1>2, <3>2 DEF Scripted
  <2>3. QED
    BY <1>4, <2>1, <2>2
<1>8. ASSUME NEW m \in wire, Vanish(m)
      PROVE  Scripted(session)' \/ BeforeScript' \/ ScriptPending'
  BY <1>4, <1>5, <1>8 DEF Vanish, connVars
<1>9. CASE Close
  <2>1. link # NoNode => isConnected
    BY <1>2 DEF StackInv, ServerTypeOK
  <2>2. link' = NoNode
    BY <1>9, <2>1 DEF Close
  <2>3. QED
    BY <1>1, <2>2
<1>10. CASE LinkFails
  BY <1>1, <1>10 DEF LinkFails
<1>11. ASSUME NEW n \in Nodes, NodeStops(n)
       PROVE  Scripted(session)' \/ BeforeScript' \/ ScriptPending'
  BY <1>1, <1>4, <1>5, <1>11 DEF NodeStops, connVars
<1>12. QED
  BY <1>6, <1>7, <1>8, <1>9, <1>10, <1>11 DEF OutsideStep, ServerStep

LEMMA ScriptDueNext ==
  ASSUME OnceInv, OwnNumbers, NumbersLast, HasScript, ScriptDue, [Next]_vars
  PROVE  ScriptDue'
<1>1. CASE ClientStep
  BY <1>1, ScriptConnect, ScriptSwitch, ScriptCall DEF ClientStep
<1>2. ASSUME NEW kind \in {"run", "upload"}, Call(kind) PROVE ScriptDue'
  <2>1. stack = <<>> /\ UNCHANGED <<mode, phase, closed, link, session, ranIn, scriptFailed>>
    BY <1>2, CallFrame, CallPushes DEF OnceInv, serverVars
  <2>2. ~BeforeScript /\ ~ScriptPending
    BY <2>1 DEF BeforeScript, ScriptPending, Running
  <2>3. QED
    BY <2>1, <2>2 DEF ScriptDue, MayGoOn, Scripted
<1>3. CASE OutsideStep
  BY <1>3, ScriptOutside
<1>4. CASE UNCHANGED vars
  <2>1. UNCHANGED <<mode, phase, closed, link, session, stack, wire, reply, seen, ranIn, scriptFailed>>
    BY <1>4 DEF vars, connVars, serverVars, histVars
  <2>2. (BeforeScript' <=> BeforeScript) /\ (ScriptPending' <=> ScriptPending)
    BY <2>1 DEF BeforeScript, ScriptPending, Running, Top
  <2>3. QED
    BY <2>1, <2>2 DEF ScriptDue, MayGoOn, Scripted
<1>5. QED
  BY <1>1, <1>2, <1>3, <1>4, NextSteps

LEMMA ScriptInvNext ==
  ASSUME OnceInv, OwnNumbers, NumbersLast, ScriptInv, [Next]_vars
  PROVE  ScriptInv'
<1>1. SUFFICES ASSUME HasScript PROVE ScriptInv'
  BY DEF ScriptInv
<1>2. ScriptDue /\ StackInv
  BY <1>1 DEF ScriptInv, ScriptDue, OnceInv
<1>3. ScriptDue'
  BY <1>1, <1>2, ScriptDueNext
<1>4. ASSUME NEW m \in wire', m.req # Script PROVE Scripted(m.in)'
  <2>1. Scripted(m.in)
    <3>1. CASE m \in wire
      BY <1>1, <1>4, <3>1 DEF ScriptInv
    <3>2. CASE m \notin wire
      <4>1. ClientStep
        <5>1. \A kind \in {"run", "upload"} : Call(kind) => wire' = wire
          BY CallFrame DEF serverVars
        <5>2. OutsideStep \/ UNCHANGED vars => wire' \subseteq wire
          BY DEF OutsideStep, ServerStep, Execute, Refuse, Vanish, Close, LinkFails, NodeStops,
                 vars, serverVars
        <5>3. QED
          BY <1>4, <3>2, <5>1, <5>2, NextSteps
      <4>2. /\ Send /\ Connected /\ m = Message(Top) /\ Top.kind \in {"run", "upload"}
            /\ stack # <<>> /\ Top.at = "send" /\ (mode = "plain" \/ ~closed)
        BY <1>2, <1>4, <3>2, <4>1, ClientLink DEF Send, Calling, Running, Top
      <4>3. m.req = Top.req /\ m.in = session /\ link # NoNode
        BY <1>2, <4>2, ConnectedIsLinked DEF Message, StackInv
      <4>4. Len(stack) = 1
        <5>1. /\ Len(stack) \in Nat /\ Len(stack) > 0
              /\ Top.kind \in {"connect", "upload"} => Len(stack) = 1
              /\ Top.kind = "run" /\ Len(stack) > 1 => Top.req = Script
          BY <1>2, <4>2, TopFacts DEF StackInv
        <5>2. Top.kind = "run" => ~(Len(stack) > 1)
          BY <1>4, <4>3, <5>1
        <5>3. \A n \in Nat : n > 0 => n > 1 \/ n = 1
          OBVIOUS
        <5>4. QED
          BY <4>2, <5>1, <5>2, <5>3
      <4>5. phase = "ready"
        BY <1>2, <4>2, <4>4 DEF StackInv, PhaseShape, Top
      <4>6. ~BeforeScript /\ ~ScriptPending
        BY <1>4, <4>2, <4>3 DEF BeforeScript, ScriptPending, Running, Top
      <4>7. QED
        BY <1>2, <4>2, <4>3, <4>5, <4>6 DEF ScriptDue, MayGoOn
    <3>3. QED
      BY <3>1, <3>2
  <2>2. QED
    BY <2>1, ScriptedStays DEF Scripted
<1>5. ASSUME NEW e \in ranIn', e[1] # Script PROVE Scripted(e[2])'
  <2>1. CASE e \in ranIn
    <3>1. Scripted(e[2])
      BY <1>1, <1>5, <2>1 DEF ScriptInv
    <3>2. QED
      BY <3>1, ScriptedStays DEF Scripted
  <2>2. CASE e \notin ranIn
    <3>1. PICK m \in wire : e = <<m.req, m.in>>
      BY <1>5, <2>2, ExecuteSteps DEF Executes
    <3>2. Scripted(m.in) /\ e[2] = m.in
      BY <1>1, <1>5, <3>1 DEF ScriptInv
    <3>3. QED
      BY <3>2, ScriptedStays DEF Scripted
  <2>3. QED
    BY <2>1, <2>2
<1>6. QED
  BY <1>3, <1>4, <1>5 DEF ScriptInv, ScriptDue

-----------------------------------------------------------------------------
(* Theorems about a connection whose numbers do not come to an end.         *)

LEMMA TypesFollow ==
  ASSUME StackInv, seen \subseteq 1 .. runSeqNo
  PROVE  TypeOK
<1>1. /\ ConnTypeOK /\ StackShape /\ PhaseShape /\ ServerTypeOK /\ HistTypeOK
  BY DEF StackInv
<1>2. ASSUME NEW i \in DOMAIN stack
      PROVE  /\ stack[i].kind = "connect" => i = 1 /\ phase = "connecting"
             /\ stack[i].kind = "upload" => i = 1
             /\ i > 1 /\ stack[i].kind = "switch" => stack[i - 1].kind # "switch"
             /\ i > 1 /\ stack[i].kind = "run" =>
                  stack[i].req = Script /\ stack[i - 1].kind \in {"switch", "connect"}
  <2>1. Len(stack) \in Nat /\ DOMAIN stack = 1 .. Len(stack) /\ stack # <<>>
    BY <1>1, <1>2 DEF StackShape
  <2>2. i \in Nat /\ (i > 1 => MayCall(stack[i - 1], stack[i])) /\ (i > 1 \/ i = 1)
    BY <1>1, <1>2, <2>1 DEF StackShape
  <2>3. \A f, g : MayCall(f, g) =>
          /\ g.kind \in {"switch", "run"}
          /\ g.kind = "switch" => f.kind # "switch"
          /\ g.kind = "run" => g.req = Script /\ f.kind \in {"switch", "connect"}
    BY DEF MayCall
  <2>4. stack[i].kind \in {"connect", "upload"} => i = 1
    BY <2>2, <2>3
  <2>5. stack[1].kind = "connect" => phase = "connecting"
    BY <1>1, <2>1 DEF PhaseShape
  <2>6. QED
    BY <2>2, <2>3, <2>4, <2>5
<1>3. /\ mode \in Modes
      /\ phase \in {"connecting", "ready", "false", "error", "crashed", "null"}
      /\ closed \in BOOLEAN /\ isConnected \in BOOLEAN /\ clientId \in BOOLEAN
      /\ runSeqNo \in 0 .. MaxSeqNo
      /\ lastIndex \in 0 .. NodeCount - 1
  BY <1>1 DEF ConnTypeOK
<1>4. stack \in Seq(FrameType)
  BY <1>1 DEF StackShape
<1>5. /\ up \subseteq Nodes
      /\ link \in up \cup {NoNode}
      /\ session \in Nat
      /\ \A m \in wire : m.in \in 1 .. session
      /\ reply \in Refusals \cup {NoAnswer, Ok}
      /\ faults \in 0 .. MaxFaults
  BY <1>1 DEF ServerTypeOK
<1>6. /\ requests \in 0 .. MaxRequests
      /\ uploads \subseteq 1 .. requests
      /\ outcome \in [Requests -> {"none", "ok", "error", "null"}]
      /\ ran \in [Requests -> Nat]
  BY <1>1 DEF HistTypeOK
<1>7. QED
  BY <1>2, <1>3, <1>4, <1>5, <1>6 DEF TypeOK

LEMMA AnswerInvInit ==
  ASSUME Init
  PROVE  OnceInv /\ AnswerInv
<1>1. OnceInv
  BY OnceInvInit
<1>2. ASSUME NEW a \in Tagged PROVE FALSE
  BY <1>2, NoTagsInit
<1>3. Running("connect", "start")
  BY DEF Init, Running, Frame
<1>4. AnsweredIsExecuted
  BY DEF Init, AnsweredIsExecuted
<1>5. OwnNumbers
  BY <1>2 DEF Init, OwnNumbers
<1>6. AnswerExecuted /\ ScriptInv
  BY <1>3 DEF Init, AnswerExecuted, ScriptInv, BeforeScript
<1>7. QED
  BY <1>1, <1>4, <1>5, <1>6 DEF AnswerInv

LEMMA AnswerInvNext ==
  ASSUME OnceInv, AnswerInv, NumbersLast, [Next]_vars
  PROVE  OnceInv' /\ AnswerInv'
<1>1. OnceInv'
  BY OnceInvNext
<1>2. StackInv /\ TagsOfCalls /\ OwnNumbers /\ AnswerExecuted /\ AnsweredIsExecuted /\ ScriptInv
  BY DEF OnceInv, AnswerInv
<1>3. OwnNumbers' /\ AnswerExecuted' /\ AnsweredIsExecuted' /\ ScriptInv'
  BY <1>2, OwnNumbersNext, AnswerExecutedNext, AnsweredNext, ScriptInvNext
<1>4. QED
  BY <1>1, <1>3 DEF AnswerInv

(* While the numbers last, a number is that of one request, and the initial *)
(* script has been executed or refused, or is about to be, wherever the     *)
(* connection is linked (nextSeqNo() and switchDataNode()).                 *)
THEOREM AnswerInvCorrect == Spec /\ []NumbersLast => [](OnceInv /\ AnswerInv)
<1>1. Init => OnceInv /\ AnswerInv
  BY AnswerInvInit
<1>2. (OnceInv /\ AnswerInv) /\ NumbersLast /\ [Next]_vars => (OnceInv /\ AnswerInv)'
  BY AnswerInvNext
<1>3. QED
  BY <1>1, <1>2, PTL DEF Spec

(* A call that returns an answer has been executed, and the calls are       *)
(* nested as they may be, as long as run() has numbers to give.             *)
THEOREM AnswersCorrect == Spec /\ []NumbersLast => []AnswersAreTrue
<1>1. OnceInv /\ AnswerInv => AnswersAreTrue
  BY TypesFollow DEF OnceInv, AnswerInv, OwnNumbers, AnswersAreTrue
<1>2. QED
  BY <1>1, AnswerInvCorrect, PTL

(* On every node the connection moves to the initial script is executed     *)
(* before any call of the application, unless the node refuses it.          *)
THEOREM ScriptFirstCorrect == Spec /\ []NumbersLast => []ScriptFirst
<1>1. OnceInv /\ AnswerInv => ScriptFirst
  BY DEF AnswerInv, ScriptInv, Scripted, ScriptFirst
<1>2. QED
  BY <1>1, AnswerInvCorrect, PTL
=============================================================================
