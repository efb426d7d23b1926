-------------------------- MODULE StreamSitesProofs --------------------------
(***************************************************************************)
(* Proofs about StreamSites, for any number of nodes, sites, connections,  *)
(* rows and failures: the rows of a subscription that moves between sites  *)
(* are consecutive, it has the one entry its ID leads to, its sites are    *)
(* those that remain, and after unsubscribe() nothing of it does.          *)
(***************************************************************************)
EXTENDS StreamSites, SequenceTheorems, TLAPS

-----------------------------------------------------------------------------
(* The parts of the types, and what a step may do to the connections.       *)

InfoTypes == entry \in [Topics -> SiteInfos \cup {NoEntry, Invalid}]
MapTypes ==
  /\ topic \in Topics \cup {NoTopic}
  /\ live \subseteq Topics /\ siteCnt \in [Topics -> Int]
CopyTypes == info \in SiteInfos \cup {NoEntry}
InitTypes == initSites \in Seq(SiteInfos)
MarkTypes == marked \subseteq Nodes /\ toVisit \subseteq marked
NodeTypes == up \subseteq Nodes /\ leader \in up \cup {NoNode}
ParseTypes == parse \in [Links -> {"none", "read", "stamp", "mark", "done"}]

LEMMA TypeParts ==
  SitesTypeOK <=> /\ InfoTypes /\ MapTypes /\ CopyTypes /\ InitTypes
                  /\ MarkTypes /\ NodeTypes /\ ParseTypes
BY DEF SitesTypeOK, InfoTypes, MapTypes, CopyTypes, InitTypes, MarkTypes, NodeTypes, ParseTypes

(* The parts of SitesControl. *)
AppControl ==
  /\ given \in SiteLists /\ subOnce \in BOOLEAN
  /\ appHost \in Nodes /\ (~ha => appHost = 1) /\ (app = "erase" => appTopic \in Topics)
ReconControl ==
  /\ recon \in Copies \cup {"sleep", "round", "init"}
  /\ recon \in {"sleep", "round"} <=> info = NoInfo
  /\ recon \in Copies => visited \in Nodes
  /\ recon \in {"sleep", "init"} => toVisit = {}
  /\ recon \in {"site", "try"} => ~ha
  /\ recon = "leader" => ha /\ index \in Nodes
LinkControl ==
  /\ linksMade \in 0 .. MaxLinks
  /\ \A c \in Links :
       /\ conn[c].open => c <= linksMade
       /\ parse[c] \in {"read", "stamp", "mark"} => conn[c].node \in Nodes /\ c <= linksMade

LEMMA ControlParts == SitesControl <=> AppControl /\ ReconControl /\ LinkControl
BY DEF SitesControl, AppControl, ReconControl, LinkControl

(* No connection is made, and one that holds goes on where it was.          *)
LinksFall ==
  /\ linksMade' = linksMade
  /\ \A c \in Links : conn'[c].open =>
       conn[c].open /\ conn'[c].node = conn[c].node /\ conn'[c].next = conn[c].next

(* The connection to a site that is made, of which i is the info.           *)
LinkMade(i) ==
  /\ linksMade' = linksMade + 1 /\ linksMade' \in Links
  /\ \A c \in Links \ {linksMade'} : conn'[c] = conn[c] /\ parse'[c] = parse[c]
  /\ conn'[linksMade'].node = i.host /\ conn'[linksMade'].open
  /\ conn'[linksMade'].next = i.offset /\ parse'[linksMade'] = "read"

-----------------------------------------------------------------------------
(* Constants and records. *)

LEMMA Numbers ==
  /\ NodeCount \in Nat \ {0} /\ MaxLinks \in Nat \ {0} /\ MaxSiteRows \in Nat
  /\ 1 \in Nodes /\ Nodes \subseteq Topics /\ Unknown \in Topics /\ Unknown \notin Nodes
  /\ NoNode \notin Nodes /\ NoTopic \notin Topics /\ Topics = Nodes \cup {Unknown}
  /\ Nodes \subseteq Nat /\ Links \subseteq Nat \ {0}
<1>1. NodeCount \in Nat \ {0} /\ MaxLinks \in Nat \ {0} /\ MaxSiteRows \in Nat
  BY SitesAssumption
<1> QED
  BY <1>1 DEF Nodes, Topics, Unknown, NoNode, NoTopic, Links

(* NoEntry and Invalid are of no subscription. *)
LEMMA NobodySubscribed == ~Subscribed(NoEntry) /\ ~Subscribed(Invalid)
BY DEF Subscribed, NoEntry, Invalid

(* The fields of an info. *)
LEMMA InfoFields ==
  ASSUME NEW i \in SiteInfos
  PROVE  /\ i # NoEntry /\ i # NoInfo /\ i # Invalid /\ Subscribed(i)
         /\ i.sites \in Seq(Nodes) /\ i.current \in Int /\ i.last \in Int
         /\ i.host \in Nodes /\ i.offset \in 0 .. MaxSiteRows /\ i.socket \in 0 .. MaxLinks
         /\ i.haSites \in BOOLEAN /\ i.threads \in BOOLEAN
         /\ i.current \in Rank /\ i.last \in Rank
<1>1. i.host \in Nodes
  BY DEF SiteInfos
<1>2. i # NoEntry /\ i # Invalid /\ Subscribed(i)
  BY <1>1, Numbers, NobodySubscribed DEF Subscribed
<1> QED
  BY <1>1, <1>2 DEF SiteInfos, Rank, NoInfo

(* An entry that is there is an info. *)
LEMMA EntryFields ==
  ASSUME InfoTypes, NEW t \in Topics
  PROVE  t \in Entries <=> entry[t] \in SiteInfos
BY InfoFields, NobodySubscribed DEF InfoTypes, Entries

LEMMA NodeEntryFields ==
  ASSUME InfoTypes
  PROVE  /\ NodeEntries \subseteq Nodes
         /\ \A t \in Nodes : t \in NodeEntries <=> Subscribed(entry[t])
BY Numbers DEF NodeEntries, Entries

(* The info of a subscription that subscribe() makes ... *)
LEMMA NewInfoFields ==
  ASSUME given \in SiteLists, NEW n \in Nodes
  PROVE  /\ NewInfo(n) \in SiteInfos /\ NewInfo(n).sites = given /\ NewInfo(n).host = n
         /\ NewInfo(n).last = -1 /\ NewInfo(n).offset = 0
         /\ ~ha => NewInfo(n).current = 0
<1>1. given \in Seq(Nodes)
  BY SitesAssumption
<1>2. (IF ha THEN -1 ELSE 0) \in Rank
  BY DEF Rank
<1>3. 0 \in 0 .. MaxSiteRows /\ 0 \in 0 .. MaxLinks /\ -1 \in Rank
  BY Numbers DEF Rank
<1> QED
  BY <1>1, <1>2, <1>3 DEF NewInfo, SiteInfos

(* ... and one when it is connected. *)
LEMMA ConnectedFields ==
  ASSUME linksMade \in 0 .. MaxLinks, linksMade < MaxLinks, NEW i \in SiteInfos
  PROVE  /\ Connected(i) \in SiteInfos
         /\ Connected(i).sites = i.sites /\ Connected(i).current = i.current
         /\ Connected(i).last = i.last /\ Connected(i).host = i.host
         /\ Connected(i).offset = i.offset /\ Connected(i).socket = linksMade + 1
<1>1. linksMade + 1 \in 0 .. MaxLinks
  BY Numbers
<1>2. ha \in BOOLEAN
  BY DEF ha
<1> QED
  BY <1>1, <1>2 DEF Connected, SiteInfos

(* The connection that ConnectSite() makes. *)
LEMMA ConnectMakes ==
  ASSUME linksMade \in 0 .. MaxLinks, LinkTypeOK, ParseTypes,
         NEW i \in SiteInfos, ConnectSite(i)
  PROVE  /\ LinkMade(i) /\ linksMade < MaxLinks /\ LinkTypeOK' /\ ParseTypes'
<1>1. linksMade < MaxLinks /\ linksMade' = linksMade + 1 /\ linksMade' \in Links
  BY Numbers DEF ConnectSite, Links
<1> DEFINE link == [node |-> i.host, open |-> TRUE, met |-> FALSE, next |-> i.offset]
<1>2. /\ conn' = [conn EXCEPT ![linksMade'] = link]
      /\ parse' = [parse EXCEPT ![linksMade'] = "read"]
  BY DEF ConnectSite
<1>3. /\ link \in [node : Nodes \cup {NoNode}, open : BOOLEAN, met : BOOLEAN, next : 0 .. MaxSiteRows]
      /\ link.node = i.host /\ link.open /\ link.next = i.offset
  BY InfoFields
<1> HIDE DEF link
<1>4. conn'[linksMade'] = link /\ parse'[linksMade'] = "read"
  BY <1>1, <1>2 DEF LinkTypeOK, ParseTypes
<1>5. \A c \in Links \ {linksMade'} : conn'[c] = conn[c] /\ parse'[c] = parse[c]
  BY <1>1, <1>2 DEF LinkTypeOK, ParseTypes
<1>6. LinkTypeOK' /\ ParseTypes'
  BY <1>1, <1>2, <1>3 DEF LinkTypeOK, ParseTypes
<1> QED
  BY <1>1, <1>3, <1>4, <1>5, <1>6 DEF LinkMade

(* A subscription that moves to another node. *)
LEMMA MovedEntries ==
  ASSUME InfoTypes, MapTypes, NEW old \in Topics, NEW new \in Topics, old # new,
         NEW i \in SiteInfos, MovedTo(old, new, i)
  PROVE  /\ entry'[old] = NoEntry /\ entry'[new] = i
         /\ \A t \in Topics \ {old, new} : entry'[t] = entry[t]
         /\ Entries' = (Entries \ {old}) \cup {new}
         /\ topic' = new /\ InfoTypes' /\ MapTypes'
<1>1. entry' = [entry EXCEPT ![old] = NoEntry, ![new] = i] /\ topic' = new
  BY DEF MovedTo
<1>2. entry'[old] = NoEntry /\ entry'[new] = i /\ \A t \in Topics \ {old, new} : entry'[t] = entry[t]
  BY <1>1 DEF InfoTypes
<1>3. InfoTypes'
  BY <1>1 DEF InfoTypes
<1>4. MapTypes'
  <2>1. CASE entry[old] = NoEntry
    BY <2>1 DEF MovedTo, MapTypes
  <2>2. CASE entry[old] # NoEntry
    BY <2>2 DEF MovedTo, MapTypes
  <2> QED
    BY <2>1, <2>2
<1>5. Entries' = (Entries \ {old}) \cup {new}
  BY <1>2, InfoFields, NobodySubscribed DEF Entries
<1> QED
  BY <1>1, <1>2, <1>3, <1>4, <1>5

(* A subscription that is entered. *)
LEMMA InsertedEntries ==
  ASSUME InfoTypes, MapTypes, NEW t \in Topics, NEW i \in SiteInfos, InsertedInto(t, i)
  PROVE  /\ entry'[t] = i /\ \A u \in Topics \ {t} : entry'[u] = entry[u]
         /\ Entries' = Entries \cup {t} /\ topic' = t /\ live' = live \cup {t}
         /\ siteCnt'[t] = siteCnt[t] + 1 /\ \A u \in Topics \ {t} : siteCnt'[u] = siteCnt[u]
         /\ InfoTypes' /\ MapTypes'
<1>1. entry'[t] = i /\ \A u \in Topics \ {t} : entry'[u] = entry[u]
  BY DEF InsertedInto, InfoTypes
<1>2. Entries' = Entries \cup {t}
  BY <1>1, InfoFields DEF Entries
<1>3. InfoTypes' /\ MapTypes'
  BY DEF InsertedInto, InfoTypes, MapTypes
<1>4. siteCnt'[t] = siteCnt[t] + 1 /\ \A u \in Topics \ {t} : siteCnt'[u] = siteCnt[u]
  BY DEF InsertedInto, MapTypes
<1> QED
  BY <1>1, <1>2, <1>3, <1>4 DEF InsertedInto

-----------------------------------------------------------------------------
(* A list of sites without one of them. *)

LEMMA WithoutOne ==
  ASSUME NEW S, NEW s \in Seq(S), NEW k \in 1 .. Len(s)
  PROVE  /\ Without(s, k) \in Seq(S) /\ Len(Without(s, k)) = Len(s) - 1
         /\ \A j \in 1 .. Len(s) - 1 :
              Without(s, k)[j] = IF j < k THEN s[j] ELSE s[j + 1]
<1> DEFINE a == SubSeq(s, 1, k - 1)
           b == SubSeq(s, k + 1, Len(s))
<1>1. Len(s) \in Nat /\ k \in Nat /\ k >= 1 /\ k <= Len(s)
  BY LenProperties
<1>2. /\ a \in Seq(S) /\ Len(a) = k - 1 /\ \A j \in 1 .. k - 1 : a[j] = s[j]
  <2>1. \A j \in 1 .. k - 1 : s[j] \in S
    BY <1>1, ElementOfSeq
  <2>2. /\ a \in Seq(S) /\ Len(a) = IF 1 <= k - 1 THEN (k - 1) - 1 + 1 ELSE 0
        /\ \A j \in 1 .. (k - 1) - 1 + 1 : a[j] = s[1 + j - 1]
    BY <1>1, <2>1, SubSeqProperties
  <2> QED
    BY <1>1, <2>2
<1>3. /\ b \in Seq(S) /\ Len(b) = Len(s) - k /\ \A j \in 1 .. Len(s) - k : b[j] = s[k + j]
  <2>1. \A j \in k + 1 .. Len(s) : s[j] \in S
    BY <1>1, ElementOfSeq
  <2>2. /\ b \in Seq(S) /\ Len(b) = IF k + 1 <= Len(s) THEN Len(s) - (k + 1) + 1 ELSE 0
        /\ \A j \in 1 .. Len(s) - (k + 1) + 1 : b[j] = s[(k + 1) + j - 1]
    BY <1>1, <2>1, SubSeqProperties
  <2> QED
    BY <1>1, <2>2
<1> HIDE DEF a, b
<1>4. /\ a \o b \in Seq(S) /\ Len(a \o b) = Len(a) + Len(b)
      /\ \A j \in 1 .. Len(a) + Len(b) : (a \o b)[j] = IF j <= Len(a) THEN a[j] ELSE b[j - Len(a)]
  BY <1>2, <1>3, ConcatProperties
<1>5. Without(s, k) = a \o b
  BY DEF Without, a, b
<1>6. Len(a \o b) = Len(s) - 1
  BY <1>1, <1>2, <1>3, <1>4
<1>7. ASSUME NEW j \in 1 .. Len(s) - 1
      PROVE  (a \o b)[j] = IF j < k THEN s[j] ELSE s[j + 1]
  <2>1. j \in Nat /\ j >= 1 /\ j <= Len(s) - 1 /\ j \in 1 .. Len(a) + Len(b)
    BY <1>1, <1>2, <1>3
  <2>2. CASE j < k
    <3>1. j <= Len(a) /\ j \in 1 .. k - 1
      BY <1>1, <1>2, <2>1, <2>2
    <3> QED
      BY <1>2, <1>4, <2>1, <2>2, <3>1
  <2>3. CASE ~(j < k)
    <3>1. ~(j <= Len(a)) /\ j - Len(a) \in 1 .. Len(s) - k /\ k + (j - Len(a)) = j + 1
      BY <1>1, <1>2, <2>1, <2>3
    <3>2. (a \o b)[j] = b[j - Len(a)]
      BY <1>4, <2>1, <3>1
    <3> QED
      BY <1>3, <2>3, <3>1, <3>2
  <2> QED
    BY <2>2, <2>3
<1> QED
  BY <1>4, <1>5, <1>6, <1>7

(* If no two are the same, the others are left. *)
LEMMA WithoutRange ==
  ASSUME NEW S, NEW s \in Seq(S), NEW k \in 1 .. Len(s), IsInjective(s)
  PROVE  IsInjective(Without(s, k)) /\ Range(Without(s, k)) = Range(s) \ {s[k]}
<1> DEFINE w == Without(s, k)
<1>1. Len(s) \in Nat /\ k \in Nat /\ k >= 1 /\ k <= Len(s) /\ DOMAIN s = 1 .. Len(s)
  BY LenProperties
<1>2. /\ w \in Seq(S) /\ Len(w) = Len(s) - 1 /\ DOMAIN w = 1 .. Len(s) - 1
      /\ \A j \in 1 .. Len(s) - 1 : w[j] = IF j < k THEN s[j] ELSE s[j + 1]
  BY <1>1, WithoutOne, LenProperties
<1>3. \A i, j \in 1 .. Len(s) : s[i] = s[j] => i = j
  BY <1>1 DEF IsInjective
<1> HIDE DEF w
<1>4. ASSUME NEW i \in 1 .. Len(s) - 1, NEW j \in 1 .. Len(s) - 1, w[i] = w[j] PROVE i = j
  <2>1. i \in Nat /\ j \in Nat /\ i \in 1 .. Len(s) /\ j \in 1 .. Len(s)
        /\ i + 1 \in 1 .. Len(s) /\ j + 1 \in 1 .. Len(s)
    BY <1>1
  <2>2. PICK p \in 1 .. Len(s) : w[i] = s[p] /\ (IF i < k THEN p = i ELSE p = i + 1)
    BY <1>2, <2>1
  <2>3. PICK q \in 1 .. Len(s) : w[j] = s[q] /\ (IF j < k THEN q = j ELSE q = j + 1)
    BY <1>2, <2>1
  <2>4. p = q
    BY <1>3, <1>4, <2>2, <2>3
  <2> QED
    BY <1>1, <2>1, <2>2, <2>3, <2>4
<1>5. ASSUME NEW i \in 1 .. Len(s) - 1 PROVE w[i] \in Range(s) \ {s[k]}
  <2>1. PICK p \in 1 .. Len(s) : w[i] = s[p] /\ (IF i < k THEN p = i ELSE p = i + 1)
    BY <1>1, <1>2, <1>5
  <2>2. p # k
    BY <1>1, <1>5, <2>1
  <2> QED
    BY <1>1, <1>3, <2>1, <2>2 DEF Range
<1>6. ASSUME NEW p \in 1 .. Len(s), s[p] # s[k] PROVE \E i \in 1 .. Len(s) - 1 : w[i] = s[p]
  <2>1. p # k
    BY <1>6
  <2>2. CASE p < k
    BY <1>1, <1>2, <2>2
  <2>3. CASE ~(p < k)
    <3>1. p - 1 \in 1 .. Len(s) - 1 /\ ~(p - 1 < k) /\ (p - 1) + 1 = p
      BY <1>1, <2>1, <2>3
    <3>2. w[p - 1] = s[p]
      BY <1>2, <3>1
    <3> QED
      BY <3>1, <3>2
  <2> QED
    BY <2>2, <2>3
<1>7. IsInjective(w)
  BY <1>2, <1>4 DEF IsInjective
<1>8. Range(w) = Range(s) \ {s[k]}
  <2>1. Range(w) \subseteq Range(s) \ {s[k]}
    BY <1>2, <1>5 DEF Range
  <2>2. ASSUME NEW x \in Range(s), x # s[k] PROVE x \in Range(w)
    <3>1. PICK p \in 1 .. Len(s) : x = s[p]
      BY <1>1 DEF Range
    <3>2. PICK i \in 1 .. Len(s) - 1 : w[i] = s[p]
      BY <1>6, <2>2, <3>1
    <3> QED
      BY <1>2, <3>1, <3>2 DEF Range
  <2> QED
    BY <2>1, <2>2
<1> QED
  BY <1>7, <1>8 DEF w

-----------------------------------------------------------------------------
(* The info of a subscription that reconnects. *)

(* What updateByReconnect() makes of an info. *)
UpdatedFrom(i, u) ==
  /\ u \in SiteInfos /\ u.host = i.host /\ u.offset = i.offset /\ u.socket = i.socket
  /\ u.current \in 0 .. Len(u.sites) - 1 /\ u.last \in 0 .. Len(u.sites) - 1
  /\ u.host = u.sites[u.current + 1]
  /\ ~subOnce => u.sites = i.sites
  /\ subOnce /\ IsInjective(i.sites) =>
       /\ IsInjective(u.sites) /\ u.sites[u.last + 1] = u.host
       /\ Range(u.sites) =
            Range(i.sites) \ IF i.host # i.sites[i.last + 1] THEN {i.sites[i.last + 1]} ELSE {}

(* What the reconnection to the site at index k makes of an info.           *)
LEMMA UpdatedFields ==
  ASSUME NEW i \in SiteInfos, NEW k \in 0 .. Len(i.sites) - 1,
         i.last \in 0 .. Len(i.sites) - 1, i.current = k,
         i.host = i.sites[k + 1], subOnce \in BOOLEAN,
         NEW u, u = UpdatedByReconnect(i, k)
  PROVE  UpdatedFrom(i, u)
<1> DEFINE s == i.sites
<1>1. s \in Seq(Nodes) /\ Len(s) \in Nat /\ DOMAIN s = 1 .. Len(s)
  BY InfoFields, LenProperties
<1>2. k \in Nat /\ i.last \in Nat /\ k <= Len(s) - 1 /\ i.last <= Len(s) - 1
  BY <1>1
<1>3. CASE ~subOnce \/ i.last = k
  <2>1. u = i
    BY <1>3 DEF UpdatedByReconnect
  <2>2. i.last = k => i.host = s[i.last + 1]
    OBVIOUS
  <2> QED
    BY <1>1, <1>3, <2>1, <2>2 DEF UpdatedFrom
<1>4. CASE subOnce /\ i.last # k
  <2> DEFINE w == Without(s, i.last + 1)
             cur == IF i.last < k THEN k - 1 ELSE k
  <2>1. i.last + 1 \in 1 .. Len(s) /\ k + 1 \in 1 .. Len(s)
    BY <1>1, <1>2
  <2>2. /\ w \in Seq(Nodes) /\ Len(w) = Len(s) - 1
        /\ \A j \in 1 .. Len(s) - 1 : w[j] = IF j < i.last + 1 THEN s[j] ELSE s[j + 1]
    BY <1>1, <2>1, WithoutOne
  <2>3. u = [i EXCEPT !.sites = w, !.current = cur, !.last = cur]
    BY <1>4 DEF UpdatedByReconnect
  <2>4. cur \in 0 .. Len(s) - 2 /\ cur \in Rank /\ cur + 1 \in 1 .. Len(s) - 1
    BY <1>1, <1>2, <1>4 DEF Rank
  <2> HIDE DEF w
  <2>5. w[cur + 1] = s[k + 1]
    <3>1. CASE i.last < k
      BY <1>1, <1>2, <2>2, <2>4, <3>1
    <3>2. CASE ~(i.last < k)
      BY <1>1, <1>2, <1>4, <2>2, <2>4, <3>2
    <3> QED
      BY <3>1, <3>2
  <2> HIDE DEF cur
  <2>6. /\ u \in SiteInfos /\ u.host = i.host /\ u.offset = i.offset /\ u.socket = i.socket
        /\ u.sites = w /\ u.current = cur /\ u.last = cur
    BY <2>2, <2>3, <2>4 DEF SiteInfos
  <2>7. /\ u.current \in 0 .. Len(u.sites) - 1 /\ u.last \in 0 .. Len(u.sites) - 1
        /\ u.host = u.sites[u.current + 1] /\ u.sites[u.last + 1] = u.host
    BY <1>1, <2>2, <2>4, <2>5, <2>6
  <2>8. ASSUME IsInjective(s)
        PROVE  /\ IsInjective(w) /\ i.host # s[i.last + 1]
               /\ Range(w) = Range(s) \ {s[i.last + 1]}
    <3>1. IsInjective(w) /\ Range(w) = Range(s) \ {s[i.last + 1]}
      BY <1>1, <2>1, <2>8, WithoutRange DEF w
    <3>2. k + 1 # i.last + 1
      BY <1>2, <1>4
    <3>3. s[k + 1] # s[i.last + 1]
      BY <1>1, <2>1, <2>8, <3>2 DEF IsInjective
    <3> QED
      BY <3>1, <3>3
  <2> QED
    BY <1>4, <2>6, <2>7, <2>8 DEF UpdatedFrom
<1> QED
  BY <1>3, <1>4

-----------------------------------------------------------------------------
(* What the steps that change entries do, in a state of the invariant. *)

LEMMA InvParts ==
  SitesInv <=> /\ InfoTypes /\ MapTypes /\ CopyTypes /\ InitTypes /\ MarkTypes /\ NodeTypes /\ ParseTypes
               /\ LinkTypeOK /\ SitesControl /\ NothingYet /\ NoSiteYet /\ FirstAttempts
               /\ OneNode /\ FoundByID /\ RowsAwaited /\ OneEntry /\ SitesPlaced /\ EraseFinds /\ SocketsKept
BY TypeParts DEF SitesInv

(* What the reconnect thread works on is an info. *)
LEMMA CopyFields ==
  ASSUME CopyTypes, SitesControl, recon \notin {"sleep", "round"}
  PROVE  info \in SiteInfos
BY DEF CopyTypes, SitesControl, NoInfo

LEMMA SubscribesDoes ==
  ASSUME SitesInv, Subscribes
  PROVE  \E i \in SiteInfos :
           /\ appHost \in Nodes /\ linksMade = 0 /\ Entries = {}
           /\ LinkMade(NewInfo(appHost)) /\ LinkTypeOK' /\ ParseTypes'
           /\ entry'[appHost] = i /\ topic' = appHost /\ Entries' = {appHost}
           /\ live' = live \cup {appHost} /\ siteCnt'[appHost] = siteCnt[appHost] + 1
           /\ \A t \in Topics \ {appHost} : siteCnt'[t] = siteCnt[t]
           /\ InfoTypes' /\ MapTypes'
           /\ i.sites = given /\ i.last = -1 /\ i.host = appHost /\ i.offset = 0
           /\ i.socket = linksMade' /\ (~ha => i.current = 0)
<1>1. /\ InfoTypes /\ MapTypes /\ ParseTypes /\ LinkTypeOK /\ NothingYet
      /\ given \in SiteLists /\ appHost \in Nodes /\ linksMade \in 0 .. MaxLinks
  BY InvParts DEF SitesControl
<1> DEFINE n == NewInfo(appHost)
           i == Connected(n)
<1>2. ConnectSite(n) /\ InsertedInto(appHost, i) /\ app = "connect"
  BY DEF Subscribes
<1>3. n \in SiteInfos /\ n.sites = given /\ n.host = appHost /\ n.last = -1 /\ n.offset = 0
      /\ (~ha => n.current = 0)
  BY <1>1, NewInfoFields
<1> HIDE DEF n
<1>4. LinkMade(n) /\ linksMade < MaxLinks /\ LinkTypeOK' /\ ParseTypes'
  BY <1>1, <1>2, <1>3, ConnectMakes
<1>5. /\ i \in SiteInfos /\ i.sites = n.sites /\ i.current = n.current /\ i.last = n.last
      /\ i.host = n.host /\ i.offset = n.offset /\ i.socket = linksMade + 1
  BY <1>1, <1>3, <1>4, ConnectedFields
<1> HIDE DEF i
<1>6. appHost \in Topics
  BY <1>1, Numbers
<1>7. /\ entry'[appHost] = i /\ Entries' = Entries \cup {appHost} /\ topic' = appHost
      /\ live' = live \cup {appHost} /\ siteCnt'[appHost] = siteCnt[appHost] + 1
      /\ \A u \in Topics \ {appHost} : siteCnt'[u] = siteCnt[u]
      /\ InfoTypes' /\ MapTypes'
  BY <1>1, <1>2, <1>5, <1>6, InsertedEntries
<1>8. linksMade = 0 /\ Entries = {}
  BY <1>1, <1>2 DEF NothingYet
<1>9. LinkMade(NewInfo(appHost)) /\ i.socket = linksMade'
  BY <1>4, <1>5 DEF n, LinkMade
<1> QED
  BY <1>1, <1>3, <1>4, <1>5, <1>7, <1>8, <1>9

LEMMA SubscribeFailsDoes ==
  ASSUME SitesInv, SiteSubscribeFails
  PROVE  /\ appHost \in Nodes /\ linksMade = 0 /\ Entries = {} /\ initSites = <<>>
         /\ recon = "sleep"
         /\ Entries' = {Unknown} /\ NodeEntries' = {} /\ topic' = Unknown
         /\ live' = live \cup {Unknown} /\ siteCnt'[Unknown] = siteCnt[Unknown] + 1
         /\ \A t \in Topics \ {Unknown} : siteCnt'[t] = siteCnt[t]
         /\ InfoTypes' /\ MapTypes'
         /\ initSites' = <<NewInfo(appHost)>> /\ Fresh(NewInfo(appHost))
<1>1. /\ InfoTypes /\ MapTypes /\ NothingYet /\ given \in SiteLists /\ appHost \in Nodes
      /\ (~ha => appHost = 1)
  BY InvParts DEF SitesControl
<1> DEFINE n == NewInfo(appHost)
<1>2. InsertedInto(Unknown, n) /\ app = "connect" /\ initSites' = Append(initSites, n)
  BY DEF SiteSubscribeFails
<1>3. n \in SiteInfos /\ n.sites = given /\ n.host = appHost /\ n.last = -1 /\ n.offset = 0
      /\ (~ha => n.current = 0)
  BY <1>1, NewInfoFields
<1> HIDE DEF n
<1>4. linksMade = 0 /\ Entries = {} /\ initSites = <<>> /\ recon = "sleep"
  BY <1>1, <1>2 DEF NothingYet
<1>5. /\ Entries' = Entries \cup {Unknown} /\ topic' = Unknown
      /\ live' = live \cup {Unknown} /\ siteCnt'[Unknown] = siteCnt[Unknown] + 1
      /\ \A u \in Topics \ {Unknown} : siteCnt'[u] = siteCnt[u]
      /\ InfoTypes' /\ MapTypes'
  BY <1>1, <1>2, <1>3, Numbers, InsertedEntries
<1>6. Fresh(n)
  <2>1. given \in Seq(Nodes) /\ (~ha => given # <<>> /\ given[1] = 1)
    BY <1>1, SitesAssumption DEF ha
  <2>2. ~ha => 0 \in 0 .. Len(given) - 1
    BY <2>1, EmptySeq
  <2> QED
    BY <1>1, <1>3, <2>1, <2>2 DEF Fresh
<1>7. initSites' = <<n>>
  BY <1>2, <1>4
<1> QED
  BY <1>1, <1>4, <1>5, <1>6, <1>7 DEF n, NodeEntries

LEMMA AddThreadDoes ==
  ASSUME InfoTypes, AddSiteHandleThread
  PROVE  /\ InfoTypes' /\ Entries' = Entries
         /\ \A t \in Entries :
              /\ entry'[t].sites = entry[t].sites /\ entry'[t].current = entry[t].current
              /\ entry'[t].last = entry[t].last /\ entry'[t].host = entry[t].host
              /\ entry'[t].offset = entry[t].offset /\ entry'[t].socket = entry[t].socket
<1>1. CASE UNCHANGED entry
  BY <1>1 DEF InfoTypes, Entries
<1>2. ASSUME NEW t \in Entries, entry' = [entry EXCEPT ![t].threads = TRUE]
      PROVE  /\ InfoTypes' /\ Entries' = Entries
             /\ \A u \in Entries :
                  /\ entry'[u].sites = entry[u].sites /\ entry'[u].current = entry[u].current
                  /\ entry'[u].last = entry[u].last /\ entry'[u].host = entry[u].host
                  /\ entry'[u].offset = entry[u].offset /\ entry'[u].socket = entry[u].socket
  <2>1. t \in Topics /\ entry[t] \in SiteInfos
    BY EntryFields DEF Entries
  <2>2. PICK i \in SiteInfos : i = [entry[t] EXCEPT !.threads = TRUE]
    BY <2>1 DEF SiteInfos
  <2>3. /\ i.sites = entry[t].sites /\ i.current = entry[t].current /\ i.last = entry[t].last
        /\ i.host = entry[t].host /\ i.offset = entry[t].offset /\ i.socket = entry[t].socket
    BY <2>1, <2>2 DEF SiteInfos
  <2>4. entry' = [entry EXCEPT ![t] = i]
    BY <1>2, <2>1, <2>2 DEF InfoTypes
  <2>5. entry'[t] = i /\ \A u \in Topics \ {t} : entry'[u] = entry[u]
    BY <2>1, <2>4 DEF InfoTypes
  <2>6. InfoTypes'
    BY <2>1, <2>4 DEF InfoTypes
  <2>7. Entries' = Entries
    BY <2>1, <2>2, <2>5, InfoFields DEF Entries
  <2> QED
    BY <2>3, <2>5, <2>6, <2>7 DEF Entries
<1> QED
  BY <1>1, <1>2 DEF AddSiteHandleThread

LEMMA EraseDoes ==
  ASSUME SitesInv, EraseTopic
  PROVE  /\ app = "erase" /\ app' = "ended" /\ appTopic \in Topics
         /\ Entries' = Entries \ {appTopic}
         /\ \A t \in Topics \ {appTopic} : entry'[t] = entry[t]
         /\ InfoTypes' /\ MapTypes' /\ LinksFall /\ (LinkTypeOK /\ ParseTypes)'
         /\ parse' = parse /\ \A c \in Links : conn'[c].node = conn[c].node
         /\ appTopic \in Entries =>
              /\ topic' = NoTopic /\ live' = live \ {appTopic}
              /\ siteCnt'[appTopic] = siteCnt[appTopic] - 1
              /\ \A t \in Topics \ {appTopic} : siteCnt'[t] = siteCnt[t]
              /\ \A c \in Links : conn'[c].open => c # entry[appTopic].socket
         /\ appTopic \notin Entries => topic' = topic
         /\ ~crossed' => /\ ~crossed /\ appTopic \in Entries
                         /\ info = NoInfo /\ initSites = <<>>
<1>1. InfoTypes /\ MapTypes /\ LinkTypeOK /\ app = "erase" /\ appTopic \in Topics
  BY InvParts DEF EraseTopic, SitesControl
<1>2. app' = "ended" /\ linksMade' = linksMade /\ parse' = parse /\ ParseTypes'
  BY InvParts DEF EraseTopic, ParseTypes
<1>3. ~crossed' => /\ ~crossed /\ appTopic \in Entries
                   /\ info = NoInfo /\ initSites = <<>>
  BY DEF EraseTopic, Attempting
<1>4. CASE entry[appTopic] = NoEntry
  <2>1. UNCHANGED <<entry, topic, live, siteCnt, conn>>
    BY <1>4 DEF EraseTopic, siteMaps
  <2>2. InfoTypes' /\ MapTypes' /\ Entries' = Entries \ {appTopic}
    BY <1>1, <1>4, <2>1, NobodySubscribed DEF InfoTypes, MapTypes, Entries
  <2>3. LinksFall /\ LinkTypeOK' /\ \A c \in Links : conn'[c].node = conn[c].node
    BY <1>1, <1>2, <2>1 DEF LinksFall, LinkTypeOK
  <2>4. appTopic \notin Entries
    BY <1>4, NobodySubscribed DEF Entries
  <2> QED
    BY <1>1, <1>2, <1>3, <1>4, <2>1, <2>2, <2>3, <2>4
<1>5. CASE entry[appTopic] # NoEntry
  <2>1. /\ entry' = [entry EXCEPT ![appTopic] = NoEntry]
        /\ live' = live \ {appTopic}
        /\ topic' = IF Subscribed(entry[appTopic]) THEN NoTopic ELSE topic
        /\ siteCnt' = [siteCnt EXCEPT ![appTopic] = @ - 1]
        /\ conn' = [c \in Links |-> [conn[c] EXCEPT !.open = @ /\ c # entry[appTopic].socket]]
    BY <1>5 DEF EraseTopic, SocketClosed
  <2>2. InfoTypes' /\ MapTypes'
    BY <1>1, <2>1 DEF InfoTypes, MapTypes
  <2>3. /\ entry'[appTopic] = NoEntry /\ \A t \in Topics \ {appTopic} : entry'[t] = entry[t]
        /\ Entries' = Entries \ {appTopic}
    BY <1>1, <2>1, NobodySubscribed DEF InfoTypes, Entries
  <2>4. /\ siteCnt'[appTopic] = siteCnt[appTopic] - 1
        /\ \A t \in Topics \ {appTopic} : siteCnt'[t] = siteCnt[t]
    BY <1>1, <2>1 DEF MapTypes
  <2>5. ASSUME NEW c \in Links
        PROVE  /\ conn'[c].open => conn[c].open /\ c # entry[appTopic].socket
               /\ conn'[c].node = conn[c].node /\ conn'[c].next = conn[c].next
               /\ conn'[c] \in [node : Nodes \cup {NoNode}, open : BOOLEAN, met : BOOLEAN, next : 0 .. MaxSiteRows]
    <3>1. conn[c] \in [node : Nodes \cup {NoNode}, open : BOOLEAN, met : BOOLEAN, next : 0 .. MaxSiteRows]
      BY <1>1 DEF LinkTypeOK
    <3>2. conn'[c] = [conn[c] EXCEPT !.open = @ /\ c # entry[appTopic].socket]
      BY <2>1
    <3> QED
      BY <3>1, <3>2
  <2>6. LinksFall /\ LinkTypeOK'
    BY <1>2, <2>1, <2>5 DEF LinksFall, LinkTypeOK
  <2>7. IF appTopic \in Entries THEN topic' = NoTopic ELSE topic' = topic
    BY <1>1, <2>1 DEF Entries
  <2> QED
    BY <1>1, <1>2, <1>3, <1>5, <2>1, <2>2, <2>3, <2>4, <2>5, <2>6, <2>7
<1> QED
  BY <1>4, <1>5

LEMMA VisitDoes ==
  ASSUME SitesInv, NEW t \in Topics, Visit(t)
  PROVE  /\ t \in Nodes /\ t \in NodeEntries /\ visited' = t /\ NodeEntries = {t}
         /\ toVisit' = toVisit \ {t} /\ info' \in SiteInfos
         /\ ha => /\ recon' = "leader" /\ info'.sites = <<>> /\ index' \in Nodes
         /\ ~ha => /\ recon' = "site" /\ SitesOf(info', t) /\ info'.last # -1
                   /\ index' \in 0 .. Len(info'.sites) - 1
<1>1. /\ InfoTypes /\ MarkTypes /\ OneNode /\ SitesPlaced
  BY InvParts
<1>2. t \in toVisit /\ t \in Nodes /\ t \in Entries /\ visited' = t /\ toVisit' = toVisit \ {t}
  BY <1>1 DEF Visit, MarkTypes
<1>3. t \in NodeEntries /\ entry[t] \in SiteInfos
  BY <1>1, <1>2, EntryFields, Numbers DEF NodeEntries
<1>4. NodeEntries = {t}
  BY <1>1, <1>3 DEF OneNode
<1>5. PICK i \in SiteInfos : i = entry[t]
  BY <1>3
<1>6. SitesOf(i, t)
  BY <1>1, <1>3, <1>5 DEF SitesPlaced
<1>7. /\ i.sites = <<>> => recon' = "leader" /\ info' = i /\ index' = i.host
      /\ i.sites # <<>> => /\ recon' = "site" /\ index' = i.current
                           /\ info' = [i EXCEPT !.last = IF @ = -1 THEN i.current ELSE @]
  BY <1>5 DEF Visit
<1>8. i.sites \in Seq(Nodes) /\ i.host \in Nodes /\ i.current \in Rank /\ i.last \in Rank
      /\ i.current \in Int /\ i.last \in Int /\ Len(i.sites) \in Nat
  BY InfoFields, LenProperties
<1>9. CASE ha
  <2>1. i.sites = <<>>
    BY <1>6, <1>9 DEF SitesOf
  <2> QED
    BY <1>2, <1>3, <1>4, <1>7, <1>8, <1>9, <2>1
<1>10. CASE ~ha
  <2>1. i.current \in 0 .. Len(i.sites) - 1 /\ i.last \in -1 .. Len(i.sites) - 1
    BY <1>6, <1>10 DEF SitesOf
  <2>2. i.sites # <<>>
    BY <1>8, <2>1, EmptySeq
  <2>3. PICK l \in Rank : l = IF i.last = -1 THEN i.current ELSE i.last
    BY <1>8
  <2>4. info' = [i EXCEPT !.last = l] /\ recon' = "site" /\ index' = i.current
    BY <1>7, <2>2, <2>3
  <2>5. /\ info' \in SiteInfos /\ info'.sites = i.sites /\ info'.current = i.current
        /\ info'.last = l /\ info'.host = i.host
    BY <1>8, <2>4 DEF SiteInfos
  <2>6. l \in 0 .. Len(i.sites) - 1 /\ l # -1
    BY <1>8, <2>1, <2>3
  <2>7. given' = given /\ subOnce' = subOnce /\ left' = left
    BY DEF Visit, ReconKeeps
  <2>8. SitesOf(info', t)
    BY <1>6, <1>8, <1>10, <2>3, <2>5, <2>6 DEF SitesOf
  <2> QED
    BY <1>2, <1>3, <1>4, <1>10, <2>1, <2>4, <2>5, <2>6, <2>8
<1> QED
  BY <1>9, <1>10

(* An entry that has not changed since it was copied is there. *)
LEMMA UnchangedFields ==
  ASSUME InfoTypes, NEW t \in Topics, NEW i \in SiteInfos, ~Changed(t, i)
  PROVE  t \in Entries /\ entry[t].offset = i.offset
<1>1. entry[t] # NoEntry /\ entry[t].offset = i.offset
  BY DEF Changed
<1>2. entry[t] # Invalid
  <2>1. Invalid.offset = -1 /\ i.offset \in Nat
    BY InfoFields, Numbers DEF Invalid
  <2> QED
    BY <1>1, <2>1
<1>3. entry[t] \in SiteInfos
  BY <1>1, <1>2 DEF InfoTypes
<1> QED
  BY <1>1, <1>3, EntryFields

LEMMA NextSiteDoes ==
  ASSUME SitesInv, NextSite
  PROVE  /\ visited \in Nodes /\ ~ha /\ info' \in SiteInfos /\ entry'[visited] = info'
         /\ \A t \in Topics \ {visited} : entry'[t] = entry[t]
         /\ Entries' = Entries \cup {visited} /\ NodeEntries' = {visited} /\ InfoTypes'
         /\ info'.offset = info.offset /\ info'.current = index
         /\ info'.last = info.last /\ info'.last # -1 /\ info'.sites = info.sites
         /\ index \in 0 .. Len(info.sites) - 1 /\ SitesOf(info', visited)
         /\ ~overwritten' => /\ ~overwritten /\ visited \in Entries
                             /\ entry[visited].offset = info.offset
<1>1. /\ InfoTypes /\ SitesControl /\ SitesPlaced /\ OneNode /\ CopyTypes /\ recon = "site"
  BY InvParts DEF NextSite
<1>2. info \in SiteInfos /\ visited \in Nodes /\ ~ha
  BY <1>1, CopyFields DEF SitesControl, Copies
<1>3. SitesOf(info, visited) /\ info.last # -1 /\ index \in 0 .. Len(info.sites) - 1
  BY <1>1 DEF SitesPlaced
<1>4. info.sites \in Seq(Nodes) /\ Len(info.sites) \in Nat /\ info.last \in Rank
  BY <1>2, InfoFields, LenProperties
<1>5. index \in Rank /\ index + 1 \in 1 .. Len(info.sites) /\ info.sites[index + 1] \in Nodes
  <2>1. index \in Rank /\ index + 1 \in 1 .. Len(info.sites)
    BY <1>3, <1>4 DEF Rank
  <2> QED
    BY <1>4, <2>1, ElementOfSeq
<1>6. info' = [info EXCEPT !.current = index, !.host = info.sites[index + 1]]
  BY DEF NextSite
<1>7. /\ info' \in SiteInfos /\ info'.current = index /\ info'.host = info.sites[index + 1]
      /\ info'.sites = info.sites /\ info'.last = info.last /\ info'.offset = info.offset
  BY <1>2, <1>5, <1>6 DEF SiteInfos
<1>8. entry' = [entry EXCEPT ![visited] = info']
  BY DEF NextSite
<1>9. visited \in Topics
  BY <1>2, Numbers
<1>10. entry'[visited] = info' /\ \A t \in Topics \ {visited} : entry'[t] = entry[t]
  BY <1>1, <1>8, <1>9 DEF InfoTypes
<1>11. InfoTypes'
  BY <1>1, <1>7, <1>8, <1>9 DEF InfoTypes
<1>12. Entries' = Entries \cup {visited}
  BY <1>7, <1>9, <1>10, InfoFields DEF Entries
<1>13. NodeEntries' = {visited}
  BY <1>1, <1>2, <1>12, Numbers DEF OneNode, NodeEntries, Copies
<1>14. SitesOf(info', visited)
  BY <1>2, <1>3, <1>4, <1>7 DEF SitesOf
<1>15. ~overwritten' => /\ ~overwritten /\ visited \in Entries
                        /\ entry[visited].offset = info.offset
  <2>1. overwritten' = (overwritten \/ Changed(visited, info))
    BY DEF NextSite
  <2> QED
    BY <1>1, <1>2, <1>9, <2>1, UnchangedFields
<1> QED
  BY <1>2, <1>3, <1>7, <1>10, <1>11, <1>12, <1>13, <1>14, <1>15

(* A subscription that moves takes its count along. *)
LEMMA MovedCounts ==
  ASSUME InfoTypes, MapTypes, OneEntry, ~crossed, ~overwritten,
         NEW old \in Nodes, NEW new \in Nodes, old # new, old \in Entries,
         NEW i \in SiteInfos, MovedTo(old, new, i)
  PROVE  /\ live' = Entries' /\ Entries' \subseteq {topic', Unknown}
         /\ \A t \in Topics : siteCnt'[t] = IF t \in Entries' THEN 1 ELSE 0
<1>1. old \in Topics /\ new \in Topics /\ old # Unknown /\ new # Unknown
  BY Numbers
<1>2. /\ Entries \subseteq {topic, Unknown} /\ live = Entries
      /\ \A t \in Topics : siteCnt[t] = IF t \in Entries THEN 1 ELSE 0
  BY DEF OneEntry
<1>3. topic = old /\ new \notin Entries
  BY <1>1, <1>2
<1>4. Entries' = (Entries \ {old}) \cup {new} /\ topic' = new
  BY <1>1, MovedEntries
<1>5. /\ live' = (live \ {old}) \cup {new}
      /\ siteCnt' = [siteCnt EXCEPT ![old] = @ - 1, ![new] = @ + 1]
  BY <1>1, NobodySubscribed DEF MovedTo, Entries
<1>6. /\ siteCnt'[old] = siteCnt[old] - 1 /\ siteCnt'[new] = siteCnt[new] + 1
      /\ \A t \in Topics \ {old, new} : siteCnt'[t] = siteCnt[t]
  BY <1>1, <1>5 DEF MapTypes
<1>7. siteCnt[old] = 1 /\ siteCnt[new] = 0
  BY <1>1, <1>2, <1>3
<1>8. \A t \in Topics : siteCnt'[t] = IF t \in Entries' THEN 1 ELSE 0
  BY <1>2, <1>4, <1>6, <1>7
<1> QED
  BY <1>2, <1>3, <1>4, <1>5, <1>8

LEMMA SiteAnswersDoes ==
  ASSUME SitesInv, SiteAnswers
  PROVE  \E i \in SiteInfos, n \in Nodes :
           /\ n = info.host /\ visited \in Nodes /\ ~ha /\ NodeEntries \subseteq {visited}
           /\ LinkMade(info) /\ ~HasConnection(n) /\ LinkTypeOK' /\ ParseTypes'
           /\ InfoTypes' /\ MapTypes' /\ OneEntry' /\ FoundByID'
           /\ entry'[n] = i /\ Entries' = (Entries \ {visited}) \cup {n} /\ NodeEntries' = {n}
           /\ i.offset = info.offset /\ i.socket = linksMade' /\ SitesOf(i, n)'
           /\ ~overwritten' => /\ ~overwritten /\ visited \in NodeEntries
                               /\ entry[visited].offset = info.offset
           /\ ~crossed' => ~crossed /\ app # "erase"
<1>1. /\ InfoTypes /\ MapTypes /\ ParseTypes /\ LinkTypeOK /\ CopyTypes
      /\ SitesControl /\ SitesPlaced /\ OneNode /\ OneEntry /\ FoundByID
      /\ recon = "try" /\ linksMade \in 0 .. MaxLinks
  BY InvParts DEF SiteAnswers, SitesControl
<1>2. info \in SiteInfos /\ visited \in Nodes /\ ~ha /\ NodeEntries \subseteq {visited}
  BY <1>1, CopyFields DEF SitesControl, Copies, OneNode
<1>3. /\ SitesOf(info, visited) /\ info.last # -1 /\ index \in 0 .. Len(info.sites) - 1
      /\ info.current = index
  BY <1>1 DEF SitesPlaced
<1>4. PICK n \in Nodes : n = info.host
  BY <1>2, InfoFields
<1>5. ConnectSite(info) /\ ~HasConnection(n)
  BY <1>4 DEF SiteAnswers, Serves
<1>6. LinkMade(info) /\ linksMade < MaxLinks /\ LinkTypeOK' /\ ParseTypes'
  BY <1>1, <1>2, <1>5, ConnectMakes
<1>7. PICK k \in SiteInfos : k = Connected(info)
  BY <1>1, <1>2, <1>6, ConnectedFields
<1>8. /\ k.sites = info.sites /\ k.current = info.current /\ k.last = info.last
      /\ k.host = n /\ k.offset = info.offset /\ k.socket = linksMade + 1
  BY <1>1, <1>2, <1>4, <1>6, <1>7, ConnectedFields
<1>9. PICK i : i = UpdatedByReconnect(k, index)
  OBVIOUS
<1>10. subOnce \in BOOLEAN /\ info.last \in Int /\ Len(info.sites) \in Nat /\ info.last \in -1 .. Len(info.sites) - 1
       /\ info.host = info.sites[info.current + 1]
  BY <1>1, <1>2, <1>3, InfoFields, LenProperties DEF SitesControl, SitesOf
<1>11. /\ index \in 0 .. Len(k.sites) - 1 /\ k.last \in 0 .. Len(k.sites) - 1
       /\ k.current = index /\ k.host = k.sites[index + 1]
  BY <1>3, <1>4, <1>8, <1>10
<1>12. /\ i \in SiteInfos /\ i.host = k.host /\ i.offset = k.offset /\ i.socket = k.socket
       /\ i.current \in 0 .. Len(i.sites) - 1 /\ i.last \in 0 .. Len(i.sites) - 1
       /\ i.host = i.sites[i.current + 1]
       /\ ~subOnce => i.sites = k.sites
       /\ subOnce /\ IsInjective(k.sites) =>
            /\ IsInjective(i.sites) /\ i.sites[i.last + 1] = i.host
            /\ Range(i.sites) =
                 Range(k.sites) \ IF k.host # k.sites[k.last + 1] THEN {k.sites[k.last + 1]} ELSE {}
  <2>1. subOnce \in BOOLEAN
    BY <1>10
  <2>2. UpdatedFrom(k, i)
    BY <1>9, <1>11, <2>1, UpdatedFields
  <2> QED
    BY <2>2 DEF UpdatedFrom
<1>13. /\ n = visited => entry' = [entry EXCEPT ![visited] = i] /\ UNCHANGED <<topic, live, siteCnt>>
       /\ n # visited => MovedTo(visited, n, i)
  BY <1>4, <1>7, <1>9 DEF SiteAnswers
<1>14. visited \in Topics /\ n \in Topics
  BY <1>2, Numbers
<1>15. /\ entry'[n] = i /\ Entries' = (Entries \ {visited}) \cup {n} /\ InfoTypes' /\ MapTypes'
  <2>1. CASE n = visited
    <3>1. entry' = [entry EXCEPT ![visited] = i] /\ UNCHANGED <<topic, live, siteCnt>>
      BY <1>13, <2>1
    <3>2. entry'[n] = i /\ \A t \in Topics \ {n} : entry'[t] = entry[t]
      BY <1>1, <1>14, <2>1, <3>1 DEF InfoTypes
    <3>3. Entries' = (Entries \ {visited}) \cup {n}
      BY <1>12, <1>14, <2>1, <3>2, InfoFields DEF Entries
    <3> QED
      BY <1>1, <1>12, <1>14, <3>1, <3>2, <3>3 DEF InfoTypes, MapTypes
  <2>2. CASE n # visited
    BY <1>1, <1>12, <1>13, <1>14, <2>2, MovedEntries
  <2> QED
    BY <2>1, <2>2
<1>16. NodeEntries' = {n}
  BY <1>2, <1>14, <1>15, Numbers DEF NodeEntries
<1>17. given' = given /\ subOnce' = subOnce /\
       left' = IF subOnce /\ n # visited THEN left \cup {visited} ELSE left
  BY <1>4 DEF SiteAnswers, ReconKeeps
<1>18. SitesOf(i, n)'
  <2>1. ~subOnce => i.sites = given
    BY <1>2, <1>3, <1>8, <1>12 DEF SitesOf
  <2>2. ASSUME subOnce, IsInjective(given)
        PROVE  /\ IsInjective(i.sites) /\ i.sites[i.last + 1] = n
               /\ Range(i.sites) = Range(given) \ left'
    <3>1. /\ IsInjective(info.sites) /\ Range(info.sites) = Range(given) \ left
          /\ info.sites[info.last + 1] = visited
      BY <1>2, <1>3, <2>2 DEF SitesOf
    <3>2. Range(i.sites) = Range(info.sites) \ IF n # visited THEN {visited} ELSE {}
      BY <1>8, <1>12, <2>2, <3>1
    <3>3. left' = IF n # visited THEN left \cup {visited} ELSE left
      BY <1>17, <2>2
    <3> QED
      BY <1>8, <1>12, <2>2, <3>1, <3>2, <3>3
  <2>3. i.last \in -1 .. Len(i.sites) - 1 /\ i.last # -1
    <3>1. Len(i.sites) \in Nat
      BY <1>12, InfoFields, LenProperties
    <3> QED
      BY <1>12, <3>1
  <2> QED
    BY <1>2, <1>8, <1>12, <1>17, <2>1, <2>2, <2>3 DEF SitesOf, ha
<1>19. ~overwritten' => /\ ~overwritten /\ visited \in NodeEntries /\ entry[visited].offset = info.offset
  <2>1. overwritten' = (overwritten \/ Changed(visited, info)) /\ visited \in Topics
    BY <1>2, Numbers DEF SiteAnswers
  <2> QED
    BY <1>1, <1>2, <2>1, Numbers, UnchangedFields DEF NodeEntries
<1>20. ~crossed' => ~crossed /\ app # "erase"
  BY DEF SiteAnswers
<1>21. OneEntry'
  <2> SUFFICES ASSUME ~crossed', ~overwritten'
               PROVE  /\ Entries' \subseteq {topic', Unknown} /\ live' = Entries'
                      /\ \A t \in Topics : siteCnt'[t] = IF t \in Entries' THEN 1 ELSE 0
    BY DEF OneEntry
  <2>1. visited \in Entries /\ ~crossed /\ ~overwritten
    BY <1>19, <1>20 DEF NodeEntries
  <2>2. CASE n = visited
    <3>1. UNCHANGED <<topic, live, siteCnt>> /\ Entries' = Entries
      BY <1>13, <1>15, <2>1, <2>2
    <3>2. /\ Entries \subseteq {topic, Unknown} /\ live = Entries
          /\ \A t \in Topics : siteCnt[t] = IF t \in Entries THEN 1 ELSE 0
      BY <1>1, <2>1 DEF OneEntry
    <3> QED
      BY <3>1, <3>2
  <2>3. CASE n # visited
    BY <1>1, <1>2, <1>12, <1>13, <2>1, <2>3, MovedCounts
  <2> QED
    BY <2>2, <2>3
<1>22. FoundByID'
  <2>1. CASE n = visited
    BY <1>1, <1>13, <1>15, <2>1 DEF FoundByID
  <2>2. CASE n # visited
    BY <1>13, <1>15, <2>2 DEF FoundByID, MovedTo
  <2> QED
    BY <2>1, <2>2
<1>23. i.socket = linksMade' /\ i.offset = info.offset
  BY <1>6, <1>8, <1>12 DEF LinkMade
<1> QED
  BY <1>2, <1>4, <1>5, <1>6, <1>12, <1>15, <1>16, <1>18, <1>19, <1>20, <1>21, <1>22, <1>23

LEMMA LeaderAnswersDoes ==
  ASSUME SitesInv, LeaderAnswers
  PROVE  \E i \in SiteInfos, n \in Nodes :
           /\ n = info.host /\ visited \in Nodes /\ ha /\ NodeEntries \subseteq {visited}
           /\ LinkMade(info) /\ ~HasConnection(n) /\ LinkTypeOK' /\ ParseTypes'
           /\ InfoTypes' /\ MapTypes' /\ OneEntry' /\ FoundByID'
           /\ n = visited => UNCHANGED siteMaps
           /\ n # visited => /\ entry'[n] = i /\ Entries' = (Entries \ {visited}) \cup {n}
                             /\ NodeEntries' = {n}
           /\ i.offset = info.offset /\ i.sites = info.sites
           /\ ~overwritten' => /\ ~overwritten /\ visited \in NodeEntries
                               /\ entry[visited].offset = info.offset
           /\ ~crossed' => ~crossed /\ app # "erase"
<1>1. /\ InfoTypes /\ MapTypes /\ ParseTypes /\ LinkTypeOK /\ CopyTypes
      /\ SitesControl /\ SitesPlaced /\ OneNode /\ OneEntry /\ FoundByID
      /\ recon = "leader" /\ linksMade \in 0 .. MaxLinks
  BY InvParts DEF LeaderAnswers, SitesControl
<1>2. info \in SiteInfos /\ visited \in Nodes /\ ha /\ NodeEntries \subseteq {visited}
  BY <1>1, CopyFields DEF SitesControl, Copies, OneNode
<1>3. PICK n \in Nodes : n = info.host
  BY <1>2, InfoFields
<1>4. ConnectSite(info) /\ ~HasConnection(n)
  BY <1>3 DEF LeaderAnswers, Serves
<1>5. LinkMade(info) /\ linksMade < MaxLinks /\ LinkTypeOK' /\ ParseTypes'
  BY <1>1, <1>2, <1>4, ConnectMakes
<1>6. PICK i \in SiteInfos : i = Connected(info)
  BY <1>1, <1>2, <1>5, ConnectedFields
<1>7. i.sites = info.sites /\ i.host = n /\ i.offset = info.offset
  BY <1>1, <1>2, <1>3, <1>5, <1>6, ConnectedFields
<1>8. /\ n = visited => UNCHANGED siteMaps
      /\ n # visited => MovedTo(visited, n, i)
  BY <1>3, <1>6 DEF LeaderAnswers
<1>9. visited \in Topics /\ n \in Topics
  BY <1>2, Numbers
<1>10. ~overwritten' => /\ ~overwritten /\ visited \in NodeEntries /\ entry[visited].offset = info.offset
  <2>1. overwritten' = (overwritten \/ Changed(visited, info)) /\ visited \in Topics
    BY <1>2, Numbers DEF LeaderAnswers
  <2> QED
    BY <1>1, <1>2, <2>1, Numbers, UnchangedFields DEF NodeEntries
<1>11. ~crossed' => ~crossed /\ app # "erase"
  BY DEF LeaderAnswers
<1>12. CASE n = visited
  <2>1. InfoTypes' /\ MapTypes'
    BY <1>1, <1>8, <1>12 DEF InfoTypes, MapTypes, siteMaps
  <2>2. OneEntry'
    <3>1. ~crossed' /\ ~overwritten' => ~crossed /\ ~overwritten
      BY <1>10, <1>11
    <3> QED
      BY <1>1, <1>8, <1>12, <3>1 DEF OneEntry, Entries, siteMaps
  <2>3. FoundByID'
    BY <1>1, <1>8, <1>12 DEF FoundByID, Entries, siteMaps
  <2> QED
    BY <1>2, <1>3, <1>4, <1>5, <1>7, <1>8, <1>10, <1>11, <1>12, <2>1, <2>2, <2>3
<1>13. CASE n # visited
  <2>1. /\ entry'[n] = i /\ Entries' = (Entries \ {visited}) \cup {n} /\ InfoTypes' /\ MapTypes'
    BY <1>1, <1>8, <1>9, <1>13, MovedEntries
  <2>2. NodeEntries' = {n}
    BY <1>2, <1>9, <2>1, Numbers DEF NodeEntries
  <2>3. OneEntry'
    <3> SUFFICES ASSUME ~crossed', ~overwritten'
                 PROVE  /\ Entries' \subseteq {topic', Unknown} /\ live' = Entries'
                        /\ \A t \in Topics : siteCnt'[t] = IF t \in Entries' THEN 1 ELSE 0
      BY DEF OneEntry
    <3>1. visited \in Entries /\ ~crossed /\ ~overwritten
      BY <1>10, <1>11 DEF NodeEntries
    <3> QED
      BY <1>1, <1>2, <1>8, <1>13, <3>1, MovedCounts
  <2>4. FoundByID'
    BY <1>8, <1>13, <2>1 DEF FoundByID, MovedTo
  <2> QED
    BY <1>2, <1>3, <1>4, <1>5, <1>7, <1>10, <1>11, <1>13, <2>1, <2>2, <2>3, <2>4
<1> QED
  BY <1>12, <1>13

LEMMA InitConnectsDoes ==
  ASSUME SitesInv, InitResubConnects
  PROVE  \E i \in SiteInfos, n \in Nodes :
           /\ n = info.host /\ linksMade = 0 /\ Entries \subseteq {Unknown} /\ initSites = <<>>
           /\ LinkMade(info) /\ LinkTypeOK' /\ ParseTypes'
           /\ InfoTypes' /\ MapTypes'
           /\ entry'[n] = i /\ Entries' = Entries \cup {n} /\ NodeEntries' = {n} /\ topic' = n
           /\ live' = live \cup {n} /\ siteCnt'[n] = siteCnt[n] + 1
           /\ \A t \in Topics \ {n} : siteCnt'[t] = siteCnt[t]
           /\ i.host = n /\ i.offset = 0 /\ info.offset = 0 /\ i.socket = linksMade' /\ Fresh(i)
           /\ ~crossed' => ~crossed /\ app # "erase"
<1>1. /\ InfoTypes /\ MapTypes /\ ParseTypes /\ LinkTypeOK /\ CopyTypes
      /\ SitesControl /\ SitesPlaced /\ FirstAttempts /\ NoSiteYet
      /\ recon = "init" /\ linksMade \in 0 .. MaxLinks
  BY InvParts DEF InitResubConnects, SitesControl
<1>2. info \in SiteInfos /\ Fresh(info) /\ linksMade = 0 /\ initSites = <<>>
  BY <1>1, CopyFields DEF SitesPlaced, FirstAttempts
<1>3. Entries \subseteq {Unknown}
  BY <1>1, <1>2 DEF NoSiteYet
<1>4. PICK n \in Nodes : n = info.host
  BY <1>2, InfoFields
<1>5. ConnectSite(info)
  BY DEF InitResubConnects
<1>6. LinkMade(info) /\ linksMade < MaxLinks /\ LinkTypeOK' /\ ParseTypes'
  BY <1>1, <1>2, <1>5, ConnectMakes
<1>7. PICK i \in SiteInfos : i = Connected(info)
  BY <1>1, <1>2, <1>6, ConnectedFields
<1>8. /\ i.sites = info.sites /\ i.current = info.current /\ i.last = info.last
      /\ i.host = n /\ i.offset = info.offset /\ i.socket = linksMade + 1
  BY <1>1, <1>2, <1>4, <1>6, <1>7, ConnectedFields
<1>9. n \in Topics /\ n # Unknown /\ InsertedInto(n, i)
  BY <1>4, <1>7, Numbers DEF InitResubConnects
<1>10. /\ entry'[n] = i /\ Entries' = Entries \cup {n} /\ topic' = n
       /\ live' = live \cup {n} /\ siteCnt'[n] = siteCnt[n] + 1
       /\ \A u \in Topics \ {n} : siteCnt'[u] = siteCnt[u]
       /\ InfoTypes' /\ MapTypes'
  BY <1>1, <1>9, InsertedEntries
<1>11. NodeEntries' = {n}
  BY <1>3, <1>9, <1>10 DEF NodeEntries
<1>12. Fresh(i) /\ info.offset = 0 /\ i.offset = 0
  BY <1>2, <1>4, <1>8 DEF Fresh
<1>13. ~crossed' => ~crossed /\ app # "erase"
  BY DEF InitResubConnects
<1>14. i.socket = linksMade'
  BY <1>6, <1>8 DEF LinkMade
<1> QED
  BY <1>2, <1>3, <1>4, <1>6, <1>8, <1>10, <1>11, <1>12, <1>13, <1>14

LEMMA ReceiveRowDoes ==
  ASSUME SitesInv, NEW c \in Links, ReceiveRow(c)
  PROVE  /\ conn[c].node \in Nodes /\ conn[c].open /\ conn'[c].node = conn[c].node
         /\ conn'[c].open /\ conn'[c].next = conn[c].next + 1 /\ conn[c].next \in Nat
         /\ \A d \in Links \ {c} : conn'[d] = conn[d]
         /\ linksMade' = linksMade /\ LinkTypeOK' /\ InfoTypes' /\ Entries' = Entries
         /\ \A t \in Entries :
              /\ entry'[t].sites = entry[t].sites /\ entry'[t].current = entry[t].current
              /\ entry'[t].last = entry[t].last /\ entry'[t].host = entry[t].host
              /\ entry'[t].socket = entry[t].socket
         /\ conn[c].node \notin NodeEntries => UNCHANGED <<entry, awaited, inOrder>>
         /\ conn[c].node \in NodeEntries =>
              /\ inOrder' = (inOrder /\ conn[c].next = awaited)
              /\ awaited' = conn[c].next + 1
              /\ entry'[conn[c].node].offset = conn[c].next + 1
<1>1. /\ InfoTypes /\ LinkTypeOK /\ SitesControl
  BY InvParts
<1>2. /\ parse[c] = "read" /\ conn[c].open /\ conn[c].next < MaxSiteRows
      /\ conn' = [conn EXCEPT ![c].next = @ + 1]
      /\ linksMade' = linksMade
  BY DEF ReceiveRow, ParseKeeps
<1>3. conn[c] \in [node : Nodes \cup {NoNode}, open : BOOLEAN, met : BOOLEAN, next : 0 .. MaxSiteRows]
  BY <1>1 DEF LinkTypeOK
<1>4. PICK k : k = [conn[c] EXCEPT !.next = @ + 1]
  OBVIOUS
<1>5. conn[c].next \in Nat /\ conn[c].next + 1 \in 0 .. MaxSiteRows /\ conn[c].node \in Nodes
  BY <1>1, <1>2, <1>3, Numbers DEF SitesControl
<1>6. /\ k \in [node : Nodes \cup {NoNode}, open : BOOLEAN, met : BOOLEAN, next : 0 .. MaxSiteRows]
      /\ k.node = conn[c].node /\ k.open = conn[c].open /\ k.next = conn[c].next + 1
  BY <1>3, <1>4, <1>5
<1>7. conn' = [conn EXCEPT ![c] = k]
  BY <1>1, <1>2, <1>4 DEF LinkTypeOK
<1>8. conn'[c] = k /\ (\A d \in Links \ {c} : conn'[d] = conn[d]) /\ LinkTypeOK'
  BY <1>1, <1>6, <1>7 DEF LinkTypeOK
<1>9. PICK t \in Nodes : t = conn[c].node
  BY <1>5
<1>10. t \in Topics /\ (t \in NodeEntries <=> t \in Entries)
  BY <1>9, Numbers DEF NodeEntries
<1>11. CASE t \notin NodeEntries
  <2>1. UNCHANGED <<entry, awaited, inOrder>>
    BY <1>9, <1>10, <1>11 DEF ReceiveRow, rowHist
  <2>2. InfoTypes' /\ Entries' = Entries
    BY <1>1, <2>1 DEF InfoTypes, Entries
  <2> QED
    BY <1>2, <1>5, <1>6, <1>8, <1>9, <1>11, <2>1, <2>2
<1>12. CASE t \in NodeEntries
  <2>1. /\ inOrder' = (inOrder /\ conn[c].next = awaited) /\ awaited' = conn[c].next + 1
        /\ entry' = [entry EXCEPT ![t].offset = conn[c].next + 1]
    BY <1>9, <1>10, <1>12 DEF ReceiveRow, SiteOffsetAfter
  <2>2. entry[t] \in SiteInfos
    BY <1>1, <1>10, <1>12, EntryFields
  <2>3. PICK o \in 0 .. MaxSiteRows : o = conn[c].next + 1
    BY <1>5
  <2>4. PICK i \in SiteInfos : i = [entry[t] EXCEPT !.offset = o]
    BY <2>2 DEF SiteInfos
  <2>5. /\ i.sites = entry[t].sites /\ i.current = entry[t].current /\ i.last = entry[t].last
        /\ i.host = entry[t].host /\ i.socket = entry[t].socket /\ i.offset = o
    BY <2>2, <2>4 DEF SiteInfos
  <2>6. entry' = [entry EXCEPT ![t] = i]
    BY <1>1, <2>1, <2>3, <2>4 DEF InfoTypes
  <2>7. entry'[t] = i /\ (\A u \in Topics \ {t} : entry'[u] = entry[u]) /\ InfoTypes'
    BY <1>1, <1>10, <2>6 DEF InfoTypes
  <2>8. Entries' = Entries
    BY <1>10, <1>12, <2>4, <2>7, InfoFields DEF Entries
  <2> QED
    BY <1>2, <1>5, <1>6, <1>8, <1>9, <1>12, <2>1, <2>3, <2>5, <2>7, <2>8 DEF Entries
<1> QED
  BY <1>11, <1>12

LEMMA VisitInitDoes ==
  ASSUME SitesInv, VisitInitSite
  PROVE  /\ info' \in SiteInfos /\ Fresh(info') /\ initSites' = <<>> /\ recon' = "init"
         /\ linksMade = 0 /\ initSites # <<>>
<1>1. FirstAttempts /\ SitesPlaced /\ SitesControl /\ initSites # <<>> /\ recon' = "init"
      /\ initSites' = Tail(initSites) /\ InitTypes
  BY InvParts DEF VisitInitSite
<1>2. Len(initSites) = 1 /\ linksMade = 0 /\ Fresh(initSites[1])
  BY <1>1 DEF FirstAttempts, SitesPlaced
<1>3. Tail(initSites) = <<>> /\ Head(initSites) = initSites[1]
  <2>1. Tail(initSites) \in Seq(SiteInfos) /\ Len(Tail(initSites)) = 0
    BY <1>1, <1>2, HeadTailProperties DEF InitTypes
  <2>2. Tail(initSites) = <<>>
    BY <2>1, EmptySeq
  <2>3. Head(initSites) = initSites[1]
    BY <1>1 DEF InitTypes
  <2> QED
    BY <2>2, <2>3
<1>4. PICK i \in SiteInfos : i = initSites[1]
  BY <1>2 DEF Fresh
<1>5. Fresh(i) /\ i.sites = given /\ i.last = -1 /\ i.offset = 0
  BY <1>2, <1>4 DEF Fresh
<1>6. i.sites \in Seq(Nodes) /\ Len(given) \in Nat
  BY <1>5, InfoFields, LenProperties
<1>7. given' = given
  BY DEF VisitInitSite, ReconKeeps
<1>8. CASE i.sites = <<>>
  <2>1. info' = i
    BY <1>3, <1>4, <1>8 DEF VisitInitSite
  <2>2. Fresh(info')
    BY <1>5, <1>7, <2>1 DEF Fresh
  <2> QED
    BY <1>1, <1>2, <1>3, <2>1, <2>2
<1>9. CASE i.sites # <<>>
  <2>1. PICK next : next = (i.current + 1) % Len(i.sites)
    OBVIOUS
  <2>2. info' = [i EXCEPT !.current = next, !.host = i.sites[next + 1]]
    BY <1>3, <1>4, <1>9, <2>1 DEF VisitInitSite
  <2>3. Len(given) \in Nat \ {0} /\ ~ha /\ i.current \in Int
    BY <1>5, <1>6, <1>9, EmptySeq, InfoFields DEF ha
  <2>4. next \in 0 .. Len(given) - 1
    BY <1>5, <2>1, <2>3
  <2>5. next \in Rank /\ next + 1 \in 1 .. Len(given)
    BY <2>3, <2>4 DEF Rank
  <2>6. i.sites[next + 1] \in Nodes
    BY <1>5, <1>6, <2>5, ElementOfSeq
  <2>7. /\ info' \in SiteInfos /\ info'.sites = i.sites /\ info'.current = next
        /\ info'.last = i.last /\ info'.offset = i.offset /\ info'.host = i.sites[next + 1]
    BY <2>2, <2>5, <2>6 DEF SiteInfos
  <2>8. Fresh(info')
    BY <1>5, <1>7, <2>4, <2>7 DEF Fresh
  <2> QED
    BY <1>1, <1>2, <1>3, <2>7, <2>8
<1> QED
  BY <1>8, <1>9

(* Steps by which connections are lost. *)
LEMMA NodeFailsDoes ==
  ASSUME LinkTypeOK, ParseTypes, NEW n \in Nodes, NodeFails(n)
  PROVE  /\ LinksFall /\ (LinkTypeOK /\ ParseTypes)' /\ parse' = parse
         /\ \A c \in Links : conn'[c].node = conn[c].node
<1>1. /\ conn' = [c \in Links |-> [conn[c] EXCEPT !.open = @ /\ conn[c].node # n]]
      /\ parse' = parse /\ linksMade' = linksMade
  BY DEF NodeFails, NodesKeep
<1>2. ASSUME NEW c \in Links
      PROVE  /\ conn'[c] \in [node : Nodes \cup {NoNode}, open : BOOLEAN, met : BOOLEAN, next : 0 .. MaxSiteRows]
             /\ conn'[c].open => conn[c].open
             /\ conn'[c].node = conn[c].node /\ conn'[c].next = conn[c].next
  <2>1. conn[c] \in [node : Nodes \cup {NoNode}, open : BOOLEAN, met : BOOLEAN, next : 0 .. MaxSiteRows]
    BY DEF LinkTypeOK
  <2> QED
    BY <1>1, <2>1
<1> QED
  BY <1>1, <1>2 DEF LinksFall, LinkTypeOK, ParseTypes

LEMMA LinkFailsDoes ==
  ASSUME LinkTypeOK, ParseTypes, NEW c \in Links, LinkFails(c)
  PROVE  /\ LinksFall /\ (LinkTypeOK /\ ParseTypes)' /\ parse' = parse
         /\ \A d \in Links : conn'[d].node = conn[d].node
<1>1. conn' = [conn EXCEPT ![c].open = FALSE] /\ parse' = parse /\ linksMade' = linksMade
  BY DEF LinkFails, NodesKeep
<1> QED
  BY <1>1 DEF LinksFall, LinkTypeOK, ParseTypes

LEMMA LinkEnds ==
  ASSUME LinkTypeOK, ParseTypes, NEW c \in Links, Ended(c), linksMade' = linksMade
  PROVE  LinksFall /\ (LinkTypeOK /\ ParseTypes)' /\ parse'[c] = "done"
         /\ \A d \in Links \ {c} : parse'[d] = parse[d]
<1>1. conn' = [conn EXCEPT ![c] = NoConn] /\ parse' = [parse EXCEPT ![c] = "done"]
  BY DEF Ended
<1>2. /\ NoConn \in [node : Nodes \cup {NoNode}, open : BOOLEAN, met : BOOLEAN, next : 0 .. MaxSiteRows]
      /\ ~NoConn.open
  BY Numbers DEF NoConn
<1> QED
  BY <1>1, <1>2 DEF LinksFall, LinkTypeOK, ParseTypes

LEMMA LoseDoes ==
  ASSUME LinkTypeOK, ParseTypes, NEW c \in Links, Lose(c)
  PROVE  /\ LinksFall /\ (LinkTypeOK /\ ParseTypes)' /\ parse[c] = "read"
         /\ parse'[c] = "done" \/ (parse'[c] = "stamp" /\ conn' = conn)
         /\ \A d \in Links \ {c} : parse'[d] = parse[d]
<1>1. linksMade' = linksMade /\ parse[c] = "read"
  BY DEF Lose, ParseKeeps
<1>2. CASE Ended(c)
  BY <1>1, <1>2, LinkEnds
<1>3. CASE parse' = [parse EXCEPT ![c] = "stamp"] /\ conn' = conn
  BY <1>1, <1>3 DEF LinksFall, LinkTypeOK, ParseTypes
<1> QED
  BY <1>2, <1>3 DEF Lose

(* The time stamped on a topic leaves the entries of subscriptions alone.   *)
LEMMA StampDoes ==
  ASSUME SitesInv, NEW c \in Links, StampSite(c)
  PROVE  /\ LinksFall /\ (LinkTypeOK /\ ParseTypes)' /\ parse[c] = "stamp" /\ parse'[c] = "mark"
         /\ conn' = conn /\ \A d \in Links \ {c} : parse'[d] = parse[d]
         /\ InfoTypes' /\ Entries' = Entries /\ NodeEntries' = NodeEntries
         /\ \A t \in Entries : entry'[t] = entry[t]
<1>1. /\ InfoTypes /\ LinkTypeOK /\ ParseTypes
      /\ linksMade' = linksMade /\ conn' = conn /\ parse[c] = "stamp"
      /\ parse' = [parse EXCEPT ![c] = "mark"]
  BY InvParts DEF StampSite, ParseKeeps
<1>2. PICK t \in Topics : t = conn[c].node
  BY <1>1, InvParts, Numbers DEF SitesControl
<1>3. entry' = [entry EXCEPT ![t] = IF entry[t] = NoEntry THEN Invalid ELSE entry[t]]
  BY <1>1, <1>2 DEF StampSite, Stamped, InfoTypes
<1>4. /\ entry'[t] = IF entry[t] = NoEntry THEN Invalid ELSE entry[t]
      /\ \A u \in Topics \ {t} : entry'[u] = entry[u]
  BY <1>1, <1>3 DEF InfoTypes
<1>5. InfoTypes'
  <2>1. entry[t] \in SiteInfos \cup {NoEntry, Invalid}
    BY <1>1 DEF InfoTypes
  <2>2. PICK i \in SiteInfos \cup {NoEntry, Invalid} : i = IF entry[t] = NoEntry THEN Invalid ELSE entry[t]
    BY <2>1
  <2>3. entry' = [entry EXCEPT ![t] = i]
    BY <1>3, <2>2
  <2> QED
    BY <1>1, <2>3 DEF InfoTypes
<1>6. Entries' = Entries /\ \A u \in Entries : entry'[u] = entry[u]
  BY <1>4, NobodySubscribed DEF Entries
<1> QED
  BY <1>1, <1>5, <1>6 DEF LinksFall, LinkTypeOK, ParseTypes, NodeEntries

LEMMA MarkDoes ==
  ASSUME LinkTypeOK, ParseTypes, NEW c \in Links, MarkSite(c)
  PROVE  /\ LinksFall /\ (LinkTypeOK /\ ParseTypes)' /\ parse[c] = "mark" /\ parse'[c] = "done"
         /\ \A d \in Links \ {c} : parse'[d] = parse[d]
<1>1. linksMade' = linksMade /\ parse[c] = "mark" /\ Ended(c)
  BY DEF MarkSite, ParseKeeps
<1> QED
  BY <1>1, LinkEnds

LEMMA SchemaDoes ==
  ASSUME LinkTypeOK, NEW c \in Links, ReceiveSchema(c)
  PROVE  LinksFall /\ parse' = parse /\ \A d \in Links : conn'[d].node = conn[d].node
<1>1. conn' = [conn EXCEPT ![c].met = TRUE] /\ parse' = parse /\ linksMade' = linksMade
  BY DEF ReceiveSchema, ParseKeeps
<1> QED
  BY <1>1 DEF LinksFall, LinkTypeOK

LEMMA InitFailsDoes ==
  ASSUME SitesInv, InitResubFails
  PROVE  \E i \in SiteInfos :
           /\ initSites' = Append(initSites, i) /\ initSites = <<>> /\ linksMade = 0
           /\ Fresh(i) /\ recon' = "sleep"
<1>1. CopyTypes /\ SitesControl /\ SitesPlaced /\ FirstAttempts /\ NodeTypes /\ recon = "init" /\ recon' = "sleep"
  BY InvParts DEF InitResubFails
<1>2. info \in SiteInfos /\ Fresh(info) /\ initSites = <<>> /\ linksMade = 0
  BY <1>1, CopyFields DEF SitesPlaced, FirstAttempts
<1>3. PICK i : i = IF NotLeader(info.host) THEN [info EXCEPT !.host = leader] ELSE info
  OBVIOUS
<1>4. initSites' = Append(initSites, i)
  BY <1>3 DEF InitResubFails
<1>5. NotLeader(info.host) => ha /\ leader \in Nodes
  BY <1>1 DEF NotLeader, NodeTypes
<1>6. /\ i \in SiteInfos /\ i.sites = info.sites /\ i.last = info.last /\ i.offset = info.offset
      /\ i.current = info.current /\ (~ha => i.host = info.host)
  BY <1>2, <1>3, <1>5 DEF SiteInfos
<1>7. Fresh(i)
  BY <1>2, <1>6 DEF Fresh
<1> QED
  BY <1>1, <1>2, <1>4, <1>6, <1>7

-----------------------------------------------------------------------------
(* The parts of the invariant are kept by every step. *)

(* The maps keep their types. *)
LEMMA MapTypesNext ==
  ASSUME SitesInv, [SitesNext]_siteVars
  PROVE  (InfoTypes /\ MapTypes)'
<1>1. ASSUME UNCHANGED <<entry, topic, live, siteCnt>> PROVE (InfoTypes /\ MapTypes)'
  BY <1>1, InvParts DEF InfoTypes, MapTypes
<1>2. ASSUME CheckServerVersion \/ UnsubscribeSite \/ SubscribeIsRedirected \/ BeginRound \/
             SiteFails \/ LeaderRedirects
      PROVE  UNCHANGED <<entry, topic, live, siteCnt>>
  BY <1>2 DEF CheckServerVersion, AppKeeps, UnsubscribeSite, SubscribeIsRedirected,
         BeginRound, ReconKeeps, SiteFails, Idle, LeaderRedirects, siteMaps, siteAppVars,
         siteReconVars, linkVars, nodeVars, siteHist, rowHist
<1>3. ASSUME LeaderNotFound \/ EndRound \/ VisitInitSite \/ InitTimesOut \/ InitResubFails
      PROVE  UNCHANGED <<entry, topic, live, siteCnt>>
  BY <1>3 DEF LeaderNotFound, Idle, ReconKeeps, EndRound, VisitInitSite, InitTimesOut,
         InitResubFails, siteMaps, siteAppVars, siteReconVars, linkVars, nodeVars, siteHist,
         rowHist
<1>4. ASSUME NEW t \in Topics, PassOver(t) \/ GiveUp(t) \/ Visit(t)
      PROVE  UNCHANGED <<entry, topic, live, siteCnt>>
  BY <1>4 DEF PassOver, ReconKeeps, GiveUp, Visit, siteMaps, siteAppVars, siteReconVars,
         linkVars, nodeVars, siteHist, rowHist
<1>5. ASSUME NEW n \in Nodes, LeaderFails(n) \/ NodeFails(n) \/ NodeReturns(n) \/ Elect(n)
      PROVE  UNCHANGED <<entry, topic, live, siteCnt>>
  BY <1>5 DEF LeaderFails, ReconKeeps, NodeFails, NodesKeep, NodeReturns, Elect, siteMaps,
         siteAppVars, siteReconVars, linkVars, nodeVars, siteHist, rowHist
<1>6. ASSUME NEW c \in Links, ReceiveSchema(c) \/ Lose(c) \/ MarkSite(c) \/ LinkFails(c)
      PROVE  UNCHANGED <<entry, topic, live, siteCnt>>
  BY <1>6 DEF ReceiveSchema, ParseKeeps, Lose, Ended, MarkSite, LinkFails, NodesKeep,
         siteMaps, siteAppVars, siteReconVars, linkVars, nodeVars, siteHist, rowHist
<1>7. ASSUME Subscribes PROVE (InfoTypes /\ MapTypes)'
  BY <1>7, SubscribesDoes
<1>8. ASSUME SiteSubscribeFails PROVE (InfoTypes /\ MapTypes)'
  BY <1>8, SubscribeFailsDoes
<1>9. ASSUME AddSiteHandleThread PROVE (InfoTypes /\ MapTypes)'
  <2>1. UNCHANGED <<topic, live, siteCnt>>
    BY <1>9 DEF AddSiteHandleThread
  <2> QED
    BY <1>9, <2>1, InvParts, AddThreadDoes DEF MapTypes
<1>10. ASSUME EraseTopic PROVE (InfoTypes /\ MapTypes)'
  BY <1>10, EraseDoes
<1>11. ASSUME NextSite PROVE (InfoTypes /\ MapTypes)'
  <2>1. UNCHANGED <<topic, live, siteCnt>>
    BY <1>11 DEF NextSite
  <2> QED
    BY <1>11, <2>1, InvParts, NextSiteDoes DEF MapTypes
<1>12. ASSUME SiteAnswers PROVE (InfoTypes /\ MapTypes)'
  BY <1>12, SiteAnswersDoes
<1>13. ASSUME LeaderAnswers PROVE (InfoTypes /\ MapTypes)'
  BY <1>13, LeaderAnswersDoes
<1>14. ASSUME InitResubConnects PROVE (InfoTypes /\ MapTypes)'
  BY <1>14, InitConnectsDoes
<1>15. ASSUME NEW c \in Links, ReceiveRow(c) PROVE (InfoTypes /\ MapTypes)'
  <2>1. UNCHANGED <<topic, live, siteCnt>>
    BY <1>15 DEF ReceiveRow, ParseKeeps
  <2> QED
    BY <1>15, <2>1, InvParts, ReceiveRowDoes DEF MapTypes
<1>16. ASSUME NEW c \in Links, StampSite(c) PROVE (InfoTypes /\ MapTypes)'
  <2>1. UNCHANGED <<topic, live, siteCnt>>
    BY <1>16 DEF StampSite, ParseKeeps
  <2> QED
    BY <1>16, <2>1, InvParts, StampDoes DEF MapTypes
<1>17. CASE UNCHANGED siteVars
  BY <1>1, <1>17 DEF siteVars, siteMaps, siteAppVars, siteReconVars, linkVars, nodeVars,
         siteHist, rowHist
<1> QED
  BY <1>1, <1>2, <1>3, <1>4, <1>5, <1>6, <1>7, <1>8, <1>9, <1>10, <1>11, <1>12, <1>13,
     <1>14, <1>15, <1>16, <1>17 DEF SitesNext, AppStep, SiteReconnectStep,
     SiteParseStep, NodeStep

(* So does the copy of the reconnect thread. *)
LEMMA CopyTypesNext ==
  ASSUME SitesInv, [SitesNext]_siteVars
  PROVE  CopyTypes'
<1>1. ASSUME UNCHANGED <<info>> PROVE CopyTypes'
  BY <1>1, InvParts DEF CopyTypes
<1>2. ASSUME CheckServerVersion \/ UnsubscribeSite \/ Subscribes \/ SubscribeIsRedirected \/
             SiteSubscribeFails \/ AddSiteHandleThread
      PROVE  UNCHANGED <<info>>
  BY <1>2 DEF CheckServerVersion, AppKeeps, UnsubscribeSite, Subscribes, ConnectSite,
         InsertedInto, SubscribeIsRedirected, SiteSubscribeFails, AddSiteHandleThread,
         siteMaps, siteAppVars, siteReconVars, linkVars, nodeVars, siteHist, rowHist
<1>3. ASSUME EraseTopic \/ BeginRound \/ EndRound \/ InitTimesOut
      PROVE  UNCHANGED <<info>>
  BY <1>3 DEF EraseTopic, AppKeeps, BeginRound, ReconKeeps, EndRound, InitTimesOut,
         siteMaps, siteAppVars, siteReconVars, linkVars, nodeVars, siteHist, rowHist
<1>4. ASSUME NEW t \in Topics, PassOver(t) \/ GiveUp(t)
      PROVE  UNCHANGED <<info>>
  BY <1>4 DEF PassOver, ReconKeeps, GiveUp, siteMaps, siteAppVars, siteReconVars, linkVars,
         nodeVars, siteHist, rowHist
<1>5. ASSUME NEW n \in Nodes, LeaderFails(n) \/ NodeFails(n) \/ NodeReturns(n) \/ Elect(n)
      PROVE  UNCHANGED <<info>>
  BY <1>5 DEF LeaderFails, ReconKeeps, NodeFails, NodesKeep, NodeReturns, Elect, siteMaps,
         siteAppVars, siteReconVars, linkVars, nodeVars, siteHist, rowHist
<1>6. ASSUME NEW c \in Links, ReceiveSchema(c) \/ ReceiveRow(c) \/ Lose(c) \/ StampSite(c) \/
             MarkSite(c) \/                  LinkFails(c)
      PROVE  UNCHANGED <<info>>
  BY <1>6 DEF ReceiveSchema, ParseKeeps, ReceiveRow, Lose, StampSite, Ended, MarkSite, LinkFails,
         NodesKeep, siteMaps, siteAppVars, siteReconVars, linkVars, nodeVars, siteHist,
         rowHist
<1>7. ASSUME NEW t \in Topics, Visit(t) PROVE CopyTypes'
  BY <1>7, VisitDoes DEF CopyTypes
<1>8. ASSUME NextSite PROVE CopyTypes'
  BY <1>8, NextSiteDoes DEF CopyTypes
<1>9. ASSUME SiteAnswers PROVE CopyTypes'
  BY <1>9 DEF SiteAnswers, Idle, CopyTypes, NoInfo
<1>10. ASSUME SiteFails PROVE CopyTypes'
  BY <1>10, InvParts DEF SiteFails, Idle, CopyTypes, NoInfo
<1>11. ASSUME LeaderAnswers PROVE CopyTypes'
  BY <1>11 DEF LeaderAnswers, Idle, CopyTypes, NoInfo
<1>12. ASSUME LeaderRedirects PROVE CopyTypes'
  <2>1. info \in SiteInfos
    BY <1>12, InvParts, CopyFields DEF LeaderRedirects
  <2>2. leader \in Nodes /\ info' = [info EXCEPT !.host = leader]
    BY <1>12, InvParts DEF LeaderRedirects, Redirects, NotLeader, NodeTypes
  <2> QED
    BY <2>1, <2>2 DEF SiteInfos, CopyTypes
<1>13. ASSUME LeaderNotFound PROVE CopyTypes'
  BY <1>13 DEF LeaderNotFound, Idle, CopyTypes, NoInfo
<1>14. ASSUME VisitInitSite PROVE CopyTypes'
  BY <1>14, VisitInitDoes DEF CopyTypes
<1>15. ASSUME InitResubConnects PROVE CopyTypes'
  BY <1>15 DEF InitResubConnects, Idle, CopyTypes, NoInfo
<1>16. ASSUME InitResubFails PROVE CopyTypes'
  BY <1>16 DEF InitResubFails, Idle, CopyTypes, NoInfo
<1>17. CASE UNCHANGED siteVars
  BY <1>1, <1>17 DEF siteVars, siteMaps, siteAppVars, siteReconVars, linkVars, nodeVars,
         siteHist, rowHist
<1> QED
  BY <1>1, <1>2, <1>3, <1>4, <1>5, <1>6, <1>7, <1>8, <1>9, <1>10, <1>11, <1>12, <1>13,
     <1>14, <1>15, <1>16, <1>17 DEF SitesNext, AppStep, SiteReconnectStep,
     SiteParseStep, NodeStep

(* Those that wait for a first connection are infos. *)
LEMMA InitTypesNext ==
  ASSUME SitesInv, [SitesNext]_siteVars
  PROVE  InitTypes'
<1>1. ASSUME UNCHANGED <<initSites>> PROVE InitTypes'
  BY <1>1, InvParts DEF InitTypes
<1>2. ASSUME CheckServerVersion \/ UnsubscribeSite \/ Subscribes \/ SubscribeIsRedirected \/
             AddSiteHandleThread \/ EraseTopic
      PROVE  UNCHANGED <<initSites>>
  BY <1>2 DEF CheckServerVersion, AppKeeps, UnsubscribeSite, Subscribes, ConnectSite,
         InsertedInto, SubscribeIsRedirected, AddSiteHandleThread, EraseTopic, siteMaps,
         siteAppVars, siteReconVars, linkVars, nodeVars, siteHist, rowHist
<1>3. ASSUME BeginRound \/ NextSite \/ SiteAnswers \/ SiteFails \/ LeaderAnswers \/
             LeaderRedirects
      PROVE  UNCHANGED <<initSites>>
  BY <1>3 DEF BeginRound, ReconKeeps, NextSite, SiteAnswers, ConnectSite, MovedTo, Idle,
         SiteFails, LeaderAnswers, LeaderRedirects, siteMaps, siteAppVars, siteReconVars,
         linkVars, nodeVars, siteHist, rowHist
<1>4. ASSUME LeaderNotFound \/ EndRound \/ InitResubConnects
      PROVE  UNCHANGED <<initSites>>
  BY <1>4 DEF LeaderNotFound, Idle, ReconKeeps, EndRound, InitResubConnects, ConnectSite,
         InsertedInto, siteMaps, siteAppVars, siteReconVars, linkVars, nodeVars, siteHist,
         rowHist
<1>5. ASSUME NEW t \in Topics, PassOver(t) \/ GiveUp(t) \/ Visit(t)
      PROVE  UNCHANGED <<initSites>>
  BY <1>5 DEF PassOver, ReconKeeps, GiveUp, Visit, siteMaps, siteAppVars, siteReconVars,
         linkVars, nodeVars, siteHist, rowHist
<1>6. ASSUME NEW n \in Nodes, LeaderFails(n) \/ NodeFails(n) \/ NodeReturns(n) \/ Elect(n)
      PROVE  UNCHANGED <<initSites>>
  BY <1>6 DEF LeaderFails, ReconKeeps, NodeFails, NodesKeep, NodeReturns, Elect, siteMaps,
         siteAppVars, siteReconVars, linkVars, nodeVars, siteHist, rowHist
<1>7. ASSUME NEW c \in Links, ReceiveSchema(c) \/ ReceiveRow(c) \/ Lose(c) \/ StampSite(c) \/
             MarkSite(c) \/                  LinkFails(c)
      PROVE  UNCHANGED <<initSites>>
  BY <1>7 DEF ReceiveSchema, ParseKeeps, ReceiveRow, Lose, StampSite, Ended, MarkSite, LinkFails,
         NodesKeep, siteMaps, siteAppVars, siteReconVars, linkVars, nodeVars, siteHist,
         rowHist
<1>8. ASSUME SiteSubscribeFails PROVE InitTypes'
  <2>1. Fresh(NewInfo(appHost)) /\ initSites' = <<NewInfo(appHost)>>
    BY <1>8, SubscribeFailsDoes
  <2> QED
    BY <2>1 DEF Fresh, InitTypes
<1>9. ASSUME InitTimesOut PROVE InitTypes'
  <2>1. initSites' = Tail(initSites) /\ initSites # <<>>
    BY <1>9 DEF InitTimesOut
  <2> QED
    BY <2>1, InvParts, HeadTailProperties DEF InitTypes
<1>10. ASSUME VisitInitSite PROVE InitTypes'
  BY <1>10, VisitInitDoes, EmptySeq DEF InitTypes
<1>11. ASSUME InitResubFails PROVE InitTypes'
  BY <1>11, InvParts, InitFailsDoes, AppendProperties DEF InitTypes
<1>12. CASE UNCHANGED siteVars
  BY <1>1, <1>12 DEF siteVars, siteMaps, siteAppVars, siteReconVars, linkVars, nodeVars,
         siteHist, rowHist
<1> QED
  BY <1>1, <1>2, <1>3, <1>4, <1>5, <1>6, <1>7, <1>8, <1>9, <1>10, <1>11, <1>12 DEF SitesNext, AppStep, SiteReconnectStep,
     SiteParseStep, NodeStep

(* The marks are of nodes, and a round is over marks. *)
LEMMA MarkTypesNext ==
  ASSUME SitesInv, [SitesNext]_siteVars
  PROVE  MarkTypes'
<1>1. ASSUME UNCHANGED <<marked, toVisit>> PROVE MarkTypes'
  BY <1>1, InvParts DEF MarkTypes
<1>2. ASSUME CheckServerVersion \/ UnsubscribeSite \/ Subscribes \/ SubscribeIsRedirected \/
             SiteSubscribeFails \/ AddSiteHandleThread
      PROVE  UNCHANGED <<marked, toVisit>>
  BY <1>2 DEF CheckServerVersion, AppKeeps, UnsubscribeSite, Subscribes, ConnectSite,
         InsertedInto, SubscribeIsRedirected, SiteSubscribeFails, AddSiteHandleThread,
         siteMaps, siteAppVars, siteReconVars, linkVars, nodeVars, siteHist, rowHist
<1>3. ASSUME EraseTopic \/ NextSite \/ SiteAnswers \/ SiteFails \/ LeaderAnswers \/
             LeaderRedirects
      PROVE  UNCHANGED <<marked, toVisit>>
  BY <1>3 DEF EraseTopic, AppKeeps, NextSite, ReconKeeps, SiteAnswers, ConnectSite, MovedTo,
         Idle, SiteFails, LeaderAnswers, LeaderRedirects, siteMaps, siteAppVars,
         siteReconVars, linkVars, nodeVars, siteHist, rowHist
<1>4. ASSUME LeaderNotFound \/ EndRound \/ VisitInitSite \/ InitTimesOut \/
             InitResubConnects \/ InitResubFails
      PROVE  UNCHANGED <<marked, toVisit>>
  BY <1>4 DEF LeaderNotFound, Idle, ReconKeeps, EndRound, VisitInitSite, InitTimesOut,
         InitResubConnects, ConnectSite, InsertedInto, InitResubFails, siteMaps,
         siteAppVars, siteReconVars, linkVars, nodeVars, siteHist, rowHist
<1>5. ASSUME NEW n \in Nodes, LeaderFails(n) \/ NodeFails(n) \/ NodeReturns(n) \/ Elect(n)
      PROVE  UNCHANGED <<marked, toVisit>>
  BY <1>5 DEF LeaderFails, ReconKeeps, NodeFails, NodesKeep, NodeReturns, Elect, siteMaps,
         siteAppVars, siteReconVars, linkVars, nodeVars, siteHist, rowHist
<1>6. ASSUME NEW c \in Links, ReceiveRow(c) \/ Lose(c) \/ StampSite(c) \/ LinkFails(c)
      PROVE  UNCHANGED <<marked, toVisit>>
  BY <1>6 DEF ReceiveRow, ParseKeeps, Lose, StampSite, Ended, LinkFails, NodesKeep, siteMaps,
         siteAppVars, siteReconVars, linkVars, nodeVars, siteHist, rowHist
<1>7. ASSUME BeginRound PROVE MarkTypes'
  BY <1>7, InvParts DEF BeginRound, MarkTypes
<1>8. ASSUME NEW t \in Topics, PassOver(t) \/ GiveUp(t) \/ Visit(t) PROVE MarkTypes'
  BY <1>8, InvParts DEF PassOver, GiveUp, Visit, MarkTypes
<1>9. ASSUME NEW c \in Links, ReceiveSchema(c) PROVE MarkTypes'
  <2>1. toVisit = {} /\ toVisit' = toVisit /\ marked' \subseteq marked
    BY <1>9, InvParts DEF ReceiveSchema, RoundLocks, SitesControl, Copies, ParseKeeps, siteReconVars
  <2> QED
    BY <2>1, InvParts DEF MarkTypes
<1>10. ASSUME NEW c \in Links, MarkSite(c) PROVE MarkTypes'
  <2>1. conn[c].node \in Nodes
    BY <1>10, InvParts DEF MarkSite, SitesControl
  <2>2. marked' = marked \cup {conn[c].node} /\ toVisit' = toVisit
    BY <1>10 DEF MarkSite, ParseKeeps, siteReconVars
  <2> QED
    BY <2>1, <2>2, InvParts DEF MarkTypes
<1>11. CASE UNCHANGED siteVars
  BY <1>1, <1>11 DEF siteVars, siteMaps, siteAppVars, siteReconVars, linkVars, nodeVars,
         siteHist, rowHist
<1> QED
  BY <1>1, <1>2, <1>3, <1>4, <1>5, <1>6, <1>7, <1>8, <1>9, <1>10, <1>11 DEF SitesNext, AppStep, SiteReconnectStep,
     SiteParseStep, NodeStep

(* The leader is up. *)
LEMMA NodeTypesNext ==
  ASSUME SitesInv, [SitesNext]_siteVars
  PROVE  NodeTypes'
<1>1. ASSUME UNCHANGED <<up, leader>> PROVE NodeTypes'
  BY <1>1, InvParts DEF NodeTypes
<1>2. ASSUME CheckServerVersion \/ UnsubscribeSite \/ Subscribes \/ SubscribeIsRedirected \/
             SiteSubscribeFails \/ AddSiteHandleThread
      PROVE  UNCHANGED <<up, leader>>
  BY <1>2 DEF CheckServerVersion, AppKeeps, UnsubscribeSite, Subscribes, ConnectSite,
         InsertedInto, SubscribeIsRedirected, SiteSubscribeFails, AddSiteHandleThread,
         siteMaps, siteAppVars, siteReconVars, linkVars, nodeVars, siteHist, rowHist
<1>3. ASSUME EraseTopic \/ BeginRound \/ NextSite \/ SiteAnswers \/ SiteFails \/
             LeaderAnswers
      PROVE  UNCHANGED <<up, leader>>
  BY <1>3 DEF EraseTopic, AppKeeps, BeginRound, ReconKeeps, NextSite, SiteAnswers,
         ConnectSite, MovedTo, Idle, SiteFails, LeaderAnswers, siteMaps, siteAppVars,
         siteReconVars, linkVars, nodeVars, siteHist, rowHist
<1>4. ASSUME LeaderRedirects \/ LeaderNotFound \/ EndRound \/ VisitInitSite \/
             InitTimesOut \/ InitResubConnects
      PROVE  UNCHANGED <<up, leader>>
  BY <1>4 DEF LeaderRedirects, ReconKeeps, LeaderNotFound, Idle, EndRound, VisitInitSite,
         InitTimesOut, InitResubConnects, ConnectSite, InsertedInto, siteMaps, siteAppVars,
         siteReconVars, linkVars, nodeVars, siteHist, rowHist
<1>5. ASSUME InitResubFails
      PROVE  UNCHANGED <<up, leader>>
  BY <1>5 DEF InitResubFails, Idle, ReconKeeps, siteMaps, siteAppVars, siteReconVars,
         linkVars, nodeVars, siteHist, rowHist
<1>6. ASSUME NEW t \in Topics, PassOver(t) \/ GiveUp(t) \/ Visit(t)
      PROVE  UNCHANGED <<up, leader>>
  BY <1>6 DEF PassOver, ReconKeeps, GiveUp, Visit, siteMaps, siteAppVars, siteReconVars,
         linkVars, nodeVars, siteHist, rowHist
<1>7. ASSUME NEW n \in Nodes, LeaderFails(n)
      PROVE  UNCHANGED <<up, leader>>
  BY <1>7 DEF LeaderFails, ReconKeeps, siteMaps, siteAppVars, siteReconVars, linkVars,
         nodeVars, siteHist, rowHist
<1>8. ASSUME NEW c \in Links, ReceiveSchema(c) \/ ReceiveRow(c) \/ Lose(c) \/ StampSite(c) \/
             MarkSite(c) \/                  LinkFails(c)
      PROVE  UNCHANGED <<up, leader>>
  BY <1>8 DEF ReceiveSchema, ParseKeeps, ReceiveRow, Lose, StampSite, Ended, MarkSite, LinkFails,
         NodesKeep, siteMaps, siteAppVars, siteReconVars, linkVars, nodeVars, siteHist,
         rowHist
<1>9. ASSUME NEW n \in Nodes, NodeFails(n) PROVE NodeTypes'
  BY <1>9, InvParts DEF NodeFails, NodeTypes
<1>10. ASSUME NEW n \in Nodes, NodeReturns(n) PROVE NodeTypes'
  BY <1>10, InvParts DEF NodeReturns, NodeTypes
<1>11. ASSUME NEW n \in Nodes, Elect(n) PROVE NodeTypes'
  BY <1>11, InvParts DEF Elect, NodeTypes
<1>12. CASE UNCHANGED siteVars
  BY <1>1, <1>12 DEF siteVars, siteMaps, siteAppVars, siteReconVars, linkVars, nodeVars,
         siteHist, rowHist
<1> QED
  BY <1>1, <1>2, <1>3, <1>4, <1>5, <1>6, <1>7, <1>8, <1>9, <1>10, <1>11, <1>12 DEF SitesNext, AppStep, SiteReconnectStep,
     SiteParseStep, NodeStep

(* The connections and their threads keep their types. *)
LEMMA LinkTypesNext ==
  ASSUME SitesInv, [SitesNext]_siteVars
  PROVE  (LinkTypeOK /\ ParseTypes)'
<1>1. ASSUME UNCHANGED <<conn, parse>> PROVE (LinkTypeOK /\ ParseTypes)'
  BY <1>1, InvParts DEF LinkTypeOK, ParseTypes
<1>2. ASSUME CheckServerVersion \/ UnsubscribeSite \/ SubscribeIsRedirected \/
             SiteSubscribeFails \/ AddSiteHandleThread \/ BeginRound
      PROVE  UNCHANGED <<conn, parse>>
  BY <1>2 DEF CheckServerVersion, AppKeeps, UnsubscribeSite, SubscribeIsRedirected,
         SiteSubscribeFails, InsertedInto, AddSiteHandleThread, BeginRound, ReconKeeps,
         siteMaps, siteAppVars, siteReconVars, linkVars, nodeVars, siteHist, rowHist
<1>3. ASSUME NextSite \/ SiteFails \/ LeaderRedirects \/ LeaderNotFound \/ EndRound \/
             VisitInitSite
      PROVE  UNCHANGED <<conn, parse>>
  BY <1>3 DEF NextSite, ReconKeeps, SiteFails, Idle, LeaderRedirects, LeaderNotFound,
         EndRound, VisitInitSite, siteMaps, siteAppVars, siteReconVars, linkVars, nodeVars,
         siteHist, rowHist
<1>4. ASSUME InitTimesOut \/ InitResubFails
      PROVE  UNCHANGED <<conn, parse>>
  BY <1>4 DEF InitTimesOut, ReconKeeps, InitResubFails, Idle, siteMaps, siteAppVars,
         siteReconVars, linkVars, nodeVars, siteHist, rowHist
<1>5. ASSUME NEW t \in Topics, PassOver(t) \/ GiveUp(t) \/ Visit(t)
      PROVE  UNCHANGED <<conn, parse>>
  BY <1>5 DEF PassOver, ReconKeeps, GiveUp, Visit, siteMaps, siteAppVars, siteReconVars,
         linkVars, nodeVars, siteHist, rowHist
<1>6. ASSUME NEW n \in Nodes, LeaderFails(n) \/ NodeReturns(n) \/ Elect(n)
      PROVE  UNCHANGED <<conn, parse>>
  BY <1>6 DEF LeaderFails, ReconKeeps, NodeReturns, NodesKeep, Elect, siteMaps, siteAppVars,
         siteReconVars, linkVars, nodeVars, siteHist, rowHist
<1>7. ASSUME Subscribes PROVE (LinkTypeOK /\ ParseTypes)'
  BY <1>7, SubscribesDoes
<1>8. ASSUME SiteAnswers PROVE (LinkTypeOK /\ ParseTypes)'
  BY <1>8, SiteAnswersDoes
<1>9. ASSUME LeaderAnswers PROVE (LinkTypeOK /\ ParseTypes)'
  BY <1>9, LeaderAnswersDoes
<1>10. ASSUME InitResubConnects PROVE (LinkTypeOK /\ ParseTypes)'
  BY <1>10, InitConnectsDoes
<1>11. ASSUME EraseTopic PROVE (LinkTypeOK /\ ParseTypes)'
  BY <1>11, EraseDoes
<1>12. ASSUME NEW c \in Links, ReceiveSchema(c) PROVE (LinkTypeOK /\ ParseTypes)'
  <2>1. conn' = [conn EXCEPT ![c].met = TRUE] /\ parse' = parse
    BY <1>12 DEF ReceiveSchema
  <2> QED
    BY <2>1, InvParts DEF LinkTypeOK, ParseTypes
<1>13. ASSUME NEW c \in Links, ReceiveRow(c) PROVE (LinkTypeOK /\ ParseTypes)'
  <2>1. parse' = parse
    BY <1>13 DEF ReceiveRow
  <2> QED
    BY <1>13, <2>1, InvParts, ReceiveRowDoes DEF ParseTypes
<1>14. ASSUME NEW c \in Links, Lose(c) PROVE (LinkTypeOK /\ ParseTypes)'
  BY <1>14, InvParts, LoseDoes
<1>15. ASSUME NEW c \in Links, MarkSite(c) PROVE (LinkTypeOK /\ ParseTypes)'
  BY <1>15, InvParts, MarkDoes
<1>16. ASSUME NEW n \in Nodes, NodeFails(n) PROVE (LinkTypeOK /\ ParseTypes)'
  BY <1>16, InvParts, NodeFailsDoes
<1>17. ASSUME NEW c \in Links, LinkFails(c) PROVE (LinkTypeOK /\ ParseTypes)'
  BY <1>17, InvParts, LinkFailsDoes
<1>18. ASSUME NEW c \in Links, StampSite(c) PROVE (LinkTypeOK /\ ParseTypes)'
  BY <1>18, StampDoes
<1>19. CASE UNCHANGED siteVars
  BY <1>1, <1>19 DEF siteVars, siteMaps, siteAppVars, siteReconVars, linkVars, nodeVars,
         siteHist, rowHist
<1> QED
  BY <1>1, <1>2, <1>3, <1>4, <1>5, <1>6, <1>7, <1>8, <1>9, <1>10, <1>11, <1>12, <1>13,
     <1>14, <1>15, <1>16, <1>17, <1>18, <1>19 DEF SitesNext, AppStep, SiteReconnectStep,
     SiteParseStep, NodeStep

(* What the application works with. *)
LEMMA AppControlNext ==
  ASSUME SitesInv, [SitesNext]_siteVars
  PROVE  AppControl'
<1>1. ASSUME UNCHANGED <<given, subOnce, app, appTopic, appHost>> PROVE AppControl'
  BY <1>1, InvParts, ControlParts DEF AppControl, ha
<1>2. ASSUME BeginRound \/ NextSite \/ SiteAnswers \/ SiteFails \/ LeaderAnswers \/
             LeaderRedirects
      PROVE  UNCHANGED <<given, subOnce, app, appTopic, appHost>>
  BY <1>2 DEF BeginRound, ReconKeeps, NextSite, SiteAnswers, ConnectSite, MovedTo, Idle,
         SiteFails, LeaderAnswers, LeaderRedirects, siteMaps, siteAppVars, siteReconVars,
         linkVars, nodeVars, siteHist, rowHist
<1>3. ASSUME LeaderNotFound \/ EndRound \/ VisitInitSite \/ InitTimesOut \/
             InitResubConnects \/ InitResubFails
      PROVE  UNCHANGED <<given, subOnce, app, appTopic, appHost>>
  BY <1>3 DEF LeaderNotFound, Idle, ReconKeeps, EndRound, VisitInitSite, InitTimesOut,
         InitResubConnects, ConnectSite, InsertedInto, InitResubFails, siteMaps,
         siteAppVars, siteReconVars, linkVars, nodeVars, siteHist, rowHist
<1>4. ASSUME NEW t \in Topics, PassOver(t) \/ GiveUp(t) \/ Visit(t)
      PROVE  UNCHANGED <<given, subOnce, app, appTopic, appHost>>
  BY <1>4 DEF PassOver, ReconKeeps, GiveUp, Visit, siteMaps, siteAppVars, siteReconVars,
         linkVars, nodeVars, siteHist, rowHist
<1>5. ASSUME NEW n \in Nodes, LeaderFails(n) \/ NodeFails(n) \/ NodeReturns(n) \/ Elect(n)
      PROVE  UNCHANGED <<given, subOnce, app, appTopic, appHost>>
  BY <1>5 DEF LeaderFails, ReconKeeps, NodeFails, NodesKeep, NodeReturns, Elect, siteMaps,
         siteAppVars, siteReconVars, linkVars, nodeVars, siteHist, rowHist
<1>6. ASSUME NEW c \in Links, ReceiveSchema(c) \/ ReceiveRow(c) \/ Lose(c) \/ StampSite(c) \/
             MarkSite(c) \/                  LinkFails(c)
      PROVE  UNCHANGED <<given, subOnce, app, appTopic, appHost>>
  BY <1>6 DEF ReceiveSchema, ParseKeeps, ReceiveRow, Lose, StampSite, Ended, MarkSite, LinkFails,
         NodesKeep, siteMaps, siteAppVars, siteReconVars, linkVars, nodeVars, siteHist,
         rowHist
<1>7. ASSUME CheckServerVersion PROVE AppControl'
  BY <1>7, InvParts, ControlParts, Numbers DEF CheckServerVersion, AppKeeps, AppControl, MapTypes, NodeTypes, NotLeader, ha
<1>8. ASSUME UnsubscribeSite PROVE AppControl'
  BY <1>8, InvParts, ControlParts, Numbers DEF UnsubscribeSite, AppKeeps, AppControl, MapTypes, NodeTypes, NotLeader, ha
<1>9. ASSUME Subscribes PROVE AppControl'
  BY <1>9, InvParts, ControlParts, Numbers DEF Subscribes, AppKeeps, AppControl, MapTypes, NodeTypes, NotLeader, ha
<1>10. ASSUME SubscribeIsRedirected PROVE AppControl'
  BY <1>10, InvParts, ControlParts, Numbers DEF SubscribeIsRedirected, AppKeeps, AppControl, MapTypes, NodeTypes, NotLeader, ha
<1>11. ASSUME SiteSubscribeFails PROVE AppControl'
  BY <1>11, InvParts, ControlParts, Numbers DEF SiteSubscribeFails, AppKeeps, AppControl, MapTypes, NodeTypes, NotLeader, ha
<1>12. ASSUME AddSiteHandleThread PROVE AppControl'
  BY <1>12, InvParts, ControlParts, Numbers DEF AddSiteHandleThread, AppKeeps, AppControl, MapTypes, NodeTypes, NotLeader, ha
<1>13. ASSUME EraseTopic PROVE AppControl'
  BY <1>13, InvParts, ControlParts, Numbers DEF EraseTopic, AppKeeps, AppControl, MapTypes, NodeTypes, NotLeader, ha
<1>14. CASE UNCHANGED siteVars
  BY <1>1, <1>14 DEF siteVars, siteMaps, siteAppVars, siteReconVars, linkVars, nodeVars,
         siteHist, rowHist
<1> QED
  BY <1>1, <1>2, <1>3, <1>4, <1>5, <1>6, <1>7, <1>8, <1>9, <1>10, <1>11, <1>12, <1>13, <1>14 DEF SitesNext, AppStep, SiteReconnectStep,
     SiteParseStep, NodeStep

(* Where the reconnect thread is, and what it has then. *)
LEMMA ReconControlNext ==
  ASSUME SitesInv, [SitesNext]_siteVars
  PROVE  ReconControl'
<1>1. ASSUME UNCHANGED <<given, recon, toVisit, visited, info, index>> PROVE ReconControl'
  BY <1>1, InvParts, ControlParts DEF ReconControl, ha
<1>2. ASSUME CheckServerVersion \/ UnsubscribeSite \/ Subscribes \/ SubscribeIsRedirected \/
             SiteSubscribeFails \/ AddSiteHandleThread
      PROVE  UNCHANGED <<given, recon, toVisit, visited, info, index>>
  BY <1>2 DEF CheckServerVersion, AppKeeps, UnsubscribeSite, Subscribes, ConnectSite,
         InsertedInto, SubscribeIsRedirected, SiteSubscribeFails, AddSiteHandleThread,
         siteMaps, siteAppVars, siteReconVars, linkVars, nodeVars, siteHist, rowHist
<1>3. ASSUME EraseTopic \/ InitTimesOut
      PROVE  UNCHANGED <<given, recon, toVisit, visited, info, index>>
  BY <1>3 DEF EraseTopic, AppKeeps, InitTimesOut, ReconKeeps, siteMaps, siteAppVars,
         siteReconVars, linkVars, nodeVars, siteHist, rowHist
<1>4. ASSUME NEW c \in Links, ReceiveSchema(c) \/ ReceiveRow(c) \/ Lose(c) \/ StampSite(c) \/
             MarkSite(c) \/                  LinkFails(c)
      PROVE  UNCHANGED <<given, recon, toVisit, visited, info, index>>
  BY <1>4 DEF ReceiveSchema, ParseKeeps, ReceiveRow, Lose, StampSite, Ended, MarkSite, LinkFails,
         NodesKeep, siteMaps, siteAppVars, siteReconVars, linkVars, nodeVars, siteHist,
         rowHist
<1>5. ASSUME NEW n \in Nodes, NodeFails(n) \/ NodeReturns(n) \/ Elect(n)
      PROVE  UNCHANGED <<given, recon, toVisit, visited, info, index>>
  BY <1>5 DEF NodeFails, NodesKeep, NodeReturns, Elect, siteMaps, siteAppVars,
         siteReconVars, linkVars, nodeVars, siteHist, rowHist
<1>6. ASSUME BeginRound PROVE ReconControl'
  BY <1>6, InvParts, ControlParts DEF BeginRound, ReconKeeps, ReconControl, Copies, NoInfo, ha
<1>7. ASSUME NEW t \in Topics, PassOver(t) \/ GiveUp(t) PROVE ReconControl'
  BY <1>7, InvParts, ControlParts DEF PassOver, GiveUp, ReconKeeps, ReconControl, Copies, NoInfo, ha
<1>8. ASSUME NEW t \in Topics, Visit(t) PROVE ReconControl'
  <2>1. given' = given
    BY <1>8 DEF Visit, ReconKeeps
  <2>2. info' # NoInfo
    BY <1>8, VisitDoes, InfoFields
  <2>3. CASE ha
    BY <1>8, <2>1, <2>2, <2>3, VisitDoes DEF ReconControl, Copies, ha
  <2>4. CASE ~ha
    BY <1>8, <2>1, <2>2, <2>4, VisitDoes DEF ReconControl, Copies, ha
  <2> QED
    BY <2>3, <2>4
<1>9. ASSUME NextSite PROVE ReconControl'
  <2>1. /\ given' = given /\ recon = "site" /\ recon' = "try"
        /\ UNCHANGED <<toVisit, visited, index>>
    BY <1>9 DEF NextSite, ReconKeeps
  <2>2. info' # NoInfo
    BY <1>9, NextSiteDoes, InfoFields
  <2> QED
    BY <2>1, <2>2, InvParts, ControlParts DEF ReconControl, Copies, ha
<1>10. ASSUME SiteAnswers PROVE ReconControl'
  <2>1. recon' = "round" /\ info' = NoInfo
    BY <1>10 DEF SiteAnswers, Idle
  <2> QED
    BY <2>1 DEF ReconControl, Copies
<1>11. ASSUME SiteFails PROVE ReconControl'
  <2>1. recon = "try" /\ toVisit' = toVisit /\ given' = given
    BY <1>11 DEF SiteFails, ReconKeeps
  <2>2. CASE tries = 1
    <3>1. recon' = "round" /\ info' = NoInfo
      BY <1>11, <2>2 DEF SiteFails, Idle
    <3> QED
      BY <3>1 DEF ReconControl, Copies
  <2>3. CASE tries # 1
    <3>1. recon' = "site" /\ info' = info /\ visited' = visited
      BY <1>11, <2>3 DEF SiteFails
    <3> QED
      BY <2>1, <3>1, InvParts, ControlParts DEF ReconControl, Copies, ha
  <2> QED
    BY <2>2, <2>3
<1>12. ASSUME LeaderAnswers PROVE ReconControl'
  <2>1. recon' = "round" /\ info' = NoInfo
    BY <1>12 DEF LeaderAnswers, Idle
  <2> QED
    BY <2>1 DEF ReconControl, Copies
<1>13. ASSUME LeaderRedirects PROVE ReconControl'
  <2>1. /\ recon = "leader" /\ UNCHANGED <<recon, visited, toVisit>> /\ given' = given
        /\ index' = leader /\ info' = [info EXCEPT !.host = leader]
    BY <1>13 DEF LeaderRedirects, ReconKeeps
  <2>2. leader \in Nodes
    BY <1>13, InvParts DEF LeaderRedirects, Redirects, NotLeader, NodeTypes
  <2>3. info' \in SiteInfos
    <3>1. info \in SiteInfos
      BY <2>1, InvParts, CopyFields
    <3> QED
      BY <2>1, <2>2, <3>1 DEF SiteInfos
  <2>4. info' # NoInfo
    BY <2>3, InfoFields
  <2> QED
    BY <2>1, <2>2, <2>4, InvParts, ControlParts DEF ReconControl, Copies, ha
<1>14. ASSUME NEW n \in Nodes, LeaderFails(n) PROVE ReconControl'
  <2>1. recon = "leader" /\ UNCHANGED <<recon, visited, toVisit, info, given>> /\ index' = n
    BY <1>14 DEF LeaderFails, ReconKeeps
  <2> QED
    BY <2>1, InvParts, ControlParts DEF ReconControl, Copies, ha
<1>15. ASSUME LeaderNotFound PROVE ReconControl'
  <2>1. recon' = "round" /\ info' = NoInfo
    BY <1>15 DEF LeaderNotFound, Idle
  <2> QED
    BY <2>1 DEF ReconControl, Copies
<1>16. ASSUME EndRound PROVE ReconControl'
  <2>1. recon = "round" /\ recon' = "sleep" /\ info' = info /\ toVisit' = {}
    BY <1>16 DEF EndRound
  <2> QED
    BY <2>1, InvParts, ControlParts DEF ReconControl, Copies
<1>17. ASSUME VisitInitSite PROVE ReconControl'
  <2>1. recon = "sleep" /\ recon' = "init" /\ toVisit' = toVisit
    BY <1>17 DEF VisitInitSite
  <2>2. info' # NoInfo
    BY <1>17, VisitInitDoes, InfoFields
  <2> QED
    BY <2>1, <2>2, InvParts, ControlParts DEF ReconControl, Copies
<1>18. ASSUME InitResubConnects PROVE ReconControl'
  <2>1. recon = "init" /\ recon' = "sleep" /\ info' = NoInfo /\ toVisit' = toVisit
    BY <1>18 DEF InitResubConnects, Idle
  <2> QED
    BY <2>1, InvParts, ControlParts DEF ReconControl, Copies
<1>19. ASSUME InitResubFails PROVE ReconControl'
  <2>1. recon = "init" /\ recon' = "sleep" /\ info' = NoInfo /\ toVisit' = toVisit
    BY <1>19 DEF InitResubFails, Idle
  <2> QED
    BY <2>1, InvParts, ControlParts DEF ReconControl, Copies
<1>20. CASE UNCHANGED siteVars
  BY <1>1, <1>20 DEF siteVars, siteMaps, siteAppVars, siteReconVars, linkVars, nodeVars,
         siteHist, rowHist
<1> QED
  BY <1>1, <1>2, <1>3, <1>4, <1>5, <1>6, <1>7, <1>8, <1>9, <1>10, <1>11, <1>12, <1>13,
     <1>14, <1>15, <1>16, <1>17, <1>18, <1>19, <1>20 DEF SitesNext, AppStep, SiteReconnectStep,
     SiteParseStep, NodeStep

(* A connection that is made, or lost, fits in. *)
LEMMA LinkMadeControl ==
  ASSUME LinkControl, NEW i \in SiteInfos, LinkMade(i)
  PROVE  LinkControl'
<1>1. linksMade' = linksMade + 1 /\ linksMade' \in 0 .. MaxLinks /\ linksMade \in Nat
  BY Numbers DEF LinkControl, LinkMade, Links
<1>2. ASSUME NEW c \in Links
      PROVE  /\ conn'[c].open => c <= linksMade'
             /\ parse'[c] \in {"read", "stamp", "mark"} => conn'[c].node \in Nodes /\ c <= linksMade'
  <2>1. CASE c = linksMade'
    BY <1>1, <2>1, InfoFields DEF LinkMade, Links
  <2>2. CASE c # linksMade'
    <3>1. conn'[c] = conn[c] /\ parse'[c] = parse[c] /\ c \in Nat
      BY <2>2, Numbers DEF LinkMade
    <3>2. c <= linksMade => c <= linksMade'
      BY <1>1, <3>1
    <3> QED
      BY <3>1, <3>2 DEF LinkControl
  <2> QED
    BY <2>1, <2>2
<1> QED
  BY <1>1, <1>2 DEF LinkControl

LEMMA LinksFallControl ==
  ASSUME LinkControl, LinksFall,
         \A c \in Links : parse'[c] \in {"read", "stamp", "mark"} =>
           parse[c] \in {"read", "stamp", "mark"} /\ conn'[c].node = conn[c].node
  PROVE  LinkControl'
BY DEF LinkControl, LinksFall

(* Which connections there are, and whose threads run. *)
LEMMA LinkControlNext ==
  ASSUME SitesInv, [SitesNext]_siteVars
  PROVE  LinkControl'
<1>1. ASSUME UNCHANGED <<linksMade, conn, parse>> PROVE LinkControl'
  BY <1>1, InvParts, ControlParts DEF LinkControl
<1>2. ASSUME CheckServerVersion \/ UnsubscribeSite \/ SubscribeIsRedirected \/
             SiteSubscribeFails \/ AddSiteHandleThread \/ BeginRound
      PROVE  UNCHANGED <<linksMade, conn, parse>>
  BY <1>2 DEF CheckServerVersion, AppKeeps, UnsubscribeSite, SubscribeIsRedirected,
         SiteSubscribeFails, InsertedInto, AddSiteHandleThread, BeginRound, ReconKeeps,
         siteMaps, siteAppVars, siteReconVars, linkVars, nodeVars, siteHist, rowHist
<1>3. ASSUME NextSite \/ SiteFails \/ LeaderRedirects \/ LeaderNotFound \/ EndRound \/
             VisitInitSite
      PROVE  UNCHANGED <<linksMade, conn, parse>>
  BY <1>3 DEF NextSite, ReconKeeps, SiteFails, Idle, LeaderRedirects, LeaderNotFound,
         EndRound, VisitInitSite, siteMaps, siteAppVars, siteReconVars, linkVars, nodeVars,
         siteHist, rowHist
<1>4. ASSUME InitTimesOut \/ InitResubFails
      PROVE  UNCHANGED <<linksMade, conn, parse>>
  BY <1>4 DEF InitTimesOut, ReconKeeps, InitResubFails, Idle, siteMaps, siteAppVars,
         siteReconVars, linkVars, nodeVars, siteHist, rowHist
<1>5. ASSUME NEW t \in Topics, PassOver(t) \/ GiveUp(t) \/ Visit(t)
      PROVE  UNCHANGED <<linksMade, conn, parse>>
  BY <1>5 DEF PassOver, ReconKeeps, GiveUp, Visit, siteMaps, siteAppVars, siteReconVars,
         linkVars, nodeVars, siteHist, rowHist
<1>6. ASSUME NEW n \in Nodes, LeaderFails(n) \/ NodeReturns(n) \/ Elect(n)
      PROVE  UNCHANGED <<linksMade, conn, parse>>
  BY <1>6 DEF LeaderFails, ReconKeeps, NodeReturns, NodesKeep, Elect, siteMaps, siteAppVars,
         siteReconVars, linkVars, nodeVars, siteHist, rowHist
<1>7. ASSUME Subscribes PROVE LinkControl'
  <2>1. PICK i \in SiteInfos : LinkMade(i)
    <3>1. NewInfo(appHost) \in SiteInfos
      BY InvParts, ControlParts, NewInfoFields DEF AppControl
    <3> QED
      BY <1>7, <3>1, SubscribesDoes
  <2> QED
    BY <2>1, LinkMadeControl, InvParts, ControlParts
<1>8. ASSUME SiteAnswers PROVE LinkControl'
  <2>1. PICK i \in SiteInfos : LinkMade(i)
    BY <1>8, SiteAnswersDoes, InvParts, CopyFields DEF SiteAnswers
  <2> QED
    BY <2>1, LinkMadeControl, InvParts, ControlParts
<1>9. ASSUME LeaderAnswers PROVE LinkControl'
  <2>1. PICK i \in SiteInfos : LinkMade(i)
    BY <1>9, LeaderAnswersDoes, InvParts, CopyFields DEF LeaderAnswers
  <2> QED
    BY <2>1, LinkMadeControl, InvParts, ControlParts
<1>10. ASSUME InitResubConnects PROVE LinkControl'
  <2>1. PICK i \in SiteInfos : LinkMade(i)
    BY <1>10, InitConnectsDoes, InvParts, CopyFields DEF InitResubConnects
  <2> QED
    BY <2>1, LinkMadeControl, InvParts, ControlParts
<1>11. ASSUME EraseTopic PROVE LinkControl'
  BY <1>11, EraseDoes, LinksFallControl, InvParts, ControlParts
<1>12. ASSUME NEW c \in Links, ReceiveSchema(c) PROVE LinkControl'
  BY <1>12, SchemaDoes, LinksFallControl, InvParts, ControlParts
<1>13. ASSUME NEW c \in Links, ReceiveRow(c) PROVE LinkControl'
  <2>1. parse' = parse
    BY <1>13 DEF ReceiveRow
  <2>2. \A d \in Links : conn'[d].node = conn[d].node /\ (conn'[d].open => conn[d].open)
    BY <1>13, ReceiveRowDoes
  <2>3. linksMade' = linksMade
    BY <1>13, ReceiveRowDoes
  <2> QED
    BY <2>1, <2>2, <2>3, InvParts, ControlParts DEF LinkControl
<1>14. ASSUME NEW c \in Links, Lose(c) PROVE LinkControl'
  <2>1. LinksFall /\ \A d \in Links \ {c} : parse'[d] = parse[d] /\ conn'[d] = conn[d]
    BY <1>14, InvParts, LoseDoes DEF Lose, Ended, LinkTypeOK
  <2>2. parse[c] = "read" /\ (parse'[c] = "done" \/ (parse'[c] = "stamp" /\ conn' = conn))
    BY <1>14, InvParts, LoseDoes
  <2> QED
    BY <2>1, <2>2, LinksFallControl, InvParts, ControlParts
<1>15. ASSUME NEW c \in Links, MarkSite(c) PROVE LinkControl'
  <2>1. LinksFall /\ \A d \in Links \ {c} : parse'[d] = parse[d] /\ conn'[d] = conn[d]
    BY <1>15, InvParts, MarkDoes DEF MarkSite, Ended, LinkTypeOK
  <2>2. parse'[c] = "done"
    BY <1>15, InvParts, MarkDoes
  <2> QED
    BY <2>1, <2>2, LinksFallControl, InvParts, ControlParts
<1>16. ASSUME NEW n \in Nodes, NodeFails(n) PROVE LinkControl'
  <2>1. LinksFall /\ parse' = parse /\ \A d \in Links : conn'[d].node = conn[d].node
    BY <1>16, InvParts, NodeFailsDoes
  <2> QED
    BY <2>1, LinksFallControl, InvParts, ControlParts
<1>17. ASSUME NEW c \in Links, LinkFails(c) PROVE LinkControl'
  <2>1. LinksFall /\ parse' = parse /\ \A d \in Links : conn'[d].node = conn[d].node
    BY <1>17, InvParts, LinkFailsDoes
  <2> QED
    BY <2>1, LinksFallControl, InvParts, ControlParts
<1>18. ASSUME NEW c \in Links, StampSite(c) PROVE LinkControl'
  <2>1. /\ LinksFall /\ conn' = conn /\ parse[c] = "stamp"
        /\ \A d \in Links \ {c} : parse'[d] = parse[d]
    BY <1>18, StampDoes
  <2> QED
    BY <2>1, LinksFallControl, InvParts, ControlParts
<1>19. CASE UNCHANGED siteVars
  BY <1>1, <1>19 DEF siteVars, siteMaps, siteAppVars, siteReconVars, linkVars, nodeVars,
         siteHist, rowHist
<1> QED
  BY <1>1, <1>2, <1>3, <1>4, <1>5, <1>6, <1>7, <1>8, <1>9, <1>10, <1>11, <1>12, <1>13,
     <1>14, <1>15, <1>16, <1>17, <1>18, <1>19 DEF SitesNext, AppStep, SiteReconnectStep,
     SiteParseStep, NodeStep

(* Before the first connection no parse thread runs, and while nothing has  *)
(* been entered the reconnect thread sleeps.                                *)
LEMMA NoLinkYet ==
  ASSUME SitesInv, linksMade = 0, NEW c \in Links
  PROVE  ~conn[c].open /\ parse[c] \notin {"read", "stamp", "mark"}
<1>1. ~(c <= 0)
  BY Numbers
<1> QED
  BY <1>1, InvParts, ControlParts DEF LinkControl

LEMMA NobodyYet ==
  ASSUME SitesInv, app \in {"new", "connect"}
  PROVE  /\ linksMade = 0 /\ Entries = {} /\ initSites = <<>> /\ recon = "sleep" /\ marked = {}
         /\ topic = NoTopic /\ live = {} /\ \A t \in Topics : siteCnt[t] = 0
BY InvParts DEF NothingYet, NoSiteYet

LEMMA LinkMadeFirst ==
  ASSUME NEW i, LinkMade(i)
  PROVE  linksMade' # 0
BY Numbers DEF LinkMade

(* Before subscribe() there is nothing. *)
LEMMA NothingYetNext ==
  ASSUME SitesInv, [SitesNext]_siteVars
  PROVE  NothingYet'
<1>1. ASSUME UNCHANGED <<app, linksMade, entry, topic, initSites, live, siteCnt, recon>> PROVE NothingYet'
  BY <1>1, InvParts DEF NothingYet, Entries
<1>2. ASSUME SubscribeIsRedirected \/ LeaderRedirects
      PROVE  UNCHANGED <<app, linksMade, entry, topic, initSites, live, siteCnt, recon>>
  BY <1>2 DEF SubscribeIsRedirected, AppKeeps, LeaderRedirects, ReconKeeps, siteMaps,
         siteAppVars, siteReconVars, linkVars, nodeVars, siteHist, rowHist
<1>3. ASSUME NEW t \in Topics, PassOver(t) \/ GiveUp(t)
      PROVE  UNCHANGED <<app, linksMade, entry, topic, initSites, live, siteCnt, recon>>
  BY <1>3 DEF PassOver, ReconKeeps, GiveUp, siteMaps, siteAppVars, siteReconVars, linkVars,
         nodeVars, siteHist, rowHist
<1>4. ASSUME NEW n \in Nodes, LeaderFails(n) \/ NodeFails(n) \/ NodeReturns(n) \/ Elect(n)
      PROVE  UNCHANGED <<app, linksMade, entry, topic, initSites, live, siteCnt, recon>>
  BY <1>4 DEF LeaderFails, ReconKeeps, NodeFails, NodesKeep, NodeReturns, Elect, siteMaps,
         siteAppVars, siteReconVars, linkVars, nodeVars, siteHist, rowHist
<1>5. ASSUME NEW c \in Links, ReceiveSchema(c) \/ Lose(c) \/ MarkSite(c) \/ LinkFails(c)
      PROVE  UNCHANGED <<app, linksMade, entry, topic, initSites, live, siteCnt, recon>>
  BY <1>5 DEF ReceiveSchema, ParseKeeps, Lose, Ended, MarkSite, LinkFails, NodesKeep,
         siteMaps, siteAppVars, siteReconVars, linkVars, nodeVars, siteHist, rowHist
<1>6. ASSUME CheckServerVersion PROVE NothingYet'
  <2>1. app = "new" /\ UNCHANGED <<linksMade, entry, topic, initSites, live, siteCnt, recon>>
    BY <1>6 DEF CheckServerVersion, AppKeeps, siteMaps, linkVars, siteReconVars
  <2> QED
    BY <1>6, <2>1, InvParts DEF NothingYet, Entries
<1>7. ASSUME UnsubscribeSite PROVE NothingYet'
  BY <1>7 DEF UnsubscribeSite, NothingYet
<1>8. ASSUME Subscribes PROVE NothingYet'
  BY <1>8 DEF Subscribes, NothingYet
<1>9. ASSUME SiteSubscribeFails PROVE NothingYet'
  BY <1>9 DEF SiteSubscribeFails, NothingYet
<1>10. ASSUME AddSiteHandleThread PROVE NothingYet'
  BY <1>10 DEF AddSiteHandleThread, NothingYet
<1>11. ASSUME EraseTopic PROVE NothingYet'
  BY <1>11 DEF EraseTopic, NothingYet
<1>12. ASSUME NEW c \in Links, ReceiveRow(c) PROVE NothingYet'
  <2>1. parse[c] = "read" /\ app' = app
    BY <1>12 DEF ReceiveRow, ParseKeeps, siteAppVars
  <2>2. app \notin {"new", "connect"}
    BY <2>1, NobodyYet, NoLinkYet
  <2> QED
    BY <2>1, <2>2 DEF NothingYet
<1>13. ASSUME BeginRound PROVE NothingYet'
  <2>1. app' = app /\ recon = "sleep" /\ toVisit' \subseteq marked /\ toVisit' # {}
    BY <1>13 DEF BeginRound, ReconKeeps, siteAppVars
  <2>2. app \notin {"new", "connect"}
    BY <2>1, NobodyYet
  <2> QED
    BY <2>1, <2>2 DEF NothingYet
<1>14. ASSUME NextSite PROVE NothingYet'
  <2>1. app' = app
    BY <1>14 DEF NextSite, ReconKeeps, siteAppVars
  <2>2. app \notin {"new", "connect"}
    BY <1>14, NobodyYet DEF NextSite
  <2> QED
    BY <2>1, <2>2 DEF NothingYet
<1>15. ASSUME SiteAnswers PROVE NothingYet'
  <2>1. app' = app
    BY <1>15 DEF SiteAnswers, ReconKeeps, siteAppVars
  <2>2. app \notin {"new", "connect"}
    BY <1>15, NobodyYet DEF SiteAnswers
  <2> QED
    BY <2>1, <2>2 DEF NothingYet
<1>16. ASSUME SiteFails PROVE NothingYet'
  <2>1. app' = app
    BY <1>16 DEF SiteFails, ReconKeeps, siteAppVars
  <2>2. app \notin {"new", "connect"}
    BY <1>16, NobodyYet DEF SiteFails
  <2> QED
    BY <2>1, <2>2 DEF NothingYet
<1>17. ASSUME LeaderAnswers PROVE NothingYet'
  <2>1. app' = app
    BY <1>17 DEF LeaderAnswers, ReconKeeps, siteAppVars
  <2>2. app \notin {"new", "connect"}
    BY <1>17, NobodyYet DEF LeaderAnswers
  <2> QED
    BY <2>1, <2>2 DEF NothingYet
<1>18. ASSUME LeaderNotFound PROVE NothingYet'
  <2>1. app' = app
    BY <1>18 DEF LeaderNotFound, ReconKeeps, siteAppVars
  <2>2. app \notin {"new", "connect"}
    BY <1>18, NobodyYet DEF LeaderNotFound
  <2> QED
    BY <2>1, <2>2 DEF NothingYet
<1>19. ASSUME EndRound PROVE NothingYet'
  <2>1. app' = app
    BY <1>19 DEF EndRound, ReconKeeps, siteAppVars
  <2>2. app \notin {"new", "connect"}
    BY <1>19, NobodyYet DEF EndRound
  <2> QED
    BY <2>1, <2>2 DEF NothingYet
<1>20. ASSUME VisitInitSite PROVE NothingYet'
  <2>1. app' = app
    BY <1>20 DEF VisitInitSite, ReconKeeps, siteAppVars
  <2>2. app \notin {"new", "connect"}
    BY <1>20, NobodyYet DEF VisitInitSite
  <2> QED
    BY <2>1, <2>2 DEF NothingYet
<1>21. ASSUME InitTimesOut PROVE NothingYet'
  <2>1. app' = app
    BY <1>21 DEF InitTimesOut, ReconKeeps, siteAppVars
  <2>2. app \notin {"new", "connect"}
    BY <1>21, NobodyYet DEF InitTimesOut
  <2> QED
    BY <2>1, <2>2 DEF NothingYet
<1>22. ASSUME InitResubConnects PROVE NothingYet'
  <2>1. app' = app
    BY <1>22 DEF InitResubConnects, ReconKeeps, siteAppVars
  <2>2. app \notin {"new", "connect"}
    BY <1>22, NobodyYet DEF InitResubConnects
  <2> QED
    BY <2>1, <2>2 DEF NothingYet
<1>23. ASSUME InitResubFails PROVE NothingYet'
  <2>1. app' = app
    BY <1>23 DEF InitResubFails, ReconKeeps, siteAppVars
  <2>2. app \notin {"new", "connect"}
    BY <1>23, NobodyYet DEF InitResubFails
  <2> QED
    BY <2>1, <2>2 DEF NothingYet
<1>24. ASSUME NEW t \in Topics, Visit(t) PROVE NothingYet'
  <2>1. app' = app
    BY <1>24 DEF Visit, ReconKeeps, siteAppVars
  <2>2. app \notin {"new", "connect"}
    BY <1>24, NobodyYet DEF Visit
  <2> QED
    BY <2>1, <2>2 DEF NothingYet
<1>25. ASSUME NEW c \in Links, StampSite(c) PROVE NothingYet'
  <2>1. UNCHANGED <<app, linksMade, topic, initSites, live, siteCnt, recon>> /\ Entries' = Entries
    BY <1>25, StampDoes DEF StampSite, ParseKeeps, siteAppVars, siteReconVars
  <2> QED
    BY <2>1, InvParts DEF NothingYet
<1>26. CASE UNCHANGED siteVars
  BY <1>1, <1>26 DEF siteVars, siteMaps, siteAppVars, siteReconVars, linkVars, nodeVars,
         siteHist, rowHist
<1> QED
  BY <1>1, <1>2, <1>3, <1>4, <1>5, <1>6, <1>7, <1>8, <1>9, <1>10, <1>11, <1>12, <1>13,
     <1>14, <1>15, <1>16, <1>17, <1>18, <1>19, <1>20, <1>21, <1>22, <1>23, <1>24, <1>25, <1>26 DEF SitesNext, AppStep, SiteReconnectStep,
     SiteParseStep, NodeStep

(* Before the first connection there is no mark and no row. *)
LEMMA NoSiteYetNext ==
  ASSUME SitesInv, [SitesNext]_siteVars
  PROVE  NoSiteYet'
<1>1. ASSUME UNCHANGED <<linksMade, marked, recon, entry, topic, awaited, inOrder, left>> PROVE NoSiteYet'
  BY <1>1, InvParts DEF NoSiteYet, Entries
<1>2. ASSUME CheckServerVersion \/ UnsubscribeSite \/ SubscribeIsRedirected \/
             LeaderRedirects \/ InitTimesOut
      PROVE  UNCHANGED <<linksMade, marked, recon, entry, topic, awaited, inOrder, left>>
  BY <1>2 DEF CheckServerVersion, AppKeeps, UnsubscribeSite, SubscribeIsRedirected,
         LeaderRedirects, ReconKeeps, InitTimesOut, siteMaps, siteAppVars, siteReconVars,
         linkVars, nodeVars, siteHist, rowHist
<1>3. ASSUME NEW t \in Topics, PassOver(t)
      PROVE  UNCHANGED <<linksMade, marked, recon, entry, topic, awaited, inOrder, left>>
  BY <1>3 DEF PassOver, ReconKeeps, siteMaps, siteAppVars, siteReconVars, linkVars,
         nodeVars, siteHist, rowHist
<1>4. ASSUME NEW n \in Nodes, LeaderFails(n) \/ NodeFails(n) \/ NodeReturns(n) \/ Elect(n)
      PROVE  UNCHANGED <<linksMade, marked, recon, entry, topic, awaited, inOrder, left>>
  BY <1>4 DEF LeaderFails, ReconKeeps, NodeFails, NodesKeep, NodeReturns, Elect, siteMaps,
         siteAppVars, siteReconVars, linkVars, nodeVars, siteHist, rowHist
<1>5. ASSUME NEW c \in Links, Lose(c) \/ LinkFails(c)
      PROVE  UNCHANGED <<linksMade, marked, recon, entry, topic, awaited, inOrder, left>>
  BY <1>5 DEF Lose, Ended, ParseKeeps, LinkFails, NodesKeep, siteMaps, siteAppVars,
         siteReconVars, linkVars, nodeVars, siteHist, rowHist
<1>6. ASSUME Subscribes PROVE NoSiteYet'
  <2>1. PICK i : LinkMade(i)
    BY <1>6, SubscribesDoes
  <2> QED
    BY <2>1, LinkMadeFirst DEF NoSiteYet
<1>7. ASSUME SiteAnswers PROVE NoSiteYet'
  <2>1. PICK i : LinkMade(i)
    BY <1>7, SiteAnswersDoes
  <2> QED
    BY <2>1, LinkMadeFirst DEF NoSiteYet
<1>8. ASSUME LeaderAnswers PROVE NoSiteYet'
  <2>1. PICK i : LinkMade(i)
    BY <1>8, LeaderAnswersDoes
  <2> QED
    BY <2>1, LinkMadeFirst DEF NoSiteYet
<1>9. ASSUME InitResubConnects PROVE NoSiteYet'
  <2>1. PICK i : LinkMade(i)
    BY <1>9, InitConnectsDoes
  <2> QED
    BY <2>1, LinkMadeFirst DEF NoSiteYet
<1>10. ASSUME SiteSubscribeFails PROVE NoSiteYet'
  <2>1. UNCHANGED <<linksMade, marked, recon, awaited, inOrder, left>>
    BY <1>10 DEF SiteSubscribeFails, AppKeeps, linkVars, siteReconVars, siteHist, rowHist
  <2> QED
    BY <1>10, <2>1, SubscribeFailsDoes, InvParts DEF NoSiteYet
<1>11. ASSUME AddSiteHandleThread PROVE NoSiteYet'
  <2>1. UNCHANGED <<linksMade, marked, recon, topic, awaited, inOrder, left>>
    BY <1>11 DEF AddSiteHandleThread, AppKeeps, linkVars, siteReconVars, siteHist, rowHist
  <2> QED
    BY <1>11, <2>1, AddThreadDoes, InvParts DEF NoSiteYet
<1>12. ASSUME EraseTopic PROVE NoSiteYet'
  <2>1. UNCHANGED <<linksMade, marked, recon, awaited, inOrder, left>>
    BY <1>12 DEF EraseTopic, AppKeeps, siteReconVars, rowHist
  <2>2. topic' \in {topic, NoTopic} /\ Entries' \subseteq Entries
    BY <1>12, EraseDoes DEF siteMaps
  <2> QED
    BY <2>1, <2>2, InvParts DEF NoSiteYet
<1>13. ASSUME BeginRound PROVE NoSiteYet'
  <2>1. linksMade' = linksMade /\ toVisit' \subseteq marked /\ toVisit' # {}
    BY <1>13 DEF BeginRound, linkVars
  <2>2. linksMade # 0
    BY <2>1, InvParts DEF NoSiteYet
  <2> QED
    BY <2>1, <2>2 DEF NoSiteYet
<1>14. ASSUME NEW t \in Topics, GiveUp(t) PROVE NoSiteYet'
  <2>1. linksMade' = linksMade
    BY <1>14 DEF GiveUp, linkVars
  <2>2. linksMade # 0
    BY <1>14, InvParts DEF GiveUp, NoSiteYet
  <2> QED
    BY <2>1, <2>2 DEF NoSiteYet
<1>15. ASSUME NEW t \in Topics, Visit(t) PROVE NoSiteYet'
  <2>1. linksMade' = linksMade
    BY <1>15 DEF Visit, linkVars
  <2>2. linksMade # 0
    BY <1>15, InvParts DEF Visit, NoSiteYet
  <2> QED
    BY <2>1, <2>2 DEF NoSiteYet
<1>16. ASSUME NextSite PROVE NoSiteYet'
  <2>1. linksMade' = linksMade
    BY <1>16 DEF NextSite, linkVars
  <2>2. linksMade # 0
    BY <1>16, InvParts DEF NextSite, NoSiteYet
  <2> QED
    BY <2>1, <2>2 DEF NoSiteYet
<1>17. ASSUME SiteFails PROVE NoSiteYet'
  <2>1. linksMade' = linksMade
    BY <1>17 DEF SiteFails, linkVars
  <2>2. linksMade # 0
    BY <1>17, InvParts DEF SiteFails, NoSiteYet
  <2> QED
    BY <2>1, <2>2 DEF NoSiteYet
<1>18. ASSUME LeaderNotFound PROVE NoSiteYet'
  <2>1. linksMade' = linksMade
    BY <1>18 DEF LeaderNotFound, linkVars
  <2>2. linksMade # 0
    BY <1>18, InvParts DEF LeaderNotFound, NoSiteYet
  <2> QED
    BY <2>1, <2>2 DEF NoSiteYet
<1>19. ASSUME EndRound PROVE NoSiteYet'
  <2>1. linksMade' = linksMade
    BY <1>19 DEF EndRound, linkVars
  <2>2. linksMade # 0
    BY <1>19, InvParts DEF EndRound, NoSiteYet
  <2> QED
    BY <2>1, <2>2 DEF NoSiteYet
<1>20. ASSUME VisitInitSite PROVE NoSiteYet'
  <2>1. recon' = "init" /\ UNCHANGED <<linksMade, marked, entry, topic, awaited, inOrder, left>>
    BY <1>20 DEF VisitInitSite, linkVars, siteMaps, siteHist, rowHist
  <2> QED
    BY <2>1, InvParts DEF NoSiteYet, Entries
<1>21. ASSUME InitResubFails PROVE NoSiteYet'
  <2>1. recon' = "sleep" /\ UNCHANGED <<linksMade, marked, entry, topic, awaited, inOrder, left>>
    BY <1>21 DEF InitResubFails, linkVars, siteMaps, siteHist, rowHist
  <2> QED
    BY <2>1, InvParts DEF NoSiteYet, Entries
<1>22. ASSUME NEW c \in Links, ReceiveSchema(c) PROVE NoSiteYet'
  <2>1. parse[c] \in {"read", "stamp", "mark"} /\ linksMade' = linksMade
    BY <1>22 DEF ReceiveSchema, ParseKeeps
  <2>2. linksMade # 0
    BY <2>1, NoLinkYet
  <2> QED
    BY <2>1, <2>2 DEF NoSiteYet
<1>23. ASSUME NEW c \in Links, ReceiveRow(c) PROVE NoSiteYet'
  <2>1. parse[c] \in {"read", "stamp", "mark"} /\ linksMade' = linksMade
    BY <1>23 DEF ReceiveRow, ParseKeeps
  <2>2. linksMade # 0
    BY <2>1, NoLinkYet
  <2> QED
    BY <2>1, <2>2 DEF NoSiteYet
<1>24. ASSUME NEW c \in Links, MarkSite(c) PROVE NoSiteYet'
  <2>1. parse[c] \in {"read", "stamp", "mark"} /\ linksMade' = linksMade
    BY <1>24 DEF MarkSite, ParseKeeps
  <2>2. linksMade # 0
    BY <2>1, NoLinkYet
  <2> QED
    BY <2>1, <2>2 DEF NoSiteYet
<1>25. ASSUME NEW c \in Links, StampSite(c) PROVE NoSiteYet'
  <2>1. parse[c] \in {"read", "stamp", "mark"} /\ linksMade' = linksMade
    BY <1>25 DEF StampSite, ParseKeeps
  <2>2. linksMade # 0
    BY <2>1, NoLinkYet
  <2> QED
    BY <2>1, <2>2 DEF NoSiteYet
<1>26. CASE UNCHANGED siteVars
  BY <1>1, <1>26 DEF siteVars, siteMaps, siteAppVars, siteReconVars, linkVars, nodeVars,
         siteHist, rowHist
<1> QED
  BY <1>1, <1>2, <1>3, <1>4, <1>5, <1>6, <1>7, <1>8, <1>9, <1>10, <1>11, <1>12, <1>13,
     <1>14, <1>15, <1>16, <1>17, <1>18, <1>19, <1>20, <1>21, <1>22, <1>23, <1>24, <1>25, <1>26 DEF SitesNext, AppStep, SiteReconnectStep,
     SiteParseStep, NodeStep

(* A first attempt is repeated only until there is a connection. *)
LEMMA FirstAttemptsNext ==
  ASSUME SitesInv, [SitesNext]_siteVars
  PROVE  FirstAttempts'
<1>1. ASSUME UNCHANGED <<linksMade, recon, initSites>> PROVE FirstAttempts'
  BY <1>1, InvParts DEF FirstAttempts
<1>2. ASSUME CheckServerVersion \/ UnsubscribeSite \/ SubscribeIsRedirected \/
             AddSiteHandleThread \/ EraseTopic \/ LeaderRedirects
      PROVE  UNCHANGED <<linksMade, recon, initSites>>
  BY <1>2 DEF CheckServerVersion, AppKeeps, UnsubscribeSite, SubscribeIsRedirected,
         AddSiteHandleThread, EraseTopic, LeaderRedirects, ReconKeeps, siteMaps,
         siteAppVars, siteReconVars, linkVars, nodeVars, siteHist, rowHist
<1>3. ASSUME NEW t \in Topics, PassOver(t) \/ GiveUp(t)
      PROVE  UNCHANGED <<linksMade, recon, initSites>>
  BY <1>3 DEF PassOver, ReconKeeps, GiveUp, siteMaps, siteAppVars, siteReconVars, linkVars,
         nodeVars, siteHist, rowHist
<1>4. ASSUME NEW n \in Nodes, LeaderFails(n) \/ NodeFails(n) \/ NodeReturns(n) \/ Elect(n)
      PROVE  UNCHANGED <<linksMade, recon, initSites>>
  BY <1>4 DEF LeaderFails, ReconKeeps, NodeFails, NodesKeep, NodeReturns, Elect, siteMaps,
         siteAppVars, siteReconVars, linkVars, nodeVars, siteHist, rowHist
<1>5. ASSUME NEW c \in Links, ReceiveSchema(c) \/ ReceiveRow(c) \/ Lose(c) \/ StampSite(c) \/
             MarkSite(c) \/                  LinkFails(c)
      PROVE  UNCHANGED <<linksMade, recon, initSites>>
  BY <1>5 DEF ReceiveSchema, ParseKeeps, ReceiveRow, Lose, StampSite, Ended, MarkSite, LinkFails,
         NodesKeep, siteMaps, siteAppVars, siteReconVars, linkVars, nodeVars, siteHist,
         rowHist
<1>6. ASSUME Subscribes PROVE FirstAttempts'
  <2>1. initSites' = initSites /\ recon' = recon /\ app \in {"new", "connect"}
    BY <1>6 DEF Subscribes, AppKeeps, siteReconVars
  <2> QED
    BY <2>1, NobodyYet DEF FirstAttempts
<1>7. ASSUME SiteSubscribeFails PROVE FirstAttempts'
  <2>1. linksMade' = linksMade /\ recon' = recon
    BY <1>7 DEF SiteSubscribeFails, AppKeeps, linkVars, siteReconVars
  <2> QED
    BY <1>7, <2>1, SubscribeFailsDoes DEF FirstAttempts
<1>8. ASSUME SiteAnswers PROVE FirstAttempts'
  <2>1. recon' = "round" /\ initSites' = initSites /\ recon = "try"
    BY <1>8 DEF SiteAnswers
  <2> QED
    BY <2>1, InvParts DEF FirstAttempts, NoSiteYet
<1>9. ASSUME LeaderAnswers PROVE FirstAttempts'
  <2>1. recon' = "round" /\ initSites' = initSites /\ recon = "leader"
    BY <1>9 DEF LeaderAnswers
  <2> QED
    BY <2>1, InvParts DEF FirstAttempts, NoSiteYet
<1>10. ASSUME InitResubConnects PROVE FirstAttempts'
  <2>1. recon' = "sleep" /\ initSites' = initSites
    BY <1>10 DEF InitResubConnects
  <2> QED
    BY <1>10, <2>1, InitConnectsDoes DEF FirstAttempts
<1>11. ASSUME InitResubFails PROVE FirstAttempts'
  <2>1. linksMade' = linksMade
    BY <1>11 DEF InitResubFails, linkVars
  <2>2. PICK i \in SiteInfos :
                               /\ initSites' = Append(initSites, i) /\ initSites = <<>>
                               /\ linksMade = 0 /\ recon' = "sleep"
    BY <1>11, InitFailsDoes
  <2>3. Len(initSites') = 1
    BY <2>2
  <2> QED
    BY <2>1, <2>2, <2>3 DEF FirstAttempts
<1>12. ASSUME VisitInitSite PROVE FirstAttempts'
  <2>1. linksMade' = linksMade
    BY <1>12 DEF VisitInitSite, linkVars
  <2> QED
    BY <1>12, <2>1, VisitInitDoes DEF FirstAttempts
<1>13. ASSUME InitTimesOut PROVE FirstAttempts'
  <2>1. /\ linksMade' = linksMade /\ initSites' = Tail(initSites) /\ recon' = recon
        /\ recon = "sleep" /\ initSites # <<>>
    BY <1>13 DEF InitTimesOut, linkVars, siteReconVars
  <2>2. Len(initSites) = 1 /\ initSites \in Seq(SiteInfos)
    BY <2>1, InvParts DEF FirstAttempts, InitTypes
  <2>3. Tail(initSites) \in Seq(SiteInfos) /\ Len(Tail(initSites)) = 0
    BY <2>1, <2>2, HeadTailProperties
  <2>4. initSites' = <<>>
    BY <2>1, <2>3, EmptySeq
  <2> QED
    BY <2>1, <2>4 DEF FirstAttempts
<1>14. ASSUME BeginRound PROVE FirstAttempts'
  <2>1. initSites' = initSites /\ linksMade' = linksMade /\ recon' # "init"
    BY <1>14 DEF BeginRound, linkVars
  <2> QED
    BY <2>1, InvParts DEF FirstAttempts
<1>15. ASSUME NEW t \in Topics, Visit(t) PROVE FirstAttempts'
  <2>1. initSites' = initSites /\ linksMade' = linksMade /\ recon' # "init"
    BY <1>15 DEF Visit, linkVars
  <2> QED
    BY <2>1, InvParts DEF FirstAttempts
<1>16. ASSUME NextSite PROVE FirstAttempts'
  <2>1. initSites' = initSites /\ linksMade' = linksMade /\ recon' # "init"
    BY <1>16 DEF NextSite, linkVars
  <2> QED
    BY <2>1, InvParts DEF FirstAttempts
<1>17. ASSUME SiteFails PROVE FirstAttempts'
  <2>1. initSites' = initSites /\ linksMade' = linksMade /\ recon' # "init"
    BY <1>17 DEF SiteFails, linkVars
  <2> QED
    BY <2>1, InvParts DEF FirstAttempts
<1>18. ASSUME LeaderNotFound PROVE FirstAttempts'
  <2>1. initSites' = initSites /\ linksMade' = linksMade /\ recon' # "init"
    BY <1>18 DEF LeaderNotFound, linkVars
  <2> QED
    BY <2>1, InvParts DEF FirstAttempts
<1>19. ASSUME EndRound PROVE FirstAttempts'
  <2>1. initSites' = initSites /\ linksMade' = linksMade /\ recon' # "init"
    BY <1>19 DEF EndRound, linkVars
  <2> QED
    BY <2>1, InvParts DEF FirstAttempts
<1>20. CASE UNCHANGED siteVars
  BY <1>1, <1>20 DEF siteVars, siteMaps, siteAppVars, siteReconVars, linkVars, nodeVars,
         siteHist, rowHist
<1> QED
  BY <1>1, <1>2, <1>3, <1>4, <1>5, <1>6, <1>7, <1>8, <1>9, <1>10, <1>11, <1>12, <1>13,
     <1>14, <1>15, <1>16, <1>17, <1>18, <1>19, <1>20 DEF SitesNext, AppStep, SiteReconnectStep,
     SiteParseStep, NodeStep

(* Losing connections keeps one connection per node, ...                    *)
LEMMA FallOneNode ==
  ASSUME OneNode, LinksFall, NodeEntries' \subseteq NodeEntries,
         recon' \in Copies => NodeEntries' \subseteq {visited'}
  PROVE  OneNode'
<1>1. \A t, u \in NodeEntries' : t = u
  BY DEF OneNode
<1>2. \A c, d \in Links :
        conn'[c].open /\ conn'[d].open /\ conn'[c].node = conn'[d].node => c = d
  BY DEF OneNode, LinksFall
<1> QED
  BY <1>1, <1>2 DEF OneNode

(* ... and so does a new one to a node that has none.                       *)
LEMMA MadeOneNode ==
  ASSUME OneNode, NEW i \in SiteInfos, LinkMade(i), ~HasConnection(i.host),
         NEW n, NodeEntries' \subseteq {n}, recon' \notin Copies
  PROVE  OneNode'
<1>1. ASSUME NEW c \in Links, NEW d \in Links,
             conn'[c].open, conn'[d].open, conn'[c].node = conn'[d].node
      PROVE  c = d
  <2>1. CASE c # linksMade' /\ d # linksMade'
    BY <1>1, <2>1 DEF LinkMade, OneNode
  <2>2. CASE c = linksMade' /\ d # linksMade'
    BY <1>1, <2>2 DEF LinkMade, HasConnection
  <2>3. CASE c # linksMade' /\ d = linksMade'
    BY <1>1, <2>3 DEF LinkMade, HasConnection
  <2> QED
    BY <2>1, <2>2, <2>3
<1>2. \A t, u \in NodeEntries' : t = u
  OBVIOUS
<1> QED
  BY <1>1, <1>2 DEF OneNode

LEMMA NoneConnected ==
  ASSUME SitesInv, linksMade = 0, NEW n
  PROVE  ~HasConnection(n)
BY NoLinkYet DEF HasConnection

(* A subscription is on one node, which has one connection. *)
LEMMA OneNodeNext ==
  ASSUME SitesInv, [SitesNext]_siteVars
  PROVE  OneNode'
<1>1. ASSUME UNCHANGED <<entry, recon, visited, conn>> PROVE OneNode'
  BY <1>1, InvParts DEF OneNode, NodeEntries, Entries
<1>2. ASSUME CheckServerVersion \/ UnsubscribeSite \/ SubscribeIsRedirected \/
             LeaderRedirects \/ InitTimesOut
      PROVE  UNCHANGED <<entry, recon, visited, conn>>
  BY <1>2 DEF CheckServerVersion, AppKeeps, UnsubscribeSite, SubscribeIsRedirected,
         LeaderRedirects, ReconKeeps, InitTimesOut, siteMaps, siteAppVars, siteReconVars,
         linkVars, nodeVars, siteHist, rowHist
<1>3. ASSUME NEW t \in Topics, PassOver(t) \/ GiveUp(t)
      PROVE  UNCHANGED <<entry, recon, visited, conn>>
  BY <1>3 DEF PassOver, ReconKeeps, GiveUp, siteMaps, siteAppVars, siteReconVars, linkVars,
         nodeVars, siteHist, rowHist
<1>4. ASSUME NEW n \in Nodes, LeaderFails(n) \/ NodeReturns(n) \/ Elect(n)
      PROVE  UNCHANGED <<entry, recon, visited, conn>>
  BY <1>4 DEF LeaderFails, ReconKeeps, NodeReturns, NodesKeep, Elect, siteMaps, siteAppVars,
         siteReconVars, linkVars, nodeVars, siteHist, rowHist
<1>5. ASSUME Subscribes PROVE OneNode'
  <2>1. /\ LinkMade(NewInfo(appHost)) /\ linksMade = 0 /\ Entries' = {appHost}
        /\ appHost \in Nodes
    BY <1>5, SubscribesDoes
  <2>2. NewInfo(appHost) \in SiteInfos
    BY <2>1, InvParts, ControlParts, NewInfoFields DEF AppControl
  <2>3. recon' = "sleep"
    BY <1>5, NobodyYet DEF Subscribes, AppKeeps, siteReconVars
  <2>4. NodeEntries' \subseteq {appHost}
    BY <2>1 DEF NodeEntries
  <2> QED
    BY <2>1, <2>2, <2>3, <2>4, InvParts, NoneConnected, MadeOneNode DEF Copies
<1>6. ASSUME SiteSubscribeFails PROVE OneNode'
  <2>1. NodeEntries' = {} /\ UNCHANGED conn
    BY <1>6, SubscribeFailsDoes DEF SiteSubscribeFails, linkVars
  <2> QED
    BY <2>1, InvParts DEF OneNode
<1>7. ASSUME AddSiteHandleThread PROVE OneNode'
  <2>1. UNCHANGED <<recon, visited, conn>>
    BY <1>7 DEF AddSiteHandleThread, AppKeeps, linkVars, siteReconVars
  <2>2. NodeEntries' = NodeEntries
    BY <1>7, AddThreadDoes, InvParts DEF NodeEntries
  <2> QED
    BY <2>1, <2>2, InvParts DEF OneNode
<1>8. ASSUME EraseTopic PROVE OneNode'
  <2>1. UNCHANGED <<recon, visited>>
    BY <1>8 DEF EraseTopic, AppKeeps, siteReconVars
  <2>2. NodeEntries' \subseteq NodeEntries /\ LinksFall
    BY <1>8, EraseDoes DEF NodeEntries
  <2> QED
    BY <2>1, <2>2, InvParts, FallOneNode DEF OneNode
<1>9. ASSUME BeginRound PROVE OneNode'
  <2>1. UNCHANGED <<entry, conn>> /\ recon' \notin Copies
    BY <1>9 DEF BeginRound, Idle, siteMaps, linkVars, Copies
  <2> QED
    BY <2>1, InvParts DEF OneNode, NodeEntries, Entries
<1>10. ASSUME NEW t \in Topics, Visit(t) PROVE OneNode'
  <2>1. UNCHANGED <<entry, conn>>
    BY <1>10 DEF Visit, siteMaps, linkVars
  <2>2. NodeEntries' = {t} /\ visited' = t
    BY <1>10, <2>1, VisitDoes DEF NodeEntries, Entries
  <2> QED
    BY <2>1, <2>2, InvParts DEF OneNode
<1>11. ASSUME NextSite PROVE OneNode'
  <2>1. UNCHANGED <<visited, conn>>
    BY <1>11 DEF NextSite, linkVars
  <2>2. NodeEntries' = {visited}
    BY <1>11, NextSiteDoes
  <2> QED
    BY <2>1, <2>2, InvParts DEF OneNode
<1>12. ASSUME SiteAnswers PROVE OneNode'
  <2>1. PICK n \in Nodes :
                             /\ n = info.host /\ LinkMade(info) /\ ~HasConnection(n)
                             /\ NodeEntries' = {n}
    BY <1>12, SiteAnswersDoes
  <2>2. recon' \notin Copies /\ info \in SiteInfos
    BY <1>12, InvParts, CopyFields DEF SiteAnswers, Copies
  <2> QED
    BY <2>1, <2>2, InvParts, MadeOneNode
<1>13. ASSUME SiteFails PROVE OneNode'
  <2>1. UNCHANGED <<entry, conn>> /\ recon \in Copies /\ (recon' \in Copies => visited' = visited)
    BY <1>13 DEF SiteFails, siteMaps, linkVars, Copies
  <2> QED
    BY <2>1, InvParts DEF OneNode, NodeEntries, Entries
<1>14. ASSUME LeaderAnswers PROVE OneNode'
  <2>1. PICK n \in Nodes :
                             /\ n = info.host /\ LinkMade(info) /\ ~HasConnection(n)
                             /\ n = visited => UNCHANGED siteMaps
                             /\ n # visited => NodeEntries' = {n}
                             /\ NodeEntries \subseteq {visited}
    BY <1>14, LeaderAnswersDoes
  <2>2. recon' \notin Copies /\ info \in SiteInfos
    BY <1>14, InvParts, CopyFields DEF LeaderAnswers, Copies
  <2>3. NodeEntries' \subseteq {n}
    BY <2>1 DEF NodeEntries, Entries, siteMaps
  <2> QED
    BY <2>1, <2>2, <2>3, InvParts, MadeOneNode
<1>15. ASSUME LeaderNotFound PROVE OneNode'
  <2>1. UNCHANGED <<entry, conn>> /\ recon' \notin Copies
    BY <1>15 DEF LeaderNotFound, Idle, siteMaps, linkVars, Copies
  <2> QED
    BY <2>1, InvParts DEF OneNode, NodeEntries, Entries
<1>16. ASSUME EndRound PROVE OneNode'
  <2>1. UNCHANGED <<entry, conn>> /\ recon' \notin Copies
    BY <1>16 DEF EndRound, Idle, siteMaps, linkVars, Copies
  <2> QED
    BY <2>1, InvParts DEF OneNode, NodeEntries, Entries
<1>17. ASSUME VisitInitSite PROVE OneNode'
  <2>1. UNCHANGED <<entry, conn>> /\ recon' \notin Copies
    BY <1>17 DEF VisitInitSite, Idle, siteMaps, linkVars, Copies
  <2> QED
    BY <2>1, InvParts DEF OneNode, NodeEntries, Entries
<1>18. ASSUME InitResubConnects PROVE OneNode'
  <2>1. PICK n \in Nodes :
                             /\ n = info.host /\ LinkMade(info) /\ linksMade = 0
                             /\ NodeEntries' = {n}
    BY <1>18, InitConnectsDoes
  <2>2. recon' \notin Copies /\ info \in SiteInfos
    BY <1>18, InvParts, CopyFields DEF InitResubConnects, Copies
  <2> QED
    BY <2>1, <2>2, InvParts, NoneConnected, MadeOneNode
<1>19. ASSUME InitResubFails PROVE OneNode'
  <2>1. UNCHANGED <<entry, conn>> /\ recon' \notin Copies
    BY <1>19 DEF InitResubFails, Idle, siteMaps, linkVars, Copies
  <2> QED
    BY <2>1, InvParts DEF OneNode, NodeEntries, Entries
<1>20. ASSUME NEW c \in Links, ReceiveSchema(c) PROVE OneNode'
  <2>1. LinksFall
    BY <1>20, InvParts, SchemaDoes
  <2>2. UNCHANGED <<entry, recon, visited>>
    BY <1>20 DEF ReceiveSchema, ParseKeeps, NodesKeep, siteMaps, siteReconVars
  <2> QED
    BY <2>1, <2>2, InvParts, FallOneNode DEF OneNode, NodeEntries, Entries
<1>21. ASSUME NEW c \in Links, ReceiveRow(c) PROVE OneNode'
  <2>1. UNCHANGED <<recon, visited>>
    BY <1>21 DEF ReceiveRow, ParseKeeps, siteReconVars
  <2>2. NodeEntries' = NodeEntries
    BY <1>21, ReceiveRowDoes DEF NodeEntries
  <2>3. \A d \in Links : conn'[d].node = conn[d].node /\ (conn'[d].open => conn[d].open)
    BY <1>21, ReceiveRowDoes
  <2> QED
    BY <2>1, <2>2, <2>3, InvParts DEF OneNode
<1>22. ASSUME NEW c \in Links, Lose(c) PROVE OneNode'
  <2>1. LinksFall
    BY <1>22, InvParts, LoseDoes
  <2>2. UNCHANGED <<entry, recon, visited>>
    BY <1>22 DEF Lose, ParseKeeps, NodesKeep, siteMaps, siteReconVars
  <2> QED
    BY <2>1, <2>2, InvParts, FallOneNode DEF OneNode, NodeEntries, Entries
<1>23. ASSUME NEW c \in Links, MarkSite(c) PROVE OneNode'
  <2>1. LinksFall
    BY <1>23, InvParts, MarkDoes
  <2>2. UNCHANGED <<entry, recon, visited>>
    BY <1>23 DEF MarkSite, ParseKeeps, NodesKeep, siteMaps, siteReconVars
  <2> QED
    BY <2>1, <2>2, InvParts, FallOneNode DEF OneNode, NodeEntries, Entries
<1>24. ASSUME NEW n \in Nodes, NodeFails(n) PROVE OneNode'
  <2>1. LinksFall
    BY <1>24, InvParts, NodeFailsDoes
  <2>2. UNCHANGED <<entry, recon, visited>>
    BY <1>24 DEF NodeFails, ParseKeeps, NodesKeep, siteMaps, siteReconVars
  <2> QED
    BY <2>1, <2>2, InvParts, FallOneNode DEF OneNode, NodeEntries, Entries
<1>25. ASSUME NEW c \in Links, LinkFails(c) PROVE OneNode'
  <2>1. LinksFall
    BY <1>25, InvParts, LinkFailsDoes
  <2>2. UNCHANGED <<entry, recon, visited>>
    BY <1>25 DEF LinkFails, ParseKeeps, NodesKeep, siteMaps, siteReconVars
  <2> QED
    BY <2>1, <2>2, InvParts, FallOneNode DEF OneNode, NodeEntries, Entries
<1>26. ASSUME NEW c \in Links, StampSite(c) PROVE OneNode'
  <2>1. LinksFall /\ NodeEntries' = NodeEntries
    BY <1>26, StampDoes
  <2>2. UNCHANGED <<recon, visited>>
    BY <1>26 DEF StampSite, ParseKeeps, siteReconVars
  <2> QED
    BY <2>1, <2>2, InvParts, FallOneNode DEF OneNode
<1>27. CASE UNCHANGED siteVars
  BY <1>1, <1>27 DEF siteVars, siteMaps, siteAppVars, siteReconVars, linkVars, nodeVars,
         siteHist, rowHist
<1> QED
  BY <1>1, <1>2, <1>3, <1>4, <1>5, <1>6, <1>7, <1>8, <1>9, <1>10, <1>11, <1>12, <1>13,
     <1>14, <1>15, <1>16, <1>17, <1>18, <1>19, <1>20, <1>21, <1>22, <1>23, <1>24, <1>25,
     <1>26, <1>27 DEF SitesNext, AppStep, SiteReconnectStep,
     SiteParseStep, NodeStep

LEMMA FallRowsAwaited ==
  ASSUME RowsAwaited, LinksFall, UNCHANGED <<awaited, inOrder>>, ~overwritten' => ~overwritten,
         NodeEntries' \subseteq NodeEntries,
         \A t \in NodeEntries' : entry'[t].offset = entry[t].offset
  PROVE  RowsAwaited'
<1> SUFFICES ASSUME ~overwritten'
             PROVE  /\ inOrder'
                    /\ \A t \in NodeEntries' : entry'[t].offset = awaited'
                    /\ \A c \in Links :
                         conn'[c].open /\ conn'[c].node \in NodeEntries' => conn'[c].next = awaited'
  BY DEF RowsAwaited
<1>1. /\ inOrder /\ \A t \in NodeEntries : entry[t].offset = awaited
      /\ \A c \in Links : conn[c].open /\ conn[c].node \in NodeEntries => conn[c].next = awaited
  BY DEF RowsAwaited
<1>2. \A c \in Links : conn'[c].open => conn[c].open /\ conn'[c].node = conn[c].node /\ conn'[c].next = conn[c].next
  BY DEF LinksFall
<1> QED
  BY <1>1, <1>2

LEMMA MadeRowsAwaited ==
  ASSUME UNCHANGED <<awaited, inOrder>>, NEW i \in SiteInfos, LinkMade(i), ~HasConnection(i.host),
         NodeEntries' \subseteq {i.host},
         ~overwritten' => /\ inOrder /\ i.offset = awaited
                          /\ \A t \in NodeEntries' : entry'[t].offset = i.offset
  PROVE  RowsAwaited'
<1> SUFFICES ASSUME ~overwritten'
             PROVE  /\ inOrder'
                    /\ \A t \in NodeEntries' : entry'[t].offset = awaited'
                    /\ \A c \in Links :
                         conn'[c].open /\ conn'[c].node \in NodeEntries' => conn'[c].next = awaited'
  BY DEF RowsAwaited
<1>1. ASSUME NEW c \in Links, conn'[c].open, conn'[c].node \in NodeEntries'
      PROVE  conn'[c].next = awaited'
  <2>1. c = linksMade'
    <3>1. conn'[c].node = i.host
      BY <1>1
    <3> QED
      BY <1>1, <3>1 DEF LinkMade, HasConnection
  <2> QED
    BY <2>1 DEF LinkMade
<1> QED
  BY <1>1

(* The entry and the connection of a node await the same row. *)
LEMMA RowsAwaitedNext ==
  ASSUME SitesInv, [SitesNext]_siteVars
  PROVE  RowsAwaited'
<1>1. ASSUME UNCHANGED <<entry, overwritten, awaited, inOrder, conn>> PROVE RowsAwaited'
  BY <1>1, InvParts DEF RowsAwaited, NodeEntries, Entries
<1>2. ASSUME CheckServerVersion \/ UnsubscribeSite \/ SubscribeIsRedirected \/ BeginRound \/
             SiteFails \/ LeaderRedirects
      PROVE  UNCHANGED <<entry, overwritten, awaited, inOrder, conn>>
  BY <1>2 DEF CheckServerVersion, AppKeeps, UnsubscribeSite, SubscribeIsRedirected,
         BeginRound, ReconKeeps, SiteFails, Idle, LeaderRedirects, siteMaps, siteAppVars,
         siteReconVars, linkVars, nodeVars, siteHist, rowHist
<1>3. ASSUME LeaderNotFound \/ EndRound \/ VisitInitSite \/ InitTimesOut \/ InitResubFails
      PROVE  UNCHANGED <<entry, overwritten, awaited, inOrder, conn>>
  BY <1>3 DEF LeaderNotFound, Idle, ReconKeeps, EndRound, VisitInitSite, InitTimesOut,
         InitResubFails, siteMaps, siteAppVars, siteReconVars, linkVars, nodeVars, siteHist,
         rowHist
<1>4. ASSUME NEW t \in Topics, PassOver(t) \/ GiveUp(t) \/ Visit(t)
      PROVE  UNCHANGED <<entry, overwritten, awaited, inOrder, conn>>
  BY <1>4 DEF PassOver, ReconKeeps, GiveUp, Visit, siteMaps, siteAppVars, siteReconVars,
         linkVars, nodeVars, siteHist, rowHist
<1>5. ASSUME NEW n \in Nodes, LeaderFails(n) \/ NodeReturns(n) \/ Elect(n)
      PROVE  UNCHANGED <<entry, overwritten, awaited, inOrder, conn>>
  BY <1>5 DEF LeaderFails, ReconKeeps, NodeReturns, NodesKeep, Elect, siteMaps, siteAppVars,
         siteReconVars, linkVars, nodeVars, siteHist, rowHist
<1>6. ASSUME Subscribes PROVE RowsAwaited'
  <2>1. PICK i \in SiteInfos :
                                 /\ LinkMade(NewInfo(appHost)) /\ linksMade = 0
                                 /\ appHost \in Nodes /\ Entries' = {appHost}
                                 /\ entry'[appHost] = i /\ i.offset = 0
    BY <1>6, SubscribesDoes
  <2>2. /\ NewInfo(appHost) \in SiteInfos /\ NewInfo(appHost).host = appHost
        /\ NewInfo(appHost).offset = 0
    BY <2>1, InvParts, ControlParts, NewInfoFields DEF AppControl
  <2>3. UNCHANGED <<awaited, inOrder>> /\ awaited = 0 /\ inOrder
    BY <1>6, <2>1, InvParts DEF Subscribes, siteHist, rowHist, NoSiteYet
  <2>4. NodeEntries' \subseteq {appHost}
    BY <2>1 DEF NodeEntries
  <2> QED
    BY <2>1, <2>2, <2>3, <2>4, NoneConnected, MadeRowsAwaited
<1>7. ASSUME SiteSubscribeFails PROVE RowsAwaited'
  <2>1. /\ NodeEntries' = {} /\ UNCHANGED <<conn, overwritten, inOrder, awaited>>
    BY <1>7, SubscribeFailsDoes DEF SiteSubscribeFails, linkVars, siteHist, rowHist
  <2> QED
    BY <2>1, InvParts DEF RowsAwaited
<1>8. ASSUME AddSiteHandleThread PROVE RowsAwaited'
  <2>1. UNCHANGED <<overwritten, inOrder, awaited, conn>>
    BY <1>8 DEF AddSiteHandleThread, linkVars, siteHist, rowHist
  <2>2. NodeEntries' = NodeEntries /\ \A t \in NodeEntries : entry'[t].offset = entry[t].offset
    BY <1>8, AddThreadDoes, InvParts DEF NodeEntries
  <2> QED
    BY <2>1, <2>2, InvParts DEF RowsAwaited
<1>9. ASSUME EraseTopic PROVE RowsAwaited'
  <2>1. UNCHANGED <<awaited, inOrder, overwritten>>
    BY <1>9 DEF EraseTopic, rowHist
  <2>2. /\ NodeEntries' \subseteq NodeEntries /\ LinksFall
        /\ \A t \in NodeEntries' : entry'[t].offset = entry[t].offset
    BY <1>9, EraseDoes DEF NodeEntries, Entries
  <2> QED
    BY <2>1, <2>2, InvParts, FallRowsAwaited
<1>10. ASSUME NextSite PROVE RowsAwaited'
  <2>1. UNCHANGED <<conn, awaited, inOrder>>
    BY <1>10 DEF NextSite, linkVars, rowHist
  <2>2. /\ NodeEntries' = {visited} /\ entry'[visited].offset = info.offset /\ visited \in Nodes
        /\ ~overwritten' => /\ ~overwritten /\ visited \in NodeEntries
                            /\ entry[visited].offset = info.offset
    <3>1. /\ NodeEntries' = {visited} /\ entry'[visited] = info' /\ info'.offset = info.offset
          /\ visited \in Nodes
          /\ ~overwritten' => /\ ~overwritten /\ visited \in Entries
                              /\ entry[visited].offset = info.offset
      BY <1>10, NextSiteDoes
    <3> QED
      BY <3>1, Numbers DEF NodeEntries
  <2> QED
    BY <2>1, <2>2, InvParts DEF RowsAwaited
<1>11. ASSUME SiteAnswers PROVE RowsAwaited'
  <2>1. PICK i \in SiteInfos, n \in Nodes :
               /\ n = info.host /\ LinkMade(info) /\ ~HasConnection(n) /\ NodeEntries' = {n}
               /\ entry'[n] = i /\ i.offset = info.offset
               /\ ~overwritten' => /\ ~overwritten /\ visited \in NodeEntries
                                   /\ entry[visited].offset = info.offset
    BY <1>11, SiteAnswersDoes
  <2>2. UNCHANGED <<awaited, inOrder>> /\ info \in SiteInfos
    BY <1>11, InvParts, CopyFields DEF SiteAnswers, rowHist
  <2>3. ~overwritten' => inOrder /\ info.offset = awaited
    BY <2>1, InvParts DEF RowsAwaited
  <2> QED
    BY <2>1, <2>2, <2>3, MadeRowsAwaited
<1>12. ASSUME LeaderAnswers PROVE RowsAwaited'
  <2>1. PICK i \in SiteInfos, n \in Nodes :
               /\ n = info.host /\ LinkMade(info) /\ ~HasConnection(n)
               /\ n = visited => UNCHANGED siteMaps
               /\ n # visited => NodeEntries' = {n} /\ entry'[n] = i
               /\ NodeEntries \subseteq {visited} /\ i.offset = info.offset
               /\ ~overwritten' => /\ ~overwritten /\ visited \in NodeEntries
                                   /\ entry[visited].offset = info.offset
    BY <1>12, LeaderAnswersDoes
  <2>2. UNCHANGED <<awaited, inOrder>> /\ info \in SiteInfos
    BY <1>12, InvParts, CopyFields DEF LeaderAnswers, rowHist
  <2>3. ~overwritten' => inOrder /\ info.offset = awaited
    BY <2>1, InvParts DEF RowsAwaited
  <2>4. NodeEntries' \subseteq {n}
    BY <2>1 DEF NodeEntries, Entries, siteMaps
  <2>5. ~overwritten' => \A t \in NodeEntries' : entry'[t].offset = info.offset
    BY <2>1, <2>4 DEF siteMaps
  <2> QED
    BY <2>1, <2>2, <2>3, <2>4, <2>5, MadeRowsAwaited
<1>13. ASSUME InitResubConnects PROVE RowsAwaited'
  <2>1. PICK i \in SiteInfos, n \in Nodes :
               /\ n = info.host /\ LinkMade(info) /\ linksMade = 0 /\ NodeEntries' = {n}
               /\ entry'[n] = i /\ i.offset = 0 /\ info.offset = 0
    BY <1>13, InitConnectsDoes
  <2>2. UNCHANGED <<awaited, inOrder>> /\ info \in SiteInfos
    BY <1>13, InvParts, CopyFields DEF InitResubConnects, rowHist
  <2>3. awaited = 0 /\ inOrder
    BY <2>1, InvParts DEF NoSiteYet
  <2> QED
    BY <2>1, <2>2, <2>3, NoneConnected, MadeRowsAwaited
<1>14. ASSUME NEW c \in Links, ReceiveSchema(c) PROVE RowsAwaited'
  <2>1. LinksFall
    BY <1>14, InvParts, SchemaDoes
  <2>2. UNCHANGED <<entry, awaited, inOrder, overwritten>>
    BY <1>14 DEF ReceiveSchema, ParseKeeps, NodesKeep, siteMaps, siteHist, rowHist
  <2> QED
    BY <2>1, <2>2, InvParts, FallRowsAwaited DEF NodeEntries, Entries
<1>15. ASSUME NEW c \in Links, ReceiveRow(c) PROVE RowsAwaited'
  <2> SUFFICES ASSUME ~overwritten'
               PROVE  /\ inOrder'
                      /\ \A u \in NodeEntries' : entry'[u].offset = awaited'
                      /\ \A d \in Links :
                           conn'[d].open /\ conn'[d].node \in NodeEntries' => conn'[d].next = awaited'
    BY DEF RowsAwaited
  <2>1. overwritten' = overwritten
    BY <1>15 DEF ReceiveRow, ParseKeeps
  <2>2. /\ inOrder /\ \A u \in NodeEntries : entry[u].offset = awaited
        /\ \A d \in Links : conn[d].open /\ conn[d].node \in NodeEntries => conn[d].next = awaited
    BY <2>1, InvParts DEF RowsAwaited
  <2>3. /\ NodeEntries' = NodeEntries /\ conn[c].open /\ conn'[c].node = conn[c].node
        /\ conn'[c].next = conn[c].next + 1 /\ \A d \in Links \ {c} : conn'[d] = conn[d]
    BY <1>15, ReceiveRowDoes DEF NodeEntries
  <2>4. CASE conn[c].node \notin NodeEntries
    <3>1. UNCHANGED <<entry, awaited, inOrder>>
      BY <1>15, <2>4, ReceiveRowDoes
    <3> QED
      BY <2>2, <2>3, <2>4, <3>1
  <2>5. CASE conn[c].node \in NodeEntries
    <3>1. /\ inOrder' = (inOrder /\ conn[c].next = awaited) /\ awaited' = conn[c].next + 1
          /\ entry'[conn[c].node].offset = conn[c].next + 1
      BY <1>15, <2>5, ReceiveRowDoes
    <3>2. conn[c].next = awaited
      BY <2>2, <2>3, <2>5
    <3>3. \A u \in NodeEntries : u = conn[c].node
      BY <2>5, InvParts DEF OneNode
    <3>4. \A d \in Links \ {c} : ~(conn'[d].open /\ conn'[d].node \in NodeEntries')
      BY <2>3, <3>3, InvParts DEF OneNode
    <3> QED
      BY <2>2, <2>3, <3>1, <3>2, <3>3, <3>4
  <2> QED
    BY <2>4, <2>5
<1>16. ASSUME NEW c \in Links, Lose(c) PROVE RowsAwaited'
  <2>1. LinksFall
    BY <1>16, InvParts, LoseDoes
  <2>2. UNCHANGED <<entry, awaited, inOrder, overwritten>>
    BY <1>16 DEF Lose, ParseKeeps, NodesKeep, siteMaps, siteHist, rowHist
  <2> QED
    BY <2>1, <2>2, InvParts, FallRowsAwaited DEF NodeEntries, Entries
<1>17. ASSUME NEW c \in Links, MarkSite(c) PROVE RowsAwaited'
  <2>1. LinksFall
    BY <1>17, InvParts, MarkDoes
  <2>2. UNCHANGED <<entry, awaited, inOrder, overwritten>>
    BY <1>17 DEF MarkSite, ParseKeeps, NodesKeep, siteMaps, siteHist, rowHist
  <2> QED
    BY <2>1, <2>2, InvParts, FallRowsAwaited DEF NodeEntries, Entries
<1>18. ASSUME NEW n \in Nodes, NodeFails(n) PROVE RowsAwaited'
  <2>1. LinksFall
    BY <1>18, InvParts, NodeFailsDoes
  <2>2. UNCHANGED <<entry, awaited, inOrder, overwritten>>
    BY <1>18 DEF NodeFails, ParseKeeps, NodesKeep, siteMaps, siteHist, rowHist
  <2> QED
    BY <2>1, <2>2, InvParts, FallRowsAwaited DEF NodeEntries, Entries
<1>19. ASSUME NEW c \in Links, LinkFails(c) PROVE RowsAwaited'
  <2>1. LinksFall
    BY <1>19, InvParts, LinkFailsDoes
  <2>2. UNCHANGED <<entry, awaited, inOrder, overwritten>>
    BY <1>19 DEF LinkFails, ParseKeeps, NodesKeep, siteMaps, siteHist, rowHist
  <2> QED
    BY <2>1, <2>2, InvParts, FallRowsAwaited DEF NodeEntries, Entries
<1>20. ASSUME NEW c \in Links, StampSite(c) PROVE RowsAwaited'
  <2>1. /\ LinksFall /\ NodeEntries' = NodeEntries
        /\ \A t \in NodeEntries : entry'[t].offset = entry[t].offset
    BY <1>20, StampDoes DEF NodeEntries
  <2>2. UNCHANGED <<awaited, inOrder, overwritten>>
    BY <1>20 DEF StampSite, ParseKeeps, rowHist
  <2> QED
    BY <2>1, <2>2, InvParts, FallRowsAwaited
<1>21. CASE UNCHANGED siteVars
  BY <1>1, <1>21 DEF siteVars, siteMaps, siteAppVars, siteReconVars, linkVars, nodeVars,
         siteHist, rowHist
<1> QED
  BY <1>1, <1>2, <1>3, <1>4, <1>5, <1>6, <1>7, <1>8, <1>9, <1>10, <1>11, <1>12, <1>13,
     <1>14, <1>15, <1>16, <1>17, <1>18, <1>19, <1>20, <1>21 DEF SitesNext, AppStep, SiteReconnectStep,
     SiteParseStep, NodeStep

(* The ID of the subscription leads to an entry of it. *)
LEMMA FoundByIDNext ==
  ASSUME SitesInv, [SitesNext]_siteVars
  PROVE  FoundByID'
<1>1. ASSUME UNCHANGED <<entry, topic>> PROVE FoundByID'
  BY <1>1, InvParts DEF FoundByID, Entries
<1>2. ASSUME CheckServerVersion \/ UnsubscribeSite \/ SubscribeIsRedirected \/ BeginRound \/
             SiteFails \/ LeaderRedirects
      PROVE  UNCHANGED <<entry, topic>>
  BY <1>2 DEF CheckServerVersion, AppKeeps, UnsubscribeSite, SubscribeIsRedirected,
         BeginRound, ReconKeeps, SiteFails, Idle, LeaderRedirects, siteMaps, siteAppVars,
         siteReconVars, linkVars, nodeVars, siteHist, rowHist
<1>3. ASSUME LeaderNotFound \/ EndRound \/ VisitInitSite \/ InitTimesOut \/ InitResubFails
      PROVE  UNCHANGED <<entry, topic>>
  BY <1>3 DEF LeaderNotFound, Idle, ReconKeeps, EndRound, VisitInitSite, InitTimesOut,
         InitResubFails, siteMaps, siteAppVars, siteReconVars, linkVars, nodeVars, siteHist,
         rowHist
<1>4. ASSUME NEW t \in Topics, PassOver(t) \/ GiveUp(t) \/ Visit(t)
      PROVE  UNCHANGED <<entry, topic>>
  BY <1>4 DEF PassOver, ReconKeeps, GiveUp, Visit, siteMaps, siteAppVars, siteReconVars,
         linkVars, nodeVars, siteHist, rowHist
<1>5. ASSUME NEW n \in Nodes, LeaderFails(n) \/ NodeFails(n) \/ NodeReturns(n) \/ Elect(n)
      PROVE  UNCHANGED <<entry, topic>>
  BY <1>5 DEF LeaderFails, ReconKeeps, NodeFails, NodesKeep, NodeReturns, Elect, siteMaps,
         siteAppVars, siteReconVars, linkVars, nodeVars, siteHist, rowHist
<1>6. ASSUME NEW c \in Links, ReceiveSchema(c) \/ Lose(c) \/ MarkSite(c) \/ LinkFails(c)
      PROVE  UNCHANGED <<entry, topic>>
  BY <1>6 DEF ReceiveSchema, ParseKeeps, Lose, Ended, MarkSite, LinkFails, NodesKeep,
         siteMaps, siteAppVars, siteReconVars, linkVars, nodeVars, siteHist, rowHist
<1>7. ASSUME Subscribes PROVE FoundByID'
  <2>1. topic' = appHost /\ Entries' = {appHost}
    BY <1>7, SubscribesDoes
  <2> QED
    BY <2>1 DEF FoundByID
<1>8. ASSUME SiteSubscribeFails PROVE FoundByID'
  <2>1. topic' = Unknown /\ Entries' = {Unknown}
    BY <1>8, SubscribeFailsDoes
  <2> QED
    BY <2>1 DEF FoundByID
<1>9. ASSUME AddSiteHandleThread PROVE FoundByID'
  <2>1. topic' = topic
    BY <1>9 DEF AddSiteHandleThread
  <2> QED
    BY <1>9, <2>1, AddThreadDoes, InvParts DEF FoundByID
<1>10. ASSUME EraseTopic PROVE FoundByID'
  <2>1. /\ Entries' = Entries \ {appTopic}
        /\ IF appTopic \in Entries THEN topic' = NoTopic ELSE topic' = topic
    BY <1>10, EraseDoes
  <2> QED
    BY <2>1, InvParts DEF FoundByID
<1>11. ASSUME NextSite PROVE FoundByID'
  <2>1. topic' = topic
    BY <1>11 DEF NextSite
  <2>2. Entries \subseteq Entries'
    BY <1>11, NextSiteDoes
  <2> QED
    BY <2>1, <2>2, InvParts DEF FoundByID
<1>12. ASSUME SiteAnswers PROVE FoundByID'
  BY <1>12, SiteAnswersDoes
<1>13. ASSUME LeaderAnswers PROVE FoundByID'
  BY <1>13, LeaderAnswersDoes
<1>14. ASSUME InitResubConnects PROVE FoundByID'
  <2>1. PICK n \in Nodes : Entries' = Entries \cup {n} /\ topic' = n
    BY <1>14, InitConnectsDoes
  <2> QED
    BY <2>1 DEF FoundByID
<1>15. ASSUME NEW c \in Links, ReceiveRow(c) PROVE FoundByID'
  <2>1. topic' = topic
    BY <1>15 DEF ReceiveRow, ParseKeeps
  <2> QED
    BY <1>15, <2>1, ReceiveRowDoes, InvParts DEF FoundByID
<1>16. ASSUME NEW c \in Links, StampSite(c) PROVE FoundByID'
  <2>1. topic' = topic
    BY <1>16 DEF StampSite, ParseKeeps
  <2> QED
    BY <1>16, <2>1, StampDoes, InvParts DEF FoundByID
<1>17. CASE UNCHANGED siteVars
  BY <1>1, <1>17 DEF siteVars, siteMaps, siteAppVars, siteReconVars, linkVars, nodeVars,
         siteHist, rowHist
<1> QED
  BY <1>1, <1>2, <1>3, <1>4, <1>5, <1>6, <1>7, <1>8, <1>9, <1>10, <1>11, <1>12, <1>13,
     <1>14, <1>15, <1>16, <1>17 DEF SitesNext, AppStep, SiteReconnectStep,
     SiteParseStep, NodeStep

(* A subscription has one entry, which is counted once. *)
LEMMA OneEntryNext ==
  ASSUME SitesInv, [SitesNext]_siteVars
  PROVE  OneEntry'
<1>1. ASSUME UNCHANGED <<entry, topic, live, siteCnt, crossed, overwritten>> PROVE OneEntry'
  BY <1>1, InvParts DEF OneEntry, Entries
<1>2. ASSUME CheckServerVersion \/ UnsubscribeSite \/ SubscribeIsRedirected \/ BeginRound \/
             SiteFails \/ LeaderRedirects
      PROVE  UNCHANGED <<entry, topic, live, siteCnt, crossed, overwritten>>
  BY <1>2 DEF CheckServerVersion, AppKeeps, UnsubscribeSite, SubscribeIsRedirected,
         BeginRound, ReconKeeps, SiteFails, Idle, LeaderRedirects, siteMaps, siteAppVars,
         siteReconVars, linkVars, nodeVars, siteHist, rowHist
<1>3. ASSUME LeaderNotFound \/ EndRound \/ VisitInitSite \/ InitTimesOut \/ InitResubFails
      PROVE  UNCHANGED <<entry, topic, live, siteCnt, crossed, overwritten>>
  BY <1>3 DEF LeaderNotFound, Idle, ReconKeeps, EndRound, VisitInitSite, InitTimesOut,
         InitResubFails, siteMaps, siteAppVars, siteReconVars, linkVars, nodeVars, siteHist,
         rowHist
<1>4. ASSUME NEW t \in Topics, PassOver(t) \/ GiveUp(t) \/ Visit(t)
      PROVE  UNCHANGED <<entry, topic, live, siteCnt, crossed, overwritten>>
  BY <1>4 DEF PassOver, ReconKeeps, GiveUp, Visit, siteMaps, siteAppVars, siteReconVars,
         linkVars, nodeVars, siteHist, rowHist
<1>5. ASSUME NEW n \in Nodes, LeaderFails(n) \/ NodeFails(n) \/ NodeReturns(n) \/ Elect(n)
      PROVE  UNCHANGED <<entry, topic, live, siteCnt, crossed, overwritten>>
  BY <1>5 DEF LeaderFails, ReconKeeps, NodeFails, NodesKeep, NodeReturns, Elect, siteMaps,
         siteAppVars, siteReconVars, linkVars, nodeVars, siteHist, rowHist
<1>6. ASSUME NEW c \in Links, ReceiveSchema(c) \/ Lose(c) \/ MarkSite(c) \/ LinkFails(c)
      PROVE  UNCHANGED <<entry, topic, live, siteCnt, crossed, overwritten>>
  BY <1>6 DEF ReceiveSchema, ParseKeeps, Lose, Ended, MarkSite, LinkFails, NodesKeep,
         siteMaps, siteAppVars, siteReconVars, linkVars, nodeVars, siteHist, rowHist
<1>7. ASSUME Subscribes PROVE OneEntry'
  <2>1. /\ appHost \in Nodes /\ topic' = appHost /\ Entries' = {appHost}
        /\ live' = live \cup {appHost} /\ siteCnt'[appHost] = siteCnt[appHost] + 1
        /\ \A t \in Topics \ {appHost} : siteCnt'[t] = siteCnt[t]
    BY <1>7, SubscribesDoes
  <2>2. live = {} /\ \A t \in Topics : siteCnt[t] = 0
    BY <1>7, NobodyYet DEF Subscribes
  <2>3. \A t \in Topics : siteCnt'[t] = IF t \in Entries' THEN 1 ELSE 0
    BY <2>1, <2>2, Numbers
  <2> QED
    BY <2>1, <2>2, <2>3 DEF OneEntry
<1>8. ASSUME SiteSubscribeFails PROVE OneEntry'
  <2>1. /\ topic' = Unknown /\ Entries' = {Unknown}
        /\ live' = live \cup {Unknown} /\ siteCnt'[Unknown] = siteCnt[Unknown] + 1
        /\ \A t \in Topics \ {Unknown} : siteCnt'[t] = siteCnt[t]
    BY <1>8, SubscribeFailsDoes
  <2>2. live = {} /\ \A t \in Topics : siteCnt[t] = 0
    BY <1>8, NobodyYet DEF SiteSubscribeFails
  <2>3. \A t \in Topics : siteCnt'[t] = IF t \in Entries' THEN 1 ELSE 0
    BY <2>1, <2>2, Numbers
  <2> QED
    BY <2>1, <2>2, <2>3 DEF OneEntry
<1>9. ASSUME AddSiteHandleThread PROVE OneEntry'
  <2>1. UNCHANGED <<topic, live, siteCnt, crossed, overwritten>>
    BY <1>9 DEF AddSiteHandleThread, siteHist
  <2> QED
    BY <1>9, <2>1, AddThreadDoes, InvParts DEF OneEntry
<1>10. ASSUME EraseTopic PROVE OneEntry'
  <2> SUFFICES ASSUME ~crossed', ~overwritten'
               PROVE  /\ Entries' \subseteq {topic', Unknown} /\ live' = Entries'
                      /\ \A t \in Topics : siteCnt'[t] = IF t \in Entries' THEN 1 ELSE 0
    BY DEF OneEntry
  <2>1. ~overwritten /\ ~crossed /\ appTopic \in Entries /\ appTopic \in Topics /\ app = "erase"
    BY <1>10, EraseDoes DEF EraseTopic
  <2>2. /\ Entries \subseteq {topic, Unknown} /\ live = Entries /\ appTopic = topic
        /\ \A t \in Topics : siteCnt[t] = IF t \in Entries THEN 1 ELSE 0
    BY <2>1, InvParts DEF OneEntry, EraseFinds
  <2>3. /\ Entries' = Entries \ {appTopic} /\ topic' = NoTopic /\ live' = live \ {appTopic}
        /\ siteCnt'[appTopic] = siteCnt[appTopic] - 1
        /\ \A t \in Topics \ {appTopic} : siteCnt'[t] = siteCnt[t]
    BY <1>10, <2>1, EraseDoes
  <2>5. \A t \in Topics : siteCnt'[t] = IF t \in Entries' THEN 1 ELSE 0
    BY <2>1, <2>2, <2>3
  <2> QED
    BY <2>2, <2>3, <2>5
<1>11. ASSUME NextSite PROVE OneEntry'
  <2>1. UNCHANGED <<topic, live, siteCnt, crossed>>
    BY <1>11 DEF NextSite
  <2>2. ~overwritten' => ~overwritten /\ Entries' = Entries
    BY <1>11, NextSiteDoes
  <2> QED
    BY <2>1, <2>2, InvParts DEF OneEntry
<1>12. ASSUME SiteAnswers PROVE OneEntry'
  BY <1>12, SiteAnswersDoes
<1>13. ASSUME LeaderAnswers PROVE OneEntry'
  BY <1>13, LeaderAnswersDoes
<1>14. ASSUME InitResubConnects PROVE OneEntry'
  <2> SUFFICES ASSUME ~crossed', ~overwritten'
               PROVE  /\ Entries' \subseteq {topic', Unknown} /\ live' = Entries'
                      /\ \A t \in Topics : siteCnt'[t] = IF t \in Entries' THEN 1 ELSE 0
    BY DEF OneEntry
  <2>1. PICK n \in Nodes :
                             /\ Entries \subseteq {Unknown} /\ Entries' = Entries \cup {n}
                             /\ topic' = n /\ live' = live \cup {n} /\ siteCnt'[n] = siteCnt[n] + 1
                             /\ \A t \in Topics \ {n} : siteCnt'[t] = siteCnt[t]
                             /\ ~crossed
    BY <1>14, InitConnectsDoes
  <2>2. ~overwritten
    BY <1>14 DEF InitResubConnects
  <2>3. live = Entries /\ \A t \in Topics : siteCnt[t] = IF t \in Entries THEN 1 ELSE 0
    BY <2>1, <2>2, InvParts DEF OneEntry
  <2>4. n \notin Entries /\ n \in Topics
    BY <2>1, Numbers
  <2>5. siteCnt[n] = 0
    BY <2>3, <2>4
  <2>6. \A t \in Topics : siteCnt'[t] = IF t \in Entries' THEN 1 ELSE 0
    BY <2>1, <2>3, <2>4, <2>5
  <2> QED
    BY <2>1, <2>3, <2>6
<1>15. ASSUME NEW c \in Links, ReceiveRow(c) PROVE OneEntry'
  <2>1. UNCHANGED <<topic, live, siteCnt, crossed, overwritten>>
    BY <1>15 DEF ReceiveRow, ParseKeeps
  <2> QED
    BY <1>15, <2>1, ReceiveRowDoes, InvParts DEF OneEntry
<1>16. ASSUME NEW c \in Links, StampSite(c) PROVE OneEntry'
  <2>1. UNCHANGED <<topic, live, siteCnt, crossed, overwritten>>
    BY <1>16 DEF StampSite, ParseKeeps
  <2> QED
    BY <1>16, <2>1, StampDoes, InvParts DEF OneEntry
<1>17. CASE UNCHANGED siteVars
  BY <1>1, <1>17 DEF siteVars, siteMaps, siteAppVars, siteReconVars, linkVars, nodeVars,
         siteHist, rowHist
<1> QED
  BY <1>1, <1>2, <1>3, <1>4, <1>5, <1>6, <1>7, <1>8, <1>9, <1>10, <1>11, <1>12, <1>13,
     <1>14, <1>15, <1>16, <1>17 DEF SitesNext, AppStep, SiteReconnectStep,
     SiteParseStep, NodeStep

(* The parts of SitesPlaced. *)
EntriesPlaced == \A t \in NodeEntries : SitesOf(entry[t], t)
CopyPlaced ==
  /\ recon \in {"site", "try"} =>
       /\ SitesOf(info, visited) /\ info.last # -1
       /\ index \in 0 .. Len(info.sites) - 1
  /\ recon = "try" => info.current = index
  /\ recon = "leader" => info.sites = <<>>
  /\ recon = "init" => Fresh(info)
InitPlaced == initSites # <<>> => Fresh(initSites[1])

LEMMA PlacedParts == SitesPlaced <=> EntriesPlaced /\ CopyPlaced /\ InitPlaced
BY DEF SitesPlaced, EntriesPlaced, CopyPlaced, InitPlaced

(* An info whose sites stay as they are. *)
LEMMA SitesOfKept ==
  ASSUME UNCHANGED <<given, subOnce, left>>, NEW n, NEW i, NEW j, SitesOf(i, n),
         j.sites = i.sites, j.current = i.current, j.last = i.last, j.host = i.host
  PROVE  SitesOf(j, n)'
BY DEF SitesOf, ha

(* An info that is entered for the first time. *)
LEMMA SitesOfFresh ==
  ASSUME UNCHANGED <<given, subOnce, left>>, left = {}, NEW i \in SiteInfos, Fresh(i)
  PROVE  SitesOf(i, i.host)'
<1>1. given \in Seq(Nodes) /\ i.sites = given /\ i.last = -1
  BY InfoFields DEF Fresh
<1>2. Len(given) \in Nat
  BY <1>1, LenProperties
<1>3. CASE ha
  BY <1>1, <1>3 DEF SitesOf, ha
<1>4. CASE ~ha
  <2>1. i.current \in 0 .. Len(given) - 1 /\ i.host = given[i.current + 1]
    BY <1>4 DEF Fresh
  <2>2. -1 \in -1 .. Len(given) - 1
    BY <1>2
  <2>3. IsInjective(given) => IsInjective(i.sites) /\ Range(i.sites) = Range(given) \ left
    BY <1>1
  <2>4. i.sites[(IF i.last = -1 THEN i.current ELSE i.last) + 1] = i.host
    BY <1>1, <2>1
  <2>5. i.current \in 0 .. Len(i.sites) - 1 /\ i.last \in -1 .. Len(i.sites) - 1
    BY <1>1, <2>1, <2>2
  <2>6. i.host = i.sites[i.current + 1]
    BY <1>1, <2>1
  <2> QED
    BY <1>1, <1>4, <2>3, <2>4, <2>5, <2>6 DEF SitesOf, ha
<1> QED
  BY <1>3, <1>4

(* The sites in the entry. *)
LEMMA EntriesPlacedNext ==
  ASSUME SitesInv, [SitesNext]_siteVars
  PROVE  EntriesPlaced'
<1>1. ASSUME UNCHANGED <<given, subOnce, left, entry>> PROVE EntriesPlaced'
  BY <1>1, InvParts, PlacedParts DEF EntriesPlaced, NodeEntries, Entries, SitesOf, ha
<1>2. ASSUME CheckServerVersion \/ UnsubscribeSite \/ SubscribeIsRedirected \/ BeginRound \/
             SiteFails \/ LeaderRedirects
      PROVE  UNCHANGED <<given, subOnce, left, entry>>
  BY <1>2 DEF CheckServerVersion, AppKeeps, UnsubscribeSite, SubscribeIsRedirected,
         BeginRound, ReconKeeps, SiteFails, Idle, LeaderRedirects, siteMaps, siteAppVars,
         siteReconVars, linkVars, nodeVars, siteHist, rowHist
<1>3. ASSUME LeaderNotFound \/ EndRound \/ VisitInitSite \/ InitTimesOut \/ InitResubFails
      PROVE  UNCHANGED <<given, subOnce, left, entry>>
  BY <1>3 DEF LeaderNotFound, Idle, ReconKeeps, EndRound, VisitInitSite, InitTimesOut,
         InitResubFails, siteMaps, siteAppVars, siteReconVars, linkVars, nodeVars, siteHist,
         rowHist
<1>4. ASSUME NEW t \in Topics, PassOver(t) \/ GiveUp(t) \/ Visit(t)
      PROVE  UNCHANGED <<given, subOnce, left, entry>>
  BY <1>4 DEF PassOver, ReconKeeps, GiveUp, Visit, siteMaps, siteAppVars, siteReconVars,
         linkVars, nodeVars, siteHist, rowHist
<1>5. ASSUME NEW n \in Nodes, LeaderFails(n) \/ NodeFails(n) \/ NodeReturns(n) \/ Elect(n)
      PROVE  UNCHANGED <<given, subOnce, left, entry>>
  BY <1>5 DEF LeaderFails, ReconKeeps, NodeFails, NodesKeep, NodeReturns, Elect, siteMaps,
         siteAppVars, siteReconVars, linkVars, nodeVars, siteHist, rowHist
<1>6. ASSUME NEW c \in Links, ReceiveSchema(c) \/ Lose(c) \/ MarkSite(c) \/ LinkFails(c)
      PROVE  UNCHANGED <<given, subOnce, left, entry>>
  BY <1>6 DEF ReceiveSchema, ParseKeeps, Lose, Ended, MarkSite, LinkFails, NodesKeep,
         siteMaps, siteAppVars, siteReconVars, linkVars, nodeVars, siteHist, rowHist
<1>7. ASSUME Subscribes PROVE EntriesPlaced'
  <2>1. PICK i \in SiteInfos :
               /\ appHost \in Nodes /\ linksMade = 0 /\ Entries' = {appHost}
               /\ entry'[appHost] = i /\ i.sites = given /\ i.last = -1 /\ i.host = appHost
               /\ i.offset = 0 /\ (~ha => i.current = 0)
    BY <1>7, SubscribesDoes
  <2>2. UNCHANGED <<given, subOnce, left>>
    BY <1>7 DEF Subscribes, AppKeeps, siteHist
  <2>3. left = {}
    BY <2>1, InvParts DEF NoSiteYet
  <2>4. Fresh(i)
    <3>1. given \in Seq(Nodes) /\ (~ha => given # <<>> /\ given[1] = 1 /\ appHost = 1)
      BY InvParts, ControlParts, SitesAssumption DEF AppControl, ha
    <3>2. ~ha => 0 \in 0 .. Len(given) - 1
      BY <3>1, EmptySeq
    <3> QED
      BY <2>1, <3>1, <3>2 DEF Fresh
  <2>5. SitesOf(i, i.host)'
    BY <2>2, <2>3, <2>4, SitesOfFresh
  <2>6. \A u \in NodeEntries' : u = appHost
    BY <2>1 DEF NodeEntries
  <2>7. PICK n \in Nodes : n = appHost
    BY <2>1
  <2>8. SitesOf(i, n)' /\ entry'[n] = i /\ \A u \in NodeEntries' : u = n
    BY <2>1, <2>5, <2>6, <2>7 DEF SitesOf
  <2> QED
    BY <2>8 DEF EntriesPlaced, SitesOf
<1>8. ASSUME SiteSubscribeFails PROVE EntriesPlaced'
  <2>1. NodeEntries' = {}
    BY <1>8, SubscribeFailsDoes
  <2> QED
    BY <2>1 DEF EntriesPlaced
<1>9. ASSUME AddSiteHandleThread PROVE EntriesPlaced'
  <2>1. UNCHANGED <<given, subOnce, left>>
    BY <1>9 DEF AddSiteHandleThread, AppKeeps, ParseKeeps, siteHist
  <2>2. /\ NodeEntries' = NodeEntries
        /\ \A u \in NodeEntries :
              /\ entry'[u].sites = entry[u].sites /\ entry'[u].current = entry[u].current
              /\ entry'[u].last = entry[u].last /\ entry'[u].host = entry[u].host
    BY <1>9, InvParts, AddThreadDoes DEF NodeEntries
  <2>3. ASSUME NEW u \in NodeEntries' PROVE SitesOf(entry[u], u)'
    <3>1. PICK i : i = entry[u]
      OBVIOUS
    <3>2. PICK j : j = entry'[u]
      OBVIOUS
    <3>3. SitesOf(i, u)
      BY <2>2, <2>3, <3>1, InvParts, PlacedParts DEF EntriesPlaced
    <3>4. /\ j.sites = i.sites /\ j.current = i.current /\ j.last = i.last /\ j.host = i.host
      BY <2>2, <2>3, <3>1, <3>2
    <3>5. SitesOf(j, u)'
      BY <2>1, <3>3, <3>4, SitesOfKept
    <3> QED
      BY <3>2, <3>5 DEF SitesOf
  <2> QED
    BY <2>3 DEF EntriesPlaced
<1>10. ASSUME EraseTopic PROVE EntriesPlaced'
  <2>1. UNCHANGED <<given, subOnce, left>>
    BY <1>10 DEF EraseTopic, AppKeeps
  <2>2. /\ NodeEntries' \subseteq NodeEntries
        /\ \A u \in NodeEntries' : entry'[u] = entry[u]
    BY <1>10, EraseDoes DEF NodeEntries, Entries
  <2> QED
    BY <2>1, <2>2, InvParts, PlacedParts DEF EntriesPlaced, SitesOf, ha
<1>11. ASSUME NextSite PROVE EntriesPlaced'
  <2>1. PICK j \in SiteInfos : j = info'
    BY <1>11, NextSiteDoes
  <2>2. PICK n \in Nodes : n = visited
    BY <1>11, NextSiteDoes
  <2>3. SitesOf(j, n) /\ entry'[n] = j /\ NodeEntries' = {n}
    BY <1>11, <2>1, <2>2, NextSiteDoes
  <2>4. UNCHANGED <<given, subOnce, left>>
    BY <1>11 DEF NextSite, ReconKeeps
  <2>5. SitesOf(j, n)'
    BY <2>3, <2>4, SitesOfKept
  <2> QED
    BY <2>3, <2>5 DEF EntriesPlaced, SitesOf
<1>12. ASSUME SiteAnswers PROVE EntriesPlaced'
  <2>1. PICK i \in SiteInfos, n \in Nodes : entry'[n] = i /\ NodeEntries' = {n} /\ SitesOf(i, n)'
    BY <1>12, SiteAnswersDoes
  <2> QED
    BY <2>1 DEF EntriesPlaced, SitesOf
<1>13. ASSUME LeaderAnswers PROVE EntriesPlaced'
  <2>1. PICK i \in SiteInfos, n \in Nodes :
               /\ ha /\ (n = visited => UNCHANGED siteMaps)
               /\ n # visited => entry'[n] = i /\ NodeEntries' = {n}
               /\ i.sites = info.sites
    BY <1>13, LeaderAnswersDoes
  <2>2. UNCHANGED <<given, subOnce, left>>
    BY <1>13 DEF LeaderAnswers, ReconKeeps
  <2>3. CASE n = visited
    BY <2>1, <2>2, <2>3, InvParts, PlacedParts DEF EntriesPlaced, SitesOf, ha, NodeEntries, Entries, siteMaps
  <2>4. CASE n # visited
    <3>1. i.sites = <<>>
      BY <1>13, <2>1, InvParts, PlacedParts DEF CopyPlaced, LeaderAnswers
    <3> QED
      BY <2>1, <2>2, <2>4, <3>1 DEF EntriesPlaced, SitesOf, ha
  <2> QED
    BY <2>3, <2>4
<1>14. ASSUME InitResubConnects PROVE EntriesPlaced'
  <2>1. PICK i \in SiteInfos, n \in Nodes :
               /\ linksMade = 0 /\ NodeEntries' = {n} /\ entry'[n] = i /\ i.host = n /\ Fresh(i)
    BY <1>14, InitConnectsDoes
  <2>2. UNCHANGED <<given, subOnce, left>>
    BY <1>14 DEF InitResubConnects, ReconKeeps
  <2>3. left = {}
    BY <2>1, InvParts DEF NoSiteYet
  <2>4. SitesOf(i, i.host)'
    BY <2>1, <2>2, <2>3, SitesOfFresh
  <2>5. SitesOf(i, n)'
    BY <2>1, <2>4 DEF SitesOf
  <2> QED
    BY <2>1, <2>5 DEF EntriesPlaced, SitesOf
<1>15. ASSUME NEW c \in Links, ReceiveRow(c) PROVE EntriesPlaced'
  <2>1. UNCHANGED <<given, subOnce, left>>
    BY <1>15 DEF ReceiveRow, AppKeeps, ParseKeeps, siteHist
  <2>2. /\ NodeEntries' = NodeEntries
        /\ \A u \in NodeEntries :
              /\ entry'[u].sites = entry[u].sites /\ entry'[u].current = entry[u].current
              /\ entry'[u].last = entry[u].last /\ entry'[u].host = entry[u].host
    BY <1>15, InvParts, ReceiveRowDoes DEF NodeEntries
  <2>3. ASSUME NEW u \in NodeEntries' PROVE SitesOf(entry[u], u)'
    <3>1. PICK i : i = entry[u]
      OBVIOUS
    <3>2. PICK j : j = entry'[u]
      OBVIOUS
    <3>3. SitesOf(i, u)
      BY <2>2, <2>3, <3>1, InvParts, PlacedParts DEF EntriesPlaced
    <3>4. /\ j.sites = i.sites /\ j.current = i.current /\ j.last = i.last /\ j.host = i.host
      BY <2>2, <2>3, <3>1, <3>2
    <3>5. SitesOf(j, u)'
      BY <2>1, <3>3, <3>4, SitesOfKept
    <3> QED
      BY <3>2, <3>5 DEF SitesOf
  <2> QED
    BY <2>3 DEF EntriesPlaced
<1>16. ASSUME NEW c \in Links, StampSite(c) PROVE EntriesPlaced'
  <2>1. UNCHANGED <<given, subOnce, left>>
    BY <1>16 DEF StampSite, ParseKeeps
  <2>2. NodeEntries' = NodeEntries /\ \A u \in NodeEntries : entry'[u] = entry[u]
    BY <1>16, StampDoes DEF NodeEntries
  <2> QED
    BY <2>1, <2>2, InvParts, PlacedParts DEF EntriesPlaced, SitesOf, ha
<1>17. CASE UNCHANGED siteVars
  BY <1>1, <1>17 DEF siteVars, siteMaps, siteAppVars, siteReconVars, linkVars, nodeVars,
         siteHist, rowHist
<1> QED
  BY <1>1, <1>2, <1>3, <1>4, <1>5, <1>6, <1>7, <1>8, <1>9, <1>10, <1>11, <1>12, <1>13,
     <1>14, <1>15, <1>16, <1>17 DEF SitesNext, AppStep, SiteReconnectStep,
     SiteParseStep, NodeStep

(* The sites in the copy. *)
LEMMA CopyPlacedNext ==
  ASSUME SitesInv, [SitesNext]_siteVars
  PROVE  CopyPlaced'
<1>1. ASSUME UNCHANGED <<given, subOnce, left, recon, info, visited, index>> PROVE CopyPlaced'
  BY <1>1, InvParts, PlacedParts DEF CopyPlaced, SitesOf, Fresh, ha
<1>2. ASSUME CheckServerVersion \/ UnsubscribeSite \/ Subscribes \/ SubscribeIsRedirected \/
             SiteSubscribeFails \/ AddSiteHandleThread
      PROVE  UNCHANGED <<given, subOnce, left, recon, info, visited, index>>
  BY <1>2 DEF CheckServerVersion, AppKeeps, UnsubscribeSite, Subscribes, ConnectSite,
         InsertedInto, SubscribeIsRedirected, SiteSubscribeFails, AddSiteHandleThread,
         siteMaps, siteAppVars, siteReconVars, linkVars, nodeVars, siteHist, rowHist
<1>3. ASSUME EraseTopic \/ InitTimesOut
      PROVE  UNCHANGED <<given, subOnce, left, recon, info, visited, index>>
  BY <1>3 DEF EraseTopic, AppKeeps, InitTimesOut, ReconKeeps, siteMaps, siteAppVars,
         siteReconVars, linkVars, nodeVars, siteHist, rowHist
<1>4. ASSUME NEW t \in Topics, PassOver(t) \/ GiveUp(t)
      PROVE  UNCHANGED <<given, subOnce, left, recon, info, visited, index>>
  BY <1>4 DEF PassOver, ReconKeeps, GiveUp, siteMaps, siteAppVars, siteReconVars, linkVars,
         nodeVars, siteHist, rowHist
<1>5. ASSUME NEW c \in Links, ReceiveSchema(c) \/ ReceiveRow(c) \/ Lose(c) \/ StampSite(c) \/
             MarkSite(c) \/                  LinkFails(c)
      PROVE  UNCHANGED <<given, subOnce, left, recon, info, visited, index>>
  BY <1>5 DEF ReceiveSchema, ParseKeeps, ReceiveRow, Lose, StampSite, Ended, MarkSite, LinkFails,
         NodesKeep, siteMaps, siteAppVars, siteReconVars, linkVars, nodeVars, siteHist,
         rowHist
<1>6. ASSUME NEW n \in Nodes, NodeFails(n) \/ NodeReturns(n) \/ Elect(n)
      PROVE  UNCHANGED <<given, subOnce, left, recon, info, visited, index>>
  BY <1>6 DEF NodeFails, NodesKeep, NodeReturns, Elect, siteMaps, siteAppVars,
         siteReconVars, linkVars, nodeVars, siteHist, rowHist
<1>7. ASSUME BeginRound PROVE CopyPlaced'
  <2>1. recon' \in {"sleep", "round"}
    BY <1>7 DEF BeginRound
  <2> QED
    BY <2>1 DEF CopyPlaced
<1>8. ASSUME EndRound PROVE CopyPlaced'
  <2>1. recon' \in {"sleep", "round"}
    BY <1>8 DEF EndRound
  <2> QED
    BY <2>1 DEF CopyPlaced
<1>9. ASSUME SiteAnswers PROVE CopyPlaced'
  <2>1. recon' \in {"sleep", "round"}
    BY <1>9 DEF SiteAnswers
  <2> QED
    BY <2>1 DEF CopyPlaced
<1>10. ASSUME LeaderAnswers PROVE CopyPlaced'
  <2>1. recon' \in {"sleep", "round"}
    BY <1>10 DEF LeaderAnswers
  <2> QED
    BY <2>1 DEF CopyPlaced
<1>11. ASSUME LeaderNotFound PROVE CopyPlaced'
  <2>1. recon' \in {"sleep", "round"}
    BY <1>11 DEF LeaderNotFound
  <2> QED
    BY <2>1 DEF CopyPlaced
<1>12. ASSUME InitResubConnects PROVE CopyPlaced'
  <2>1. recon' \in {"sleep", "round"}
    BY <1>12 DEF InitResubConnects
  <2> QED
    BY <2>1 DEF CopyPlaced
<1>13. ASSUME InitResubFails PROVE CopyPlaced'
  <2>1. recon' \in {"sleep", "round"}
    BY <1>13 DEF InitResubFails
  <2> QED
    BY <2>1 DEF CopyPlaced
<1>14. ASSUME NEW t \in Topics, Visit(t) PROVE CopyPlaced'
  <2>1. UNCHANGED <<given, subOnce, left>>
    BY <1>14 DEF Visit, ReconKeeps
  <2>2. CASE ha
    BY <1>14, <2>2, VisitDoes DEF CopyPlaced
  <2>3. CASE ~ha
    <3>1. PICK j \in SiteInfos : j = info'
      BY <1>14, VisitDoes
    <3>2. /\ recon' = "site" /\ visited' = t /\ SitesOf(j, t) /\ j.last # -1
          /\ index' \in 0 .. Len(j.sites) - 1
      BY <1>14, <2>3, <3>1, VisitDoes
    <3>3. SitesOf(j, t)'
      BY <2>1, <3>2, SitesOfKept
    <3> QED
      BY <3>1, <3>2, <3>3 DEF CopyPlaced, SitesOf
  <2> QED
    BY <2>2, <2>3
<1>15. ASSUME NextSite PROVE CopyPlaced'
  <2>1. /\ recon' = "try" /\ UNCHANGED <<given, subOnce, left, visited, index>>
    BY <1>15 DEF NextSite, ReconKeeps
  <2>2. PICK j \in SiteInfos : j = info'
    BY <1>15, NextSiteDoes
  <2>3. PICK n \in Nodes : n = visited
    BY <1>15, NextSiteDoes
  <2>4. /\ SitesOf(j, n) /\ j.last # -1 /\ j.current = index /\ j.sites = info.sites
        /\ index \in 0 .. Len(info.sites) - 1
    BY <1>15, <2>2, <2>3, NextSiteDoes
  <2>5. SitesOf(j, n)'
    BY <2>1, <2>4, SitesOfKept
  <2> QED
    BY <2>1, <2>2, <2>3, <2>4, <2>5 DEF CopyPlaced, SitesOf
<1>16. ASSUME SiteFails PROVE CopyPlaced'
  <2>1. UNCHANGED <<given, subOnce, left>> /\ recon = "try"
    BY <1>16 DEF SiteFails, ReconKeeps, siteHist
  <2>2. CASE tries = 1
    <3>1. recon' = "round"
      BY <1>16, <2>2 DEF SiteFails
    <3> QED
      BY <3>1 DEF CopyPlaced
  <2>3. CASE tries # 1
    <3>1. recon' = "site" /\ UNCHANGED <<visited, info>> /\ index' = (index + 1) % Len(info.sites)
      BY <1>16, <2>3 DEF SiteFails, SiteAfter
    <3>2. SitesOf(info, visited) /\ info.last # -1 /\ index \in 0 .. Len(info.sites) - 1
      BY <2>1, InvParts, PlacedParts DEF CopyPlaced
    <3>3. Len(info.sites) \in Nat
      BY <2>1, InvParts, CopyFields, InfoFields, LenProperties
    <3>4. PICK l \in Nat : l = Len(info.sites)
      BY <3>3
    <3>5. PICK k \in 0 .. l - 1 : k = index
      BY <3>2, <3>4
    <3>6. (k + 1) % l \in 0 .. l - 1
      <4>1. l \in Nat \ {0} /\ k + 1 \in Nat /\ k + 1 <= l
        BY <3>4, <3>5
      <4>2. PICK m \in Nat \ {0} : m = l
        BY <4>1
      <4>3. PICK j \in Nat : j = k + 1
        BY <4>1
      <4>4. j % m \in 0 .. m - 1
        BY <4>2, <4>3
      <4> QED
        BY <4>2, <4>3, <4>4
    <3> QED
      BY <2>1, <3>1, <3>2, <3>4, <3>5, <3>6 DEF CopyPlaced, SitesOf, ha
  <2> QED
    BY <2>2, <2>3
<1>17. ASSUME LeaderRedirects PROVE CopyPlaced'
  <2>1. recon = "leader" /\ recon' = "leader" /\ info' = [info EXCEPT !.host = leader]
    BY <1>17 DEF LeaderRedirects
  <2>2. info \in SiteInfos /\ info.sites = <<>>
    BY <2>1, InvParts, PlacedParts, CopyFields DEF CopyPlaced
  <2>3. info'.sites = <<>>
    BY <2>1, <2>2 DEF SiteInfos
  <2> QED
    BY <2>1, <2>3 DEF CopyPlaced
<1>18. ASSUME NEW n \in Nodes, LeaderFails(n) PROVE CopyPlaced'
  <2>1. recon = "leader" /\ UNCHANGED <<recon, info>>
    BY <1>18 DEF LeaderFails
  <2> QED
    BY <2>1, InvParts, PlacedParts DEF CopyPlaced
<1>19. ASSUME VisitInitSite PROVE CopyPlaced'
  <2>1. recon' = "init" /\ given' = given
    BY <1>19 DEF VisitInitSite, ReconKeeps
  <2>2. Fresh(info')
    BY <1>19, VisitInitDoes
  <2> QED
    BY <2>1, <2>2 DEF CopyPlaced, Fresh, ha
<1>20. CASE UNCHANGED siteVars
  BY <1>1, <1>20 DEF siteVars, siteMaps, siteAppVars, siteReconVars, linkVars, nodeVars,
         siteHist, rowHist
<1> QED
  BY <1>1, <1>2, <1>3, <1>4, <1>5, <1>6, <1>7, <1>8, <1>9, <1>10, <1>11, <1>12, <1>13,
     <1>14, <1>15, <1>16, <1>17, <1>18, <1>19, <1>20 DEF SitesNext, AppStep, SiteReconnectStep,
     SiteParseStep, NodeStep

(* The sites of a subscription that waits for its first connection. *)
LEMMA InitPlacedNext ==
  ASSUME SitesInv, [SitesNext]_siteVars
  PROVE  InitPlaced'
<1>1. ASSUME UNCHANGED <<given, initSites>> PROVE InitPlaced'
  BY <1>1, InvParts, PlacedParts DEF InitPlaced, Fresh, ha
<1>2. ASSUME CheckServerVersion \/ UnsubscribeSite \/ Subscribes \/ SubscribeIsRedirected \/
             AddSiteHandleThread \/ EraseTopic
      PROVE  UNCHANGED <<given, initSites>>
  BY <1>2 DEF CheckServerVersion, AppKeeps, UnsubscribeSite, Subscribes, ConnectSite,
         InsertedInto, SubscribeIsRedirected, AddSiteHandleThread, EraseTopic, siteMaps,
         siteAppVars, siteReconVars, linkVars, nodeVars, siteHist, rowHist
<1>3. ASSUME BeginRound \/ NextSite \/ SiteAnswers \/ SiteFails \/ LeaderAnswers \/
             LeaderRedirects
      PROVE  UNCHANGED <<given, initSites>>
  BY <1>3 DEF BeginRound, ReconKeeps, NextSite, SiteAnswers, ConnectSite, MovedTo, Idle,
         SiteFails, LeaderAnswers, LeaderRedirects, siteMaps, siteAppVars, siteReconVars,
         linkVars, nodeVars, siteHist, rowHist
<1>4. ASSUME LeaderNotFound \/ EndRound \/ InitResubConnects
      PROVE  UNCHANGED <<given, initSites>>
  BY <1>4 DEF LeaderNotFound, Idle, ReconKeeps, EndRound, InitResubConnects, ConnectSite,
         InsertedInto, siteMaps, siteAppVars, siteReconVars, linkVars, nodeVars, siteHist,
         rowHist
<1>5. ASSUME NEW t \in Topics, PassOver(t) \/ GiveUp(t) \/ Visit(t)
      PROVE  UNCHANGED <<given, initSites>>
  BY <1>5 DEF PassOver, ReconKeeps, GiveUp, Visit, siteMaps, siteAppVars, siteReconVars,
         linkVars, nodeVars, siteHist, rowHist
<1>6. ASSUME NEW n \in Nodes, LeaderFails(n) \/ NodeFails(n) \/ NodeReturns(n) \/ Elect(n)
      PROVE  UNCHANGED <<given, initSites>>
  BY <1>6 DEF LeaderFails, ReconKeeps, NodeFails, NodesKeep, NodeReturns, Elect, siteMaps,
         siteAppVars, siteReconVars, linkVars, nodeVars, siteHist, rowHist
<1>7. ASSUME NEW c \in Links, ReceiveSchema(c) \/ ReceiveRow(c) \/ Lose(c) \/ StampSite(c) \/
             MarkSite(c) \/                  LinkFails(c)
      PROVE  UNCHANGED <<given, initSites>>
  BY <1>7 DEF ReceiveSchema, ParseKeeps, ReceiveRow, Lose, StampSite, Ended, MarkSite, LinkFails,
         NodesKeep, siteMaps, siteAppVars, siteReconVars, linkVars, nodeVars, siteHist,
         rowHist
<1>8. ASSUME SiteSubscribeFails PROVE InitPlaced'
  <2>1. /\ given' = given /\ Fresh(NewInfo(appHost)) /\ initSites' = <<NewInfo(appHost)>>
    BY <1>8, SubscribeFailsDoes DEF SiteSubscribeFails, AppKeeps
  <2>2. initSites'[1] = NewInfo(appHost)
    BY <2>1
  <2> QED
    BY <2>1, <2>2 DEF InitPlaced, Fresh, ha
<1>9. ASSUME VisitInitSite PROVE InitPlaced'
  BY <1>9, VisitInitDoes DEF InitPlaced
<1>10. ASSUME InitTimesOut PROVE InitPlaced'
  <2>1. initSites # <<>> /\ initSites' = Tail(initSites)
    BY <1>10 DEF InitTimesOut
  <2>2. initSites \in Seq(SiteInfos) /\ Len(initSites) = 1
    BY <2>1, InvParts DEF InitTypes, FirstAttempts
  <2>3. Tail(initSites) \in Seq(SiteInfos) /\ Len(Tail(initSites)) = 0
    BY <2>1, <2>2, HeadTailProperties
  <2>4. initSites' = <<>>
    BY <2>1, <2>3, EmptySeq
  <2> QED
    BY <2>4 DEF InitPlaced
<1>11. ASSUME InitResubFails PROVE InitPlaced'
  <2>1. PICK i \in SiteInfos :
               /\ initSites' = Append(initSites, i) /\ initSites = <<>> /\ Fresh(i)
    BY <1>11, InitFailsDoes
  <2>2. given' = given
    BY <1>11 DEF InitResubFails, ReconKeeps
  <2>3. initSites'[1] = i
    BY <2>1
  <2> QED
    BY <2>1, <2>2, <2>3 DEF InitPlaced, Fresh, ha
<1>12. CASE UNCHANGED siteVars
  BY <1>1, <1>12 DEF siteVars, siteMaps, siteAppVars, siteReconVars, linkVars, nodeVars,
         siteHist, rowHist
<1> QED
  BY <1>1, <1>2, <1>3, <1>4, <1>5, <1>6, <1>7, <1>8, <1>9, <1>10, <1>11, <1>12 DEF SitesNext, AppStep, SiteReconnectStep,
     SiteParseStep, NodeStep

(* What is left after unsubscribe() when nothing was under way.             *)
LEMMA AllEnded ==
  ASSUME SitesInv, app = "ended", ~crossed, ~overwritten
  PROVE  NodeEntries = {} /\ info = NoInfo /\ initSites = <<>> /\ recon \in {"sleep", "round"}
BY InvParts, ControlParts DEF EraseFinds, ReconControl

(* A step after which nothing is under way either.                          *)
LEMMA EraseFindsKept ==
  ASSUME SitesInv, UNCHANGED <<app, appTopic, topic>>, ~crossed' => ~crossed,
         app = "ended" /\ ~crossed' /\ ~overwritten' =>
           ~overwritten /\ NodeEntries' = {} /\ info' = NoInfo /\ initSites' = <<>>
  PROVE  EraseFinds'
<1>1. EraseFinds
  BY InvParts
<1> QED
  BY <1>1 DEF EraseFinds

(* A reconnection while unsubscribe() is under way crosses it.              *)
LEMMA EraseFindsCrossed ==
  ASSUME SitesInv, app' = app, ~crossed' => ~crossed /\ app # "erase", recon \notin {"sleep", "round"},
         ~overwritten' => ~overwritten
  PROVE  EraseFinds'
<1>1. app = "ended" => crossed \/ overwritten
  BY AllEnded
<1> QED
  BY <1>1 DEF EraseFinds

(* What unsubscribe() erases, and what is left then. *)
LEMMA EraseFindsNext ==
  ASSUME SitesInv, [SitesNext]_siteVars
  PROVE  EraseFinds'
<1>1. ASSUME UNCHANGED <<app, appTopic, topic, crossed, overwritten, entry, info, initSites>> PROVE EraseFinds'
  BY <1>1, InvParts DEF EraseFinds, NodeEntries, Entries
<1>2. ASSUME SubscribeIsRedirected \/ BeginRound \/ EndRound
      PROVE  UNCHANGED <<app, appTopic, topic, crossed, overwritten, entry, info, initSites>>
  BY <1>2 DEF SubscribeIsRedirected, AppKeeps, BeginRound, ReconKeeps, EndRound, siteMaps,
         siteAppVars, siteReconVars, linkVars, nodeVars, siteHist, rowHist
<1>3. ASSUME NEW t \in Topics, PassOver(t) \/ GiveUp(t)
      PROVE  UNCHANGED <<app, appTopic, topic, crossed, overwritten, entry, info, initSites>>
  BY <1>3 DEF PassOver, ReconKeeps, GiveUp, siteMaps, siteAppVars, siteReconVars, linkVars,
         nodeVars, siteHist, rowHist
<1>4. ASSUME NEW n \in Nodes, LeaderFails(n) \/ NodeFails(n) \/ NodeReturns(n) \/ Elect(n)
      PROVE  UNCHANGED <<app, appTopic, topic, crossed, overwritten, entry, info, initSites>>
  BY <1>4 DEF LeaderFails, ReconKeeps, NodeFails, NodesKeep, NodeReturns, Elect, siteMaps,
         siteAppVars, siteReconVars, linkVars, nodeVars, siteHist, rowHist
<1>5. ASSUME NEW c \in Links, ReceiveSchema(c) \/ Lose(c) \/ MarkSite(c) \/ LinkFails(c)
      PROVE  UNCHANGED <<app, appTopic, topic, crossed, overwritten, entry, info, initSites>>
  BY <1>5 DEF ReceiveSchema, ParseKeeps, Lose, Ended, MarkSite, LinkFails, NodesKeep,
         siteMaps, siteAppVars, siteReconVars, linkVars, nodeVars, siteHist, rowHist
<1>6. ASSUME CheckServerVersion PROVE EraseFinds'
  <2>1. app' # "erase" /\ app' # "ended"
    BY <1>6 DEF CheckServerVersion
  <2> QED
    BY <2>1 DEF EraseFinds
<1>7. ASSUME Subscribes PROVE EraseFinds'
  <2>1. app' # "erase" /\ app' # "ended"
    BY <1>7 DEF Subscribes
  <2> QED
    BY <2>1 DEF EraseFinds
<1>8. ASSUME SiteSubscribeFails PROVE EraseFinds'
  <2>1. app' # "erase" /\ app' # "ended"
    BY <1>8 DEF SiteSubscribeFails
  <2> QED
    BY <2>1 DEF EraseFinds
<1>9. ASSUME AddSiteHandleThread PROVE EraseFinds'
  <2>1. app' # "erase" /\ app' # "ended"
    BY <1>9 DEF AddSiteHandleThread
  <2> QED
    BY <2>1 DEF EraseFinds
<1>10. ASSUME UnsubscribeSite PROVE EraseFinds'
  BY <1>10 DEF UnsubscribeSite, EraseFinds, siteMaps
<1>11. ASSUME EraseTopic PROVE EraseFinds'
  <2> SUFFICES ASSUME ~crossed', ~overwritten'
               PROVE  app' # "erase" /\ NodeEntries' = {} /\ info' = NoInfo /\ initSites' = <<>>
    BY <1>11 DEF EraseFinds, EraseTopic
  <2>1. ~overwritten /\ info' = info /\ initSites' = initSites
    BY <1>11 DEF EraseTopic, AppKeeps, siteReconVars
  <2>2. /\ ~crossed /\ app = "erase" /\ app' = "ended" /\ Entries' = Entries \ {appTopic}
        /\ info = NoInfo /\ initSites = <<>>
    BY <1>11, EraseDoes
  <2>3. Entries \subseteq {topic, Unknown} /\ appTopic = topic
    BY <2>1, <2>2, InvParts DEF OneEntry, EraseFinds
  <2> QED
    BY <2>1, <2>2, <2>3 DEF NodeEntries
<1>12. ASSUME NEW t \in Topics, Visit(t) PROVE EraseFinds'
  <2>1. UNCHANGED <<app, appTopic, topic, crossed, overwritten>>
    BY <1>12 DEF Visit, ReconKeeps, siteAppVars, siteMaps
  <2>2. app = "ended" => crossed \/ overwritten
    BY <1>12, VisitDoes, AllEnded
  <2> QED
    BY <2>1, <2>2, EraseFindsKept
<1>13. ASSUME NextSite PROVE EraseFinds'
  <2>1. /\ UNCHANGED <<app, appTopic, topic, crossed>> /\ recon \notin {"sleep", "round"}
        /\ ~overwritten' => ~overwritten
    BY <1>13 DEF NextSite, ReconKeeps, siteAppVars
  <2>2. app = "ended" => crossed \/ overwritten
    BY <2>1, AllEnded
  <2> QED
    BY <2>1, <2>2, EraseFindsKept
<1>14. ASSUME SiteAnswers PROVE EraseFinds'
  <2>1. app' = app /\ recon \notin {"sleep", "round"} /\ (~overwritten' => ~overwritten)
    BY <1>14 DEF SiteAnswers, ReconKeeps, siteAppVars
  <2>2. ~crossed' => ~crossed /\ app # "erase"
    BY <1>14 DEF SiteAnswers
  <2> QED
    BY <2>1, <2>2, EraseFindsCrossed
<1>15. ASSUME LeaderAnswers PROVE EraseFinds'
  <2>1. app' = app /\ recon \notin {"sleep", "round"} /\ (~overwritten' => ~overwritten)
    BY <1>15 DEF LeaderAnswers, ReconKeeps, siteAppVars
  <2>2. ~crossed' => ~crossed /\ app # "erase"
    BY <1>15 DEF LeaderAnswers
  <2> QED
    BY <2>1, <2>2, EraseFindsCrossed
<1>16. ASSUME InitResubConnects PROVE EraseFinds'
  <2>1. app' = app /\ recon \notin {"sleep", "round"} /\ (~overwritten' => ~overwritten)
    BY <1>16 DEF InitResubConnects, ReconKeeps, siteAppVars
  <2>2. ~crossed' => ~crossed /\ app # "erase"
    BY <1>16 DEF InitResubConnects
  <2> QED
    BY <2>1, <2>2, EraseFindsCrossed
<1>17. ASSUME SiteFails PROVE EraseFinds'
  <2>1. UNCHANGED <<app, appTopic, topic, crossed, overwritten, entry>> /\ recon \notin {"sleep", "round"}
    BY <1>17 DEF SiteFails, ReconKeeps, siteAppVars, siteMaps, siteHist
  <2>2. app = "ended" => crossed \/ overwritten
    BY <2>1, AllEnded
  <2> QED
    BY <2>1, <2>2, EraseFindsKept
<1>18. ASSUME LeaderRedirects PROVE EraseFinds'
  <2>1. UNCHANGED <<app, appTopic, topic, crossed, overwritten, entry>> /\ recon \notin {"sleep", "round"}
    BY <1>18 DEF LeaderRedirects, ReconKeeps, siteAppVars, siteMaps, siteHist
  <2>2. app = "ended" => crossed \/ overwritten
    BY <2>1, AllEnded
  <2> QED
    BY <2>1, <2>2, EraseFindsKept
<1>19. ASSUME LeaderNotFound PROVE EraseFinds'
  <2>1. UNCHANGED <<app, appTopic, topic, crossed, overwritten, entry>> /\ recon \notin {"sleep", "round"}
    BY <1>19 DEF LeaderNotFound, ReconKeeps, siteAppVars, siteMaps, siteHist
  <2>2. app = "ended" => crossed \/ overwritten
    BY <2>1, AllEnded
  <2> QED
    BY <2>1, <2>2, EraseFindsKept
<1>20. ASSUME InitResubFails PROVE EraseFinds'
  <2>1. UNCHANGED <<app, appTopic, topic, crossed, overwritten, entry>> /\ recon \notin {"sleep", "round"}
    BY <1>20 DEF InitResubFails, ReconKeeps, siteAppVars, siteMaps, siteHist
  <2>2. app = "ended" => crossed \/ overwritten
    BY <2>1, AllEnded
  <2> QED
    BY <2>1, <2>2, EraseFindsKept
<1>21. ASSUME VisitInitSite PROVE EraseFinds'
  <2>1. UNCHANGED <<app, appTopic, topic, crossed, overwritten>> /\ initSites # <<>>
    BY <1>21 DEF VisitInitSite, ReconKeeps, siteAppVars, siteMaps, siteHist
  <2>2. app = "ended" => crossed \/ overwritten
    BY <2>1, AllEnded
  <2> QED
    BY <2>1, <2>2, EraseFindsKept
<1>22. ASSUME InitTimesOut PROVE EraseFinds'
  <2>1. UNCHANGED <<app, appTopic, topic, crossed, overwritten>> /\ initSites # <<>>
    BY <1>22 DEF InitTimesOut, ReconKeeps, siteAppVars, siteMaps
  <2>2. app = "ended" => crossed \/ overwritten
    BY <2>1, AllEnded
  <2> QED
    BY <2>1, <2>2, EraseFindsKept
<1>23. ASSUME NEW c \in Links, ReceiveRow(c) PROVE EraseFinds'
  <2>1. UNCHANGED <<app, appTopic, topic, crossed, overwritten, info, initSites>>
    BY <1>23 DEF ReceiveRow, ParseKeeps, siteAppVars, siteReconVars
  <2>2. NodeEntries' = NodeEntries
    BY <1>23, ReceiveRowDoes DEF NodeEntries
  <2> QED
    BY <2>1, <2>2, AllEnded, EraseFindsKept
<1>24. ASSUME NEW c \in Links, StampSite(c) PROVE EraseFinds'
  <2>1. UNCHANGED <<app, appTopic, topic, crossed, overwritten, info, initSites>>
    BY <1>24 DEF StampSite, ParseKeeps, siteAppVars, siteReconVars
  <2>2. NodeEntries' = NodeEntries
    BY <1>24, StampDoes
  <2> QED
    BY <2>1, <2>2, AllEnded, EraseFindsKept
<1>25. CASE UNCHANGED siteVars
  BY <1>1, <1>25 DEF siteVars, siteMaps, siteAppVars, siteReconVars, linkVars, nodeVars,
         siteHist, rowHist
<1> QED
  BY <1>1, <1>2, <1>3, <1>4, <1>5, <1>6, <1>7, <1>8, <1>9, <1>10, <1>11, <1>12, <1>13,
     <1>14, <1>15, <1>16, <1>17, <1>18, <1>19, <1>20, <1>21, <1>22, <1>23, <1>24, <1>25 DEF SitesNext, AppStep, SiteReconnectStep,
     SiteParseStep, NodeStep

(* Whether SocketsKept says something. *)
Watched == ~ha /\ ~crossed /\ ~overwritten /\ ~stale

LEMMA FallSocketsKept ==
  ASSUME SocketsKept, LinksFall, Watched' => Watched,
         recon' \in {"site", "try"} => recon \in {"site", "try"},
         \A n \in NodeEntries : n \in NodeEntries' /\ entry'[n].socket = entry[n].socket
  PROVE  SocketsKept'
<1> SUFFICES ASSUME Watched', NEW c \in Links, conn'[c].open
             PROVE  /\ recon' \notin {"site", "try"}
                    /\ conn'[c].node \in NodeEntries' /\ entry'[conn'[c].node].socket = c
  BY DEF SocketsKept, Watched
<1>1. conn[c].open /\ conn'[c].node = conn[c].node
  BY DEF LinksFall
<1>2. /\ recon \notin {"site", "try"}
      /\ conn[c].node \in NodeEntries /\ entry[conn[c].node].socket = c
  BY <1>1 DEF SocketsKept, Watched
<1> QED
  BY <1>1, <1>2

LEMMA MadeSocketsKept ==
  ASSUME NEW i \in SiteInfos, LinkMade(i), recon' \notin {"site", "try"},
         i.host \in NodeEntries', entry'[i.host].socket = linksMade',
         Watched' => \A c \in Links : ~conn[c].open
  PROVE  SocketsKept'
<1> SUFFICES ASSUME Watched', NEW c \in Links, conn'[c].open
             PROVE  /\ recon' \notin {"site", "try"}
                    /\ conn'[c].node \in NodeEntries' /\ entry'[conn'[c].node].socket = c
  BY DEF SocketsKept, Watched
<1>1. c = linksMade'
  BY DEF LinkMade
<1> QED
  BY <1>1 DEF LinkMade

(* The connection that is open is the one the entry has. *)
LEMMA SocketsKeptNext ==
  ASSUME SitesInv, [SitesNext]_siteVars
  PROVE  SocketsKept'
<1>1. ASSUME UNCHANGED <<given, crossed, overwritten, stale, conn, recon, entry>> PROVE SocketsKept'
  BY <1>1, InvParts DEF SocketsKept, ha, NodeEntries, Entries
<1>2. ASSUME CheckServerVersion \/ UnsubscribeSite \/ SubscribeIsRedirected \/
             LeaderRedirects \/ InitTimesOut
      PROVE  UNCHANGED <<given, crossed, overwritten, stale, conn, recon, entry>>
  BY <1>2 DEF CheckServerVersion, AppKeeps, UnsubscribeSite, SubscribeIsRedirected,
         LeaderRedirects, ReconKeeps, InitTimesOut, siteMaps, siteAppVars, siteReconVars,
         linkVars, nodeVars, siteHist, rowHist
<1>3. ASSUME NEW t \in Topics, PassOver(t) \/ GiveUp(t)
      PROVE  UNCHANGED <<given, crossed, overwritten, stale, conn, recon, entry>>
  BY <1>3 DEF PassOver, ReconKeeps, GiveUp, siteMaps, siteAppVars, siteReconVars, linkVars,
         nodeVars, siteHist, rowHist
<1>4. ASSUME NEW n \in Nodes, LeaderFails(n) \/ NodeReturns(n) \/ Elect(n)
      PROVE  UNCHANGED <<given, crossed, overwritten, stale, conn, recon, entry>>
  BY <1>4 DEF LeaderFails, ReconKeeps, NodeReturns, NodesKeep, Elect, siteMaps, siteAppVars,
         siteReconVars, linkVars, nodeVars, siteHist, rowHist
<1>5. ASSUME Subscribes PROVE SocketsKept'
  <2>1. PICK i \in SiteInfos :
               /\ LinkMade(NewInfo(appHost)) /\ linksMade = 0 /\ Entries' = {appHost}
               /\ entry'[appHost] = i /\ i.socket = linksMade' /\ appHost \in Nodes
    BY <1>5, SubscribesDoes
  <2>2. NewInfo(appHost) \in SiteInfos /\ NewInfo(appHost).host = appHost
    BY <2>1, InvParts, ControlParts, NewInfoFields DEF AppControl
  <2>3. recon' = "sleep"
    BY <1>5, NobodyYet DEF Subscribes, AppKeeps, siteReconVars
  <2>4. appHost \in NodeEntries'
    BY <2>1, Numbers DEF NodeEntries
  <2> QED
    BY <2>1, <2>2, <2>3, <2>4, NoLinkYet, MadeSocketsKept
<1>6. ASSUME SiteSubscribeFails PROVE SocketsKept'
  <2>1. linksMade = 0 /\ conn' = conn
    BY <1>6, SubscribeFailsDoes DEF SiteSubscribeFails, linkVars
  <2> QED
    BY <2>1, NoLinkYet DEF SocketsKept
<1>7. ASSUME AddSiteHandleThread PROVE SocketsKept'
  <2>1. UNCHANGED <<given, crossed, overwritten, stale, conn, recon, linksMade>>
    BY <1>7 DEF AddSiteHandleThread, AppKeeps, linkVars, siteHist, siteReconVars
  <2>2. NodeEntries' = NodeEntries /\ \A t \in NodeEntries : entry'[t].socket = entry[t].socket
    BY <1>7, AddThreadDoes, InvParts DEF NodeEntries
  <2> QED
    BY <2>1, <2>2, InvParts, FallSocketsKept DEF Watched, ha, LinksFall
<1>8. ASSUME EraseTopic PROVE SocketsKept'
  <2> SUFFICES ASSUME Watched', NEW c \in Links, conn'[c].open PROVE FALSE
    BY DEF SocketsKept, Watched
  <2>1. UNCHANGED <<given, overwritten, stale>>
    BY <1>8 DEF EraseTopic, AppKeeps
  <2>2. ~crossed /\ appTopic \in Entries /\ app = "erase"
    BY <1>8, EraseDoes DEF Watched
  <2>3. /\ conn[c].open /\ c # entry[appTopic].socket
    BY <1>8, <2>2, EraseDoes DEF LinksFall
  <2>4. conn[c].node \in NodeEntries /\ entry[conn[c].node].socket = c
    BY <2>1, <2>2, <2>3, InvParts DEF SocketsKept, Watched, ha
  <2>5. Entries \subseteq {topic, Unknown} /\ appTopic = topic
    BY <2>1, <2>2, InvParts DEF OneEntry, EraseFinds, Watched
  <2>6. conn[c].node = appTopic
    BY <2>4, <2>5 DEF NodeEntries
  <2> QED
    BY <2>3, <2>4, <2>6
<1>9. ASSUME NEW t \in Topics, Visit(t) PROVE SocketsKept'
  <2> SUFFICES ASSUME Watched', NEW c \in Links, conn'[c].open PROVE FALSE
    BY DEF SocketsKept, Watched
  <2>1. UNCHANGED <<given, overwritten, crossed, conn>> /\ ~stale /\ ~HasConnection(t)
    BY <1>9 DEF Visit, ReconKeeps, Watched, linkVars
  <2>2. conn[c].node \in NodeEntries
    BY <2>1, InvParts DEF SocketsKept, Watched, ha
  <2>3. conn[c].node = t
    BY <1>9, <2>2, VisitDoes
  <2> QED
    BY <2>1, <2>3 DEF HasConnection
<1>10. ASSUME NextSite PROVE SocketsKept'
  <2> SUFFICES ASSUME Watched', NEW c \in Links, conn'[c].open PROVE FALSE
    BY DEF SocketsKept, Watched
  <2>1. UNCHANGED <<given, stale, crossed, conn>> /\ ~overwritten /\ recon = "site"
    BY <1>10 DEF NextSite, ReconKeeps, Watched, linkVars
  <2> QED
    BY <2>1, InvParts DEF SocketsKept, Watched, ha
<1>11. ASSUME SiteAnswers PROVE SocketsKept'
  <2>1. PICK i \in SiteInfos, n \in Nodes :
               /\ n = info.host /\ LinkMade(info) /\ NodeEntries' = {n}
               /\ entry'[n] = i /\ i.socket = linksMade'
               /\ (~overwritten' => ~overwritten) /\ (~crossed' => ~crossed)
    BY <1>11, SiteAnswersDoes
  <2>2. recon = "try" /\ recon' = "round" /\ UNCHANGED <<given, stale>> /\ info \in SiteInfos
    BY <1>11, InvParts, CopyFields DEF SiteAnswers, ReconKeeps
  <2>3. Watched' => \A c \in Links : ~conn[c].open
    BY <2>1, <2>2, InvParts DEF SocketsKept, Watched, ha
  <2> QED
    BY <2>1, <2>2, <2>3, MadeSocketsKept
<1>12. ASSUME LeaderAnswers PROVE SocketsKept'
  <2>1. ha /\ given' = given
    BY <1>12, LeaderAnswersDoes DEF LeaderAnswers, ReconKeeps
  <2> QED
    BY <2>1 DEF SocketsKept, ha
<1>13. ASSUME InitResubConnects PROVE SocketsKept'
  <2>1. PICK i \in SiteInfos, n \in Nodes :
               /\ n = info.host /\ LinkMade(info) /\ NodeEntries' = {n} /\ linksMade = 0
               /\ entry'[n] = i /\ i.socket = linksMade'
    BY <1>13, InitConnectsDoes
  <2>2. recon' = "sleep" /\ info \in SiteInfos
    BY <1>13, InvParts, CopyFields DEF InitResubConnects
  <2> QED
    BY <2>1, <2>2, NoLinkYet, MadeSocketsKept
<1>14. ASSUME NEW c \in Links, ReceiveRow(c) PROVE SocketsKept'
  <2>1. UNCHANGED <<given, crossed, overwritten, stale, recon>>
    BY <1>14 DEF ReceiveRow, ParseKeeps, siteReconVars
  <2>2. NodeEntries' = NodeEntries /\ \A u \in NodeEntries : entry'[u].socket = entry[u].socket
    BY <1>14, ReceiveRowDoes DEF NodeEntries
  <2>3. \A d \in Links : conn'[d].node = conn[d].node /\ (conn'[d].open => conn[d].open)
    BY <1>14, ReceiveRowDoes
  <2> QED
    BY <2>1, <2>2, <2>3, InvParts DEF SocketsKept, ha
<1>15. ASSUME NEW c \in Links, ReceiveSchema(c) PROVE SocketsKept'
  <2>1. LinksFall
    BY <1>15, InvParts, SchemaDoes
  <2>2. UNCHANGED <<given, crossed, overwritten, stale, recon, entry>>
    BY <1>15 DEF ReceiveSchema, ParseKeeps, NodesKeep, siteMaps, siteHist, siteReconVars
  <2> QED
    BY <2>1, <2>2, InvParts, FallSocketsKept DEF Watched, ha, NodeEntries, Entries
<1>16. ASSUME NEW c \in Links, Lose(c) PROVE SocketsKept'
  <2>1. LinksFall
    BY <1>16, InvParts, LoseDoes
  <2>2. UNCHANGED <<given, crossed, overwritten, stale, recon, entry>>
    BY <1>16 DEF Lose, ParseKeeps, NodesKeep, siteMaps, siteHist, siteReconVars
  <2> QED
    BY <2>1, <2>2, InvParts, FallSocketsKept DEF Watched, ha, NodeEntries, Entries
<1>17. ASSUME NEW c \in Links, MarkSite(c) PROVE SocketsKept'
  <2>1. LinksFall
    BY <1>17, InvParts, MarkDoes
  <2>2. UNCHANGED <<given, crossed, overwritten, stale, recon, entry>>
    BY <1>17 DEF MarkSite, ParseKeeps, NodesKeep, siteMaps, siteHist, siteReconVars
  <2> QED
    BY <2>1, <2>2, InvParts, FallSocketsKept DEF Watched, ha, NodeEntries, Entries
<1>18. ASSUME NEW n \in Nodes, NodeFails(n) PROVE SocketsKept'
  <2>1. LinksFall
    BY <1>18, InvParts, NodeFailsDoes
  <2>2. UNCHANGED <<given, crossed, overwritten, stale, recon, entry>>
    BY <1>18 DEF NodeFails, ParseKeeps, NodesKeep, siteMaps, siteHist, siteReconVars
  <2> QED
    BY <2>1, <2>2, InvParts, FallSocketsKept DEF Watched, ha, NodeEntries, Entries
<1>19. ASSUME NEW c \in Links, LinkFails(c) PROVE SocketsKept'
  <2>1. LinksFall
    BY <1>19, InvParts, LinkFailsDoes
  <2>2. UNCHANGED <<given, crossed, overwritten, stale, recon, entry>>
    BY <1>19 DEF LinkFails, ParseKeeps, NodesKeep, siteMaps, siteHist, siteReconVars
  <2> QED
    BY <2>1, <2>2, InvParts, FallSocketsKept DEF Watched, ha, NodeEntries, Entries
<1>20. ASSUME BeginRound PROVE SocketsKept'
  <2>1. /\ UNCHANGED <<given, crossed, overwritten, stale, conn, entry>>
        /\ recon' \in {"site", "try"} => recon \in {"site", "try"}
    BY <1>20 DEF BeginRound, ReconKeeps, siteMaps, siteHist, linkVars
  <2> QED
    BY <2>1, InvParts DEF SocketsKept, ha, NodeEntries, Entries
<1>21. ASSUME SiteFails PROVE SocketsKept'
  <2>1. /\ UNCHANGED <<given, crossed, overwritten, stale, conn, entry>>
        /\ recon' \in {"site", "try"} => recon \in {"site", "try"}
    BY <1>21 DEF SiteFails, ReconKeeps, siteMaps, siteHist, linkVars
  <2> QED
    BY <2>1, InvParts DEF SocketsKept, ha, NodeEntries, Entries
<1>22. ASSUME LeaderNotFound PROVE SocketsKept'
  <2>1. /\ UNCHANGED <<given, crossed, overwritten, stale, conn, entry>>
        /\ recon' \in {"site", "try"} => recon \in {"site", "try"}
    BY <1>22 DEF LeaderNotFound, ReconKeeps, siteMaps, siteHist, linkVars
  <2> QED
    BY <2>1, InvParts DEF SocketsKept, ha, NodeEntries, Entries
<1>23. ASSUME EndRound PROVE SocketsKept'
  <2>1. /\ UNCHANGED <<given, crossed, overwritten, stale, conn, entry>>
        /\ recon' \in {"site", "try"} => recon \in {"site", "try"}
    BY <1>23 DEF EndRound, ReconKeeps, siteMaps, siteHist, linkVars
  <2> QED
    BY <2>1, InvParts DEF SocketsKept, ha, NodeEntries, Entries
<1>24. ASSUME VisitInitSite PROVE SocketsKept'
  <2>1. /\ UNCHANGED <<given, crossed, overwritten, stale, conn, entry>>
        /\ recon' \in {"site", "try"} => recon \in {"site", "try"}
    BY <1>24 DEF VisitInitSite, ReconKeeps, siteMaps, siteHist, linkVars
  <2> QED
    BY <2>1, InvParts DEF SocketsKept, ha, NodeEntries, Entries
<1>25. ASSUME InitResubFails PROVE SocketsKept'
  <2>1. /\ UNCHANGED <<given, crossed, overwritten, stale, conn, entry>>
        /\ recon' \in {"site", "try"} => recon \in {"site", "try"}
    BY <1>25 DEF InitResubFails, ReconKeeps, siteMaps, siteHist, linkVars
  <2> QED
    BY <2>1, InvParts DEF SocketsKept, ha, NodeEntries, Entries
<1>26. ASSUME NEW c \in Links, StampSite(c) PROVE SocketsKept'
  <2>1. /\ LinksFall /\ NodeEntries' = NodeEntries
        /\ \A t \in NodeEntries : entry'[t].socket = entry[t].socket
    BY <1>26, StampDoes DEF NodeEntries
  <2>2. UNCHANGED <<given, crossed, overwritten, stale, recon>>
    BY <1>26 DEF StampSite, ParseKeeps, siteReconVars
  <2> QED
    BY <2>1, <2>2, InvParts, FallSocketsKept DEF Watched, ha
<1>27. CASE UNCHANGED siteVars
  BY <1>1, <1>27 DEF siteVars, siteMaps, siteAppVars, siteReconVars, linkVars, nodeVars,
         siteHist, rowHist
<1> QED
  BY <1>1, <1>2, <1>3, <1>4, <1>5, <1>6, <1>7, <1>8, <1>9, <1>10, <1>11, <1>12, <1>13,
     <1>14, <1>15, <1>16, <1>17, <1>18, <1>19, <1>20, <1>21, <1>22, <1>23, <1>24, <1>25,
     <1>26, <1>27 DEF SitesNext, AppStep, SiteReconnectStep,
     SiteParseStep, NodeStep

-----------------------------------------------------------------------------
(* The invariant holds at first, ... *)
LEMMA SitesInitInv == SitesInit => SitesInv
<1> SUFFICES ASSUME SitesInit PROVE SitesInv
  OBVIOUS
<1>1. /\ given \in SiteLists /\ subOnce \in BOOLEAN
      /\ leader \in Nodes \cup {NoNode} /\ up = Nodes
      /\ live = {} /\ marked = {} /\ initSites = <<>> /\ toVisit = {} /\ left = {}
      /\ siteCnt = [t \in Topics |-> 0] /\ topic = NoTopic
      /\ app = "new" /\ appHost = 1 /\ recon = "sleep" /\ info = NoEntry
      /\ linksMade = 0 /\ parse = [c \in Links |-> "none"] /\ conn = [c \in Links |-> NoConn]
      /\ awaited = 0 /\ inOrder = TRUE /\ crossed = FALSE
  BY DEF SitesInit, NoInfo
<1>2. entry = [t \in Topics |-> NoEntry]
  BY DEF SitesInit
<1>3. Entries = {} /\ NodeEntries = {}
  BY <1>2, NobodySubscribed DEF Entries, NodeEntries
<1>4. \A c \in Links : ~conn[c].open /\ parse[c] = "none"
  BY <1>1 DEF NoConn
<1>5. InfoTypes
  BY <1>2 DEF InfoTypes
<1>6. MapTypes /\ CopyTypes /\ InitTypes /\ MarkTypes /\ NodeTypes /\ ParseTypes
  BY <1>1 DEF MapTypes, CopyTypes, InitTypes, MarkTypes, NodeTypes, ParseTypes
<1>7. LinkTypeOK
  BY <1>1, Numbers DEF LinkTypeOK, NoConn
<1>8. AppControl /\ ReconControl
  BY <1>1, Numbers DEF AppControl, ReconControl, NoInfo, Copies
<1>9. LinkControl
  BY <1>1, <1>4, Numbers DEF LinkControl
<1>10. NothingYet /\ NoSiteYet /\ FirstAttempts
  BY <1>1, <1>3 DEF NothingYet, NoSiteYet, FirstAttempts
<1>11. OneNode
  BY <1>1, <1>3, <1>4 DEF OneNode
<1>12. RowsAwaited
  BY <1>1, <1>3, <1>4 DEF RowsAwaited
<1>13. OneEntry /\ FoundByID
  BY <1>1, <1>3 DEF OneEntry, FoundByID
<1>14. SitesPlaced
  BY <1>1, <1>3 DEF SitesPlaced
<1>15. EraseFinds /\ SocketsKept
  BY <1>1, <1>4 DEF EraseFinds, SocketsKept
<1> QED
  BY <1>5, <1>6, <1>7, <1>8, <1>9, <1>10, <1>11, <1>12, <1>13, <1>14, <1>15,
     InvParts, ControlParts

(* ... and every step keeps every part of it.                               *)
LEMMA SitesInvNext == SitesInv /\ [SitesNext]_siteVars => SitesInv'
<1> SUFFICES ASSUME SitesInv, [SitesNext]_siteVars PROVE SitesInv'
  OBVIOUS
<1>1. InfoTypes' /\ MapTypes' /\ CopyTypes' /\ InitTypes' /\ MarkTypes' /\ NodeTypes'
  BY MapTypesNext, CopyTypesNext, InitTypesNext, MarkTypesNext, NodeTypesNext
<1>2. LinkTypeOK' /\ ParseTypes'
  BY LinkTypesNext
<1>3. SitesControl'
  BY AppControlNext, ReconControlNext, LinkControlNext
  DEF SitesControl, AppControl, ReconControl, LinkControl
<1>4. NothingYet' /\ NoSiteYet' /\ FirstAttempts'
  BY NothingYetNext, NoSiteYetNext, FirstAttemptsNext
<1>5. OneNode' /\ FoundByID' /\ RowsAwaited' /\ OneEntry'
  BY OneNodeNext, FoundByIDNext, RowsAwaitedNext, OneEntryNext
<1>6. SitesPlaced'
  BY EntriesPlacedNext, CopyPlacedNext, InitPlacedNext
  DEF SitesPlaced, EntriesPlaced, CopyPlaced, InitPlaced
<1>7. EraseFinds' /\ SocketsKept'
  BY EraseFindsNext, SocketsKeptNext
<1>8. SitesTypeOK'
  BY <1>1, <1>2
  DEF SitesTypeOK, InfoTypes, MapTypes, CopyTypes, InitTypes, MarkTypes, NodeTypes, ParseTypes
<1> QED
  BY <1>2, <1>3, <1>4, <1>5, <1>6, <1>7, <1>8 DEF SitesInv

(* The sites of every entry of a node are placed, the entry and the         *)
(* connection of a node await the same row, an attempt and a call to        *)
(* unsubscribe() that do not cross find what the other left, and a          *)
(* connection that is open is the one its entry has: for any number of      *)
(* nodes, sites, connections, rows and failures.                            *)
THEOREM SitesInvCorrect == SitesSpec => []SitesInv
<1>1. SitesInit => SitesInv
  BY SitesInitInv
<1>2. SitesInv /\ [SitesNext]_siteVars => SitesInv'
  BY SitesInvNext
<1> QED
  BY <1>1, <1>2, PTL DEF SitesSpec

(* What the invariant says of the rows, the entries, the sites and what     *)
(* remains after unsubscribe().                                             *)
LEMMA SitesImply == SitesInv => SitesKept
<1> SUFFICES ASSUME SitesInv PROVE SitesKept
  OBVIOUS
<1>1. SitesTypeOK /\ FoundByID /\ OneEntry
  BY DEF SitesInv
<1>2. RowsContinue
  BY DEF SitesInv, RowsAwaited, RowsContinue
<1>3. SitesRemain
  <2> SUFFICES ASSUME NEW t \in NodeEntries, ~ha
               PROVE  /\ entry[t].current \in 0 .. Len(entry[t].sites) - 1
                      /\ entry[t].last \in -1 .. Len(entry[t].sites) - 1
                      /\ IsInjective(given) =>
                           Range(entry[t].sites) = Range(given) \ IF subOnce THEN left ELSE {}
    BY DEF SitesRemain, NodeEntries
  <2>1. SitesOf(entry[t], t)
    BY InvParts, PlacedParts DEF EntriesPlaced
  <2>2. subOnce \in BOOLEAN
    BY InvParts, ControlParts DEF AppControl
  <2>3. CASE subOnce
    BY <2>1, <2>3 DEF SitesOf
  <2>4. CASE ~subOnce
    BY <2>1, <2>4 DEF SitesOf
  <2> QED
    BY <2>2, <2>3, <2>4
<1>4. NothingRemains
  <2> SUFFICES ASSUME app = "ended", ~crossed, ~overwritten, ~stale
               PROVE  /\ Entries \subseteq {Unknown}
                      /\ ha \/ \A c \in Links : ~conn[c].open
    BY DEF NothingRemains
  <2>1. NodeEntries = {}
    BY InvParts DEF EraseFinds
  <2>2. Entries \subseteq {Unknown}
    BY <2>1 DEF NodeEntries
  <2>3. ~ha => \A c \in Links : ~conn[c].open
    BY <2>1, InvParts DEF SocketsKept
  <2> QED
    BY <2>2, <2>3
<1> QED
  BY <1>1, <1>2, <1>3, <1>4 DEF SitesKept

(* Whichever site or leader a subscription moves to, in whatever order the  *)
(* reconnect thread, the parse threads and the application go: its rows are *)
(* consecutive, it has the one entry its ID leads to, its sites are those   *)
(* that remain, and after unsubscribe() none of its entries does.           *)
THEOREM SitesKeptCorrect == SitesSpec => []SitesKept
BY SitesInvCorrect, SitesImply, PTL
=============================================================================
