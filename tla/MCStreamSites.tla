--------------------------- MODULE MCStreamSites ---------------------------
(***************************************************************************)
(* Subscriptions for TLC: those of one topic with their threads, queues    *)
(* and handlers, and one that may move between nodes.  They share nothing, *)
(* so that a behaviour is one of either: of the other one it shows an      *)
(* initial state, in which no action of the fairness is enabled.           *)
(***************************************************************************)
EXTENDS StreamSubscription, StreamSites

CONSTANTS
  h1, h2

VARIABLE part        \* "topic" or "sites"

NoneOrFirst == {-1, 0}

(* A highly available table, one backup site, and two.                      *)
NoneToTwo == {<<>>, <<1, 2>>, <<1, 2, 3>>}

EitherInit ==
  /\ part \in {"topic", "sites"}
  /\ Init
  /\ SitesInit
  /\ part = "topic" => given = <<1, 2>> /\ ~subOnce

EitherNext ==
  /\ UNCHANGED part
  /\ \/ part = "topic" /\ Next /\ UNCHANGED siteVars
     \/ part = "sites" /\ SitesNext /\ UNCHANGED vars

EitherSpec == EitherInit /\ [][EitherNext]_<<part, vars, siteVars>>

EitherFairSpec == EitherSpec /\ Fairness /\ SitesFairness
=============================================================================
