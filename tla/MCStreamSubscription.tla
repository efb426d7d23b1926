------------------------ MODULE MCStreamSubscription ------------------------
(* Instances of StreamSubscription for TLC. *)
EXTENDS StreamSubscription, TLC

CONSTANTS h1, h2

NoneOrFirst == {-1, 0}

=============================================================================
