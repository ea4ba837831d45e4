-------------------------- MODULE MCEventDelivery --------------------------
(* An instance of EventDelivery for TLC. *)
EXTENDS EventDelivery, TLC

CONSTANTS
  upload, ask, search,
  EventTroubles  \* bound: failures while events are on their way

AllFaults == EventFaultKinds

\* An upload, a question and a search, by the services their endpoints depend on.
EachNeeds == (upload :> <<"storage">>) @@ (ask :> <<"vectors", "embedding">>)
               @@ (search :> <<"embedding", "vectors">>)

\* The bounds: set-up is explored with all requests and MaxTroubles failures as
\* long as no event was sent and no consumer started, and everything else with
\* those requests that publish and EventTroubles failures.
NothingSent   == log = [p \in Partitions |-> <<>>] /\ ~consumer.up /\ committed = position
OnlyPublishers == \A r \in Searches : call[r].at = "idle"
Bounded == NothingSent \/ (OnlyPublishers /\ troubles <= EventTroubles)

\* A search publishes nothing, so that its partition does not matter.
MCInit == Init /\ \A r \in Searches : partitionOf[r] = CHOOSE p \in Partitions : TRUE
MCSpec == MCInit /\ [][Next /\ Bounded']_vars /\ WF_vars(LoopStep)
=============================================================================
