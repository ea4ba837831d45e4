--------------------------- MODULE EventDelivery ---------------------------
(***************************************************************************)
(* The way of an event from a handler to the handler of the consumer:      *)
(* EventProducer.publish and EventConsumer of app/services/events, run by  *)
(* scripts/event_consumer.py, around a Kafka topic.  The process that      *)
(* publishes is that of ServiceContainer; each request publishes one event *)
(* and gives it its name.                                                  *)
(*                                                                         *)
(* The producer sends again when no acknowledgement comes, so that an      *)
(* event may be appended twice.  The consumer commits the position it has  *)
(* read to every few seconds, also while the event in hand is still being  *)
(* handled.                                                                *)
(***************************************************************************)
EXTENDS ServiceContainer, FiniteSets

CONSTANTS
  Partitions   \* partitions of the topic

EventFaultKinds == {"start", "replica",
                    "ack",      \* an acknowledgement is lost
                    "handler",  \* a handler of the consumer raises
                    "consumer"} \* the consumer dies, or is stopped

ASSUME EventFaultsAssumption == Faults \subseteq EventFaultKinds

VARIABLES
  partitionOf, \* the partition each event's key is hashed to
  log,         \* the partitions: the events, each with those acknowledged before
  outcome,     \* what publish returned
  consumer,    \* EventConsumer: is it running, and the message in hand
  position,    \* the offset up to which each partition was read
  committed,   \* the offset a new consumer starts from
  handled,     \* history: how often each event was handled
  failed,      \* history: events whose handler raised
  cut,         \* history: events in hand, and committed, when the consumer ended
  crashes      \* history: ends of the consumer without a commit

logVars      == <<partitionOf, log, outcome>>
consumerVars == <<consumer, position, committed, handled, failed, cut, crashes>>
vars         == <<containerVars, logVars, consumerVars>>

Nothing == [partition |-> None, offset |-> 0]
Down    == [up |-> FALSE, hand |-> Nothing]

Offsets(p) == DOMAIN log[p]
Places     == UNION {{p} \X Offsets(p) : p \in Partitions}
Copies(e)  == {m \in Places : log[m[1]][m[2]].event = e}
EventAt(m) == log[m.partition][m.offset].event
Accounted  == {e \in Requests : handled[e] > 0} \cup failed \cup cut

EventInit ==
  /\ partitionOf \in [Requests -> Partitions]
  /\ log = [p \in Partitions |-> <<>>]
  /\ outcome = [e \in Requests |-> "none"]
  /\ consumer = Down
  /\ position = [p \in Partitions |-> 0]
  /\ committed = [p \in Partitions |-> 0]
  /\ handled = [e \in Requests |-> 0]
  /\ failed = {}
  /\ cut = {}
  /\ crashes = 0

Init == ContainerInit /\ EventInit
-----------------------------------------------------------------------------
(***************************************************************************)
(* The producer: send_and_wait                                             *)
(***************************************************************************)
Message(r) == [event |-> r, after |-> {e \in Requests : outcome[e] = "acked"}]

\* Mutant: the message has no key, and goes to any partition.
AppendAnywhere(r) ==
  /\ call[r].at = "send"
  /\ Copies(r) = {}
  /\ \E p \in Partitions : log' = [log EXCEPT ![p] = Append(@, Message(r))]
  /\ UNCHANGED <<containerVars, partitionOf, outcome, consumerVars>>

AppendEvent(r) ==
  /\ call[r].at = "send"
  /\ outcome[r] = "none"
  /\ Copies(r) = {}
  /\ log' = [log EXCEPT ![partitionOf[r]] = Append(@, Message(r))]
  /\ UNCHANGED <<containerVars, partitionOf, outcome, consumerVars>>

\* The client sends the same message again when no acknowledgement came in time.
AppendAgain(r) ==
  /\ outcome[r] = "none"
  /\ Trouble("ack")
  /\ \E m \in Copies(r) : log' = [log EXCEPT ![m[1]] = Append(@, log[m[1]][m[2]])]
  /\ UNCHANGED <<container, startVars, producerVars, call, partitionOf, outcome, consumerVars>>

Acknowledge(r) ==
  /\ outcome[r] = "none"
  /\ Copies(r) # {}
  /\ outcome' = [outcome EXCEPT ![r] = "acked"]
  /\ UNCHANGED <<containerVars, partitionOf, log, consumerVars>>

\* publish swallows the error; the event may have been appended.
SendFails(r) ==
  /\ call[r].at = "send"
  /\ outcome[r] = "none"
  /\ Trouble("ack")
  /\ outcome' = [outcome EXCEPT ![r] = "refused"]
  /\ UNCHANGED <<container, startVars, producerVars, call, partitionOf, log, consumerVars>>
-----------------------------------------------------------------------------
(***************************************************************************)
(* The consumer                                                            *)
(***************************************************************************)
StartConsumer ==
  /\ ~consumer.up
  /\ consumer' = [Down EXCEPT !.up = TRUE]
  /\ position' = committed
  /\ UNCHANGED <<containerVars, logVars, committed, handled, failed, cut, crashes>>

\* Mutant: the last message of a partition is left alone.
TakeAllButLast(p) ==
  /\ consumer.up
  /\ consumer.hand = Nothing
  /\ position[p] + 1 < Len(log[p])
  /\ position' = [position EXCEPT ![p] = @ + 1]
  /\ consumer' = [consumer EXCEPT !.hand = [partition |-> p, offset |-> position[p] + 1]]
  /\ UNCHANGED <<containerVars, logVars, committed, handled, failed, cut, crashes>>

\* The loop of consume takes the next message of some partition.
Take(p) ==
  /\ consumer.up
  /\ consumer.hand = Nothing
  /\ position[p] < Len(log[p])
  /\ position' = [position EXCEPT ![p] = @ + 1]
  /\ consumer' = [consumer EXCEPT !.hand = [partition |-> p, offset |-> position[p] + 1]]
  /\ UNCHANGED <<containerVars, logVars, committed, handled, failed, cut, crashes>>

Handle ==
  /\ consumer.hand # Nothing
  /\ handled' = [handled EXCEPT ![EventAt(consumer.hand)] = @ + 1]
  /\ consumer' = [consumer EXCEPT !.hand = Nothing]
  /\ UNCHANGED <<containerVars, logVars, position, committed, failed, cut, crashes>>

\* _route_event logs the error and the loop goes on.
HandlerFails ==
  /\ consumer.hand # Nothing
  /\ "handler" \in Faults
  /\ failed' = failed \cup {EventAt(consumer.hand)}
  /\ consumer' = [consumer EXCEPT !.hand = Nothing]
  /\ UNCHANGED <<containerVars, logVars, position, committed, handled, cut, crashes>>

\* Mutant: what was fetched is committed, read or not.
CommitFetched ==
  /\ consumer.up
  /\ committed' = [p \in Partitions |-> Len(log[p])]
  /\ UNCHANGED <<containerVars, logVars, consumer, position, handled, failed, cut, crashes>>

\* The timer of enable_auto_commit.
Commit ==
  /\ consumer.up
  /\ committed # position
  /\ committed' = position
  /\ UNCHANGED <<containerVars, logVars, consumer, position, handled, failed, cut, crashes>>

\* What becomes of the message in hand when offsets up to these are committed.
CutOff(offsets) ==
  IF consumer.hand # Nothing /\ consumer.hand.offset <= offsets[consumer.hand.partition]
  THEN {EventAt(consumer.hand)} ELSE {}

CrashConsumer ==
  /\ consumer.up
  /\ Trouble("consumer")
  /\ consumer' = Down
  /\ cut' = cut \cup CutOff(committed)
  /\ crashes' = crashes + 1
  /\ UNCHANGED <<container, startVars, producerVars, call, logVars, position, committed,
                 handled, failed>>

\* Mutant: the consumer is closed without a last commit.
StopConsumerUncommitted ==
  /\ consumer.up
  /\ Trouble("consumer")
  /\ consumer' = Down
  /\ cut' = cut \cup CutOff(committed)
  /\ UNCHANGED <<container, startVars, producerVars, call, logVars, position, committed,
                 handled, failed, crashes>>

\* An interrupt cancels the loop wherever it waits; stop() commits a last time.
StopConsumer ==
  /\ consumer.up
  /\ Trouble("consumer")
  /\ consumer' = Down
  /\ committed' = position
  /\ cut' = cut \cup CutOff(position)
  /\ UNCHANGED <<container, startVars, producerVars, call, logVars, position, handled,
                 failed, crashes>>
-----------------------------------------------------------------------------
ProcessStep == ProcessNext /\ UNCHANGED <<logVars, consumerVars>>

SendStep ==
  \E r \in Requests : \/ AppendEvent(r) \/ AppendAgain(r) \/ Acknowledge(r) \/ SendFails(r)

LoopStep == (\E p \in Partitions : Take(p)) \/ Handle \/ HandlerFails

Next ==
  \/ ProcessStep \/ SendStep
  \/ StartConsumer \/ LoopStep \/ Commit \/ CrashConsumer \/ StopConsumer

Spec == Init /\ [][Next]_vars

\* The loop of a consumer that runs goes on.  Nobody has to start one.
FairSpec == Spec /\ WF_vars(LoopStep)
-----------------------------------------------------------------------------
(***************************************************************************)
(* Properties                                                              *)
(***************************************************************************)
TypeOK ==
  /\ ContainerTypeOK
  /\ \A c \in Coroutines : call[c].at \in Steps
  /\ partitionOf \in [Requests -> Partitions]
  /\ log \in [Partitions -> Seq([event : Requests, after : SUBSET Requests])]
  /\ outcome \in [Requests -> {"none", "acked", "refused"}]
  /\ consumer.up \in BOOLEAN
  /\ consumer.hand = Nothing \/ consumer.hand.offset \in Offsets(consumer.hand.partition)
  /\ \A p \in Partitions : position[p] \in 0..Len(log[p]) /\ committed[p] \in 0..Len(log[p])
  /\ handled \in [Requests -> Nat]
  /\ failed \subseteq Requests /\ cut \subseteq Requests
  /\ crashes \in 0..troubles

\* An event whose offset was committed was handled, or is in hand, or its
\* handler raised, or it was in hand when the consumer ended: nothing else is
\* ever lost between the log and a handler (EventConsumer.consume and stop).
CommittedIsAccounted ==
  \A p \in Partitions : \A i \in 1..committed[p] :
    \/ log[p][i].event \in Accounted
    \/ consumer.hand = [partition |-> p, offset |-> i]

\* A handler sees an event again only for a second copy in the log, or after
\* a crash; stopping the consumer repeats nothing (EventConsumer.stop).
RepeatsAreExplained ==
  \A e \in Requests : handled[e] <= Cardinality(Copies(e)) * (1 + crashes)

\* Events whose keys share a partition are handled in the order in which they
\* were published, through repetitions and restarts: the first time an event
\* is handled, those acknowledged before it was sent are accounted for.  The
\* key is the event's own id, so that nothing is said of the events of one
\* document (EventProducer.publish).
OneKeyIsInOrder ==
  \A p \in Partitions : \A i \in Offsets(p) :
    log[p][i].event \in Accounted =>
      {e \in log[p][i].after : partitionOf[e] = partitionOf[log[p][i].event]} \subseteq Accounted

\* While a consumer runs, whatever is in the log reaches a handler, also what
\* was logged while none ran, or was read, and not committed, by one before
\* (EventConsumer.consume, auto_offset_reset).
LoggedIsConsumed ==
  \A e \in Requests : Copies(e) # {} /\ consumer.up ~> e \in Accounted \/ ~consumer.up
=============================================================================
