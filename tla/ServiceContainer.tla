-------------------------- MODULE ServiceContainer --------------------------
(***************************************************************************)
(* The service container of one API process: Services.init of              *)
(* app/core/services.py, the dependencies that call it again when a        *)
(* service is missing (app/dependencies.py), and the producer that is      *)
(* connected by init or by the first publish (EventProducer).              *)
(*                                                                         *)
(* init assigns a service and then awaits its start, so that other         *)
(* coroutines run in between, find the service assigned, and use it before *)
(* its model, bucket or collection is there.  A coroutine goes from one    *)
(* await to the next in a single step.                                     *)
(***************************************************************************)
EXTENDS Integers, Sequences

CONSTANTS
  Requests,    \* requests of the process
  Lifespan,    \* the coroutine that starts the application
  Needs,       \* the services each request depends on, in order
  Searches,    \* the searches: they neither load the model nor publish
  Faults,      \* the kinds of failure that may happen
  MaxTroubles, \* bound: failures
  None

ContainerFaultKinds == {"start",   \* a service cannot be reached, or built
                        "replica"} \* another replica creates the collection

Coroutines == Requests \cup {Lifespan}

\* The services in the order of init; those without an await are left out.
InitOrder == <<"redis", "events", "storage", "embedding", "vectors", "rag">>
Services  == {InitOrder[i] : i \in DOMAIN InitOrder}

ASSUME LifespanAssumption == Lifespan \notin Requests /\ None \notin Coroutines
ASSUME NeedsAssumption ==
  /\ Needs \in [Requests -> Seq({"storage", "embedding", "vectors"})]
  /\ Searches \subseteq Requests
ASSUME TroublesAssumption == MaxTroubles \in Nat

VARIABLES
  container,   \* the fields of Services
  made,        \* what exists: the bucket of storage, the collection of vectors
  attempts,    \* starts of the embedding that failed: numbers its objects
  models,      \* the embedding objects whose model is loaded
  producer,    \* self.producer of the event producer
  initialized, \* its is_initialized
  lock,        \* the coroutine in its _lock
  call,        \* what each coroutine is doing
  troubles     \* history: failures so far

producerVars  == <<producer, initialized, lock>>
startVars     == <<made, attempts, models>>
containerVars == <<container, startVars, producerVars, call, troubles>>

Ended    == {"error", "dropped", "served"}
Awaiting == {"redis", "events", "storage", "embedding", "vectors", "create"}
Steps    == Awaiting \cup Ended \cup {"idle", "up", "deps", "waiting", "connect", "send"}

\* A coroutine: the services it has yet to obtain and has obtained, which object
\* of the embedding, and the troubles before it came.
Call(step, left, before) ==
  [at |-> step, left |-> left, got |-> {}, object |-> 0, before |-> before]

ContainerInit ==
  /\ container = [s \in Services |-> "none"]
  /\ made \in SUBSET {"storage", "vectors"}
  /\ attempts = 0
  /\ models = {}
  /\ producer = "none"
  /\ initialized = FALSE
  /\ lock = None
  /\ call = [c \in Coroutines |-> Call("idle", <<>>, 0)]
  /\ troubles = 0

Goto(c, step) == call' = [call EXCEPT ![c].at = step]

\* What a request had obtained does not matter any more.
Leave(r, step) == call' = [call EXCEPT ![r] = Call(step, <<>>, 0)]

Trouble(kind) ==
  /\ kind \in Faults
  /\ troubles < MaxTroubles
  /\ troubles' = troubles + 1

\* Where init goes on behind one service: to the next that is missing.
Missing(fields, behind) ==
  {i \in DOMAIN InitOrder : i > behind /\ fields[InitOrder[i]] = "none"}
NextMissing(fields, behind) ==
  IF Missing(fields, behind) = {} THEN "end"
  ELSE InitOrder[CHOOSE i \in Missing(fields, behind) :
                   \A j \in Missing(fields, behind) : i <= j]

\* A dependency hands out what the container holds by now, which may be None.
HandOut(r, fields) ==
  LET s == Head(call[r].left)
  IN  call' = [call EXCEPT ![r].at     = "deps",
                           ![r].left   = Tail(@),
                           ![r].got    = IF fields[s] = "none" THEN @ ELSE @ \cup {s},
                           ![r].object = IF s = "embedding" THEN attempts ELSE @]

InitReturns(c, fields) ==
  /\ container' = fields
  /\ IF c = Lifespan THEN Goto(c, "up") ELSE HandOut(c, fields)

\* The rest of init, up to its next await.
Proceed(c, fields, behind) ==
  LET next == NextMissing(fields, behind)
  IN  CASE next = "end" \/ (next = "vectors" /\ fields["embedding"] = "none") ->
             InitReturns(c, fields)
        [] next = "rag" /\ "none" \in {fields["vectors"], fields["embedding"]} ->
             container' = fields /\ Goto(c, "error")
        [] next = "rag" /\ "none" \notin {fields["vectors"], fields["embedding"]} ->
             InitReturns(c, [fields EXCEPT !["rag"] = "set"])
        [] OTHER ->
             container' = [fields EXCEPT ![next] = "starting"] /\ Goto(c, next)

Behind(s) == CHOOSE i \in DOMAIN InitOrder : InitOrder[i] = s

\* The service a coroutine is starting.
InStart(c) == IF call[c].at = "create" THEN "vectors" ELSE call[c].at
-----------------------------------------------------------------------------
\* The application starts: nothing else runs until its init has returned.
Start ==
  /\ call[Lifespan].at = "idle"
  /\ Proceed(Lifespan, container, 0)
  /\ UNCHANGED <<startVars, producerVars, troubles>>

Arrive(r) ==
  /\ call[Lifespan].at = "up"
  /\ call[r].at = "idle"
  /\ call' = [call EXCEPT ![r] = Call("deps", Needs[r], troubles)]
  /\ UNCHANGED <<container, startVars, producerVars, troubles>>

\* get_storage_service and the others: what is there is handed out as it is.
Obtain(r) ==
  /\ call[r].at = "deps"
  /\ call[r].left # <<>>
  /\ container[Head(call[r].left)] # "none"
  /\ HandOut(r, container)
  /\ UNCHANGED <<container, startVars, producerVars, troubles>>

\* Mutant: init returns at once when everything was set up before.
InitAgainUnlessSet(r) ==
  /\ call[r].at = "deps"
  /\ call[r].left # <<>>
  /\ container[Head(call[r].left)] = "none"
  /\ IF container["rag"] = "set" THEN InitReturns(r, container) ELSE Proceed(r, container, 0)
  /\ UNCHANGED <<startVars, producerVars, troubles>>

InitAgain(r) ==
  /\ call[r].at = "deps"
  /\ call[r].left # <<>>
  /\ container[Head(call[r].left)] = "none"
  /\ Proceed(r, container, 0)
  /\ UNCHANGED <<startVars, producerVars, troubles>>

\* The await of a start returns.
Started(c) ==
  /\ call[c].at \in {"redis", "storage", "embedding"}
  /\ Proceed(c, [container EXCEPT ![call[c].at] = "set"], Behind(call[c].at))
  /\ made' = made \cup ({call[c].at} \cap {"storage"})
  /\ models' = models \cup (IF call[c].at = "embedding" THEN {attempts} ELSE {})
  /\ UNCHANGED <<attempts, producerVars, troubles>>

\* The except branch of the vector store asks the embedding service for its
\* dimension before it drops the store: if the embedding was dropped meanwhile
\* init ends with that error, and the store stays assigned.
VectorsFail(c) ==
  IF container["embedding"] = "none" THEN Goto(c, "error") /\ UNCHANGED container
  ELSE Proceed(c, [container EXCEPT !["vectors"] = "none"], Behind("vectors"))

\* What a start that fails may have made.
MayHaveMade(c) ==
  IF call[c].at = "storage" THEN {"storage"}
  ELSE IF call[c].at = "create" THEN {"vectors"} ELSE {}

Failing == {"redis", "storage", "embedding", "vectors", "create"}

\* Mutant: a service that failed to start stays assigned.
StartFailsAssigned(c) ==
  /\ call[c].at \in Failing
  /\ Trouble("start")
  /\ Proceed(c, [container EXCEPT !["redis"] = "set"], Behind(InStart(c)))
  /\ attempts' = attempts + (IF call[c].at = "embedding" THEN 1 ELSE 0)
  /\ UNCHANGED <<made, models, producerVars>>

\* RedisService.initialize swallows the error and the service stays set,
\* disabled; the others are dropped.
StartFails(c) ==
  /\ call[c].at \in Failing
  /\ Trouble("start")
  /\ LET s == InStart(c)
     IN  IF s = "vectors" THEN VectorsFail(c)
         ELSE Proceed(c, [container EXCEPT ![s] = IF s = "redis" THEN "set" ELSE "none"], Behind(s))
  /\ \E more \in SUBSET MayHaveMade(c) : made' = made \cup more
  /\ attempts' = attempts + (IF call[c].at = "embedding" THEN 1 ELSE 0)
  /\ UNCHANGED <<models, producerVars>>

\* _ensure_collection_exists looks for the collection, and creates it.
FindCollection(c) ==
  /\ call[c].at = "vectors"
  /\ IF "vectors" \in made
     THEN Proceed(c, [container EXCEPT !["vectors"] = "set"], Behind("vectors"))
     ELSE Goto(c, "create") /\ UNCHANGED container
  /\ UNCHANGED <<startVars, producerVars, troubles>>

CreateCollection(c) ==
  /\ call[c].at = "create"
  /\ "vectors" \notin made
  /\ made' = made \cup {"vectors"}
  /\ Proceed(c, [container EXCEPT !["vectors"] = "set"], Behind("vectors"))
  /\ UNCHANGED <<attempts, models, producerVars, troubles>>

\* Another replica was faster: Qdrant refuses to create it twice.
CreateConflicts(c) ==
  /\ call[c].at = "create"
  /\ "vectors" \in made
  /\ VectorsFail(c)
  /\ UNCHANGED <<startVars, producerVars, troubles>>

ReplicaCreates ==
  /\ "vectors" \notin made
  /\ Trouble("replica")
  /\ made' = made \cup {"vectors"}
  /\ UNCHANGED <<container, attempts, models, producerVars, call>>
-----------------------------------------------------------------------------
\* The handler of the request runs, with what it has obtained.
Handling(r) == call[r].at = "deps" /\ call[r].left = <<>>

Needed(r)   == {Needs[r][i] : i \in DOMAIN Needs[r]}
Unloaded(r) == "embedding" \in call[r].got /\ call[r].object \notin models

Works(r) ==
  /\ Needed(r) \subseteq call[r].got
  /\ Needed(r) \cap {"storage", "vectors"} \subseteq made
  /\ ~Unloaded(r)

\* A question makes sure that the model is loaded, also while init loads it.
LoadModel(r) ==
  /\ Handling(r)
  /\ r \notin Searches
  /\ Unloaded(r)
  /\ models' = models \cup {call[r].object}
  /\ UNCHANGED <<container, made, attempts, producerVars, call, troubles>>

LoadFails(r) ==
  /\ Handling(r)
  /\ r \notin Searches
  /\ Unloaded(r)
  /\ Trouble("start")
  /\ Leave(r, "error")
  /\ UNCHANGED <<container, startVars, producerVars>>

\* A service is missing, has no bucket or collection, or has no model loaded.
UseFails(r) ==
  /\ Handling(r)
  /\ ~Works(r)
  /\ Unloaded(r) => r \in Searches
  /\ Leave(r, "error")
  /\ UNCHANGED <<container, startVars, producerVars, troubles>>

Serve(r) ==
  /\ Handling(r)
  /\ r \in Searches
  /\ Works(r)
  /\ Leave(r, "served")
  /\ UNCHANGED <<container, startVars, producerVars, troubles>>

\* An upload or a question is done and publishes its event; a question may
\* have been answered from the cache.
Publish(r) ==
  /\ Handling(r)
  /\ r \notin Searches
  /\ Works(r) \/ "embedding" \in Needed(r)
  /\ Leave(r, IF initialized /\ producer # "none" THEN "send" ELSE "waiting")
  /\ UNCHANGED <<container, startVars, producerVars, troubles>>

\* initialize() behind the lock, for a publish or for init.
FindConnected(r) ==
  /\ call[r].at = "waiting"
  /\ lock = None
  /\ initialized
  /\ Goto(r, "send")
  /\ UNCHANGED <<container, startVars, producerVars, troubles>>

Connect(c) ==
  /\ call[c].at \in {"waiting", "events"}
  /\ lock = None
  /\ ~initialized
  /\ lock' = c
  /\ producer' = "starting"
  /\ Goto(c, "connect")
  /\ UNCHANGED <<container, startVars, initialized, troubles>>

Connected(c) ==
  /\ call[c].at = "connect"
  /\ producer' = "up"
  /\ initialized' = TRUE
  /\ lock' = None
  /\ IF c = Lifespan
     THEN Proceed(c, [container EXCEPT !["events"] = "set"], Behind("events"))
     ELSE Goto(c, "send") /\ UNCHANGED container
  /\ UNCHANGED <<startVars, troubles>>

\* Kafka cannot be reached: init goes on, the event of a publish is dropped.
ConnectFails(c) ==
  /\ call[c].at = "connect"
  /\ Trouble("start")
  /\ producer' = "none"
  /\ initialized' = FALSE
  /\ lock' = None
  /\ IF c = Lifespan
     THEN Proceed(c, [container EXCEPT !["events"] = "set"], Behind("events"))
     ELSE Goto(c, "dropped") /\ UNCHANGED container
  /\ UNCHANGED startVars

ContainerStep(c) ==
  \/ Started(c) \/ StartFails(c) \/ FindCollection(c) \/ CreateCollection(c)
  \/ CreateConflicts(c) \/ Connect(c) \/ Connected(c) \/ ConnectFails(c)

RequestStep(r) ==
  \/ Arrive(r) \/ Obtain(r) \/ InitAgain(r) \/ LoadModel(r) \/ LoadFails(r)
  \/ UseFails(r) \/ Serve(r) \/ Publish(r) \/ FindConnected(r)

ProcessNext ==
  \/ Start
  \/ ReplicaCreates
  \/ \E c \in Coroutines : ContainerStep(c)
  \/ \E r \in Requests : RequestStep(r)

ContainerSpec == ContainerInit /\ [][ProcessNext]_containerVars
-----------------------------------------------------------------------------
(***************************************************************************)
(* Properties                                                              *)
(***************************************************************************)
ContainerTypeOK ==
  /\ container \in [Services -> {"none", "starting", "set"}]
  /\ made \subseteq {"storage", "vectors"}
  /\ attempts \in 0..troubles
  /\ models \subseteq 0..attempts
  /\ producer \in {"none", "starting", "up"}
  /\ initialized \in BOOLEAN
  /\ lock \in Coroutines \cup {None}
  /\ troubles \in 0..MaxTroubles

\* Starts one of the services.
IsStarting(c, s) ==
  \/ call[c].at = s
  \/ s = "vectors" /\ call[c].at = "create"
  \/ s = "events" /\ call[c].at = "connect"

\* What a coroutine finds assigned but not started is being started by
\* another: a start that fails leaves nothing half done in the container
\* (Services.init), but for one vector store, and only after both a start of
\* the embedding and its own have failed; nor in the producer, and nobody sends
\* through one that is not connected (EventProducer.initialize, publish).
StartsAreUnderWay ==
  /\ \A s \in Services : container[s] = "starting" =>
       \/ \E c \in Coroutines : IsStarting(c, s)
       \/ s = "vectors" /\ attempts > 0 /\ troubles > attempts
  /\ producer = "starting" => lock # None /\ call[lock].at = "connect"
  /\ lock # None => producer = "starting" /\ ~initialized
  /\ \A r \in Requests : call[r].at = "send" => producer = "up" /\ initialized

\* A request only fails when something has failed since it came, or at a
\* service that it needs and that is assigned but not started at that moment:
\* what was missing when it came has been set up again (Services.init, the
\* dependencies, and their use by the handlers).
FailuresAreExplained ==
  [][\A r \in Requests :
       call[r].at # "error" /\ call'[r].at = "error" =>
         \/ troubles' > call[r].before
         \/ \E s \in Needed(r) : container[s] = "starting"]_containerVars
=============================================================================
