----------------------- MODULE EventDeliveryProofs -----------------------
(***************************************************************************)
(* Proofs about ServiceContainer and EventDelivery, for any requests,      *)
(* dependencies, partitions and faults.                                    *)
(***************************************************************************)
EXTENDS EventDelivery, FiniteSetTheorems, TLAPS

Fields   == [Services -> {"none", "starting", "set"}]
Needable == {"storage", "embedding", "vectors"}

CallType ==
  call \in [Coroutines -> [at : Steps, left : Seq(Needable), got : SUBSET Needable,
                           object : Nat, before : Nat]]

ContainerType == ContainerTypeOK /\ CallType

\* init starts the services in this order.
LEMMA Order ==
  /\ DOMAIN InitOrder = 1..6
  /\ InitOrder[1] = "redis" /\ InitOrder[2] = "events" /\ InitOrder[3] = "storage"
  /\ InitOrder[4] = "embedding" /\ InitOrder[5] = "vectors" /\ InitOrder[6] = "rag"
  /\ Services = {"redis", "events", "storage", "embedding", "vectors", "rag"}
<1>1. DOMAIN InitOrder = 1..6
  BY DEF InitOrder
<1>2. /\ InitOrder[1] = "redis" /\ InitOrder[2] = "events" /\ InitOrder[3] = "storage"
      /\ InitOrder[4] = "embedding" /\ InitOrder[5] = "vectors" /\ InitOrder[6] = "rag"
  BY DEF InitOrder
<1>3. 1..6 = {1, 2, 3, 4, 5, 6}
  OBVIOUS
<1>4. Services = {InitOrder[i] : i \in {1, 2, 3, 4, 5, 6}}
  BY <1>1, <1>3 DEF Services
<1> QED BY <1>1, <1>2, <1>4

LEMMA BehindIs ==
  /\ Behind("redis") = 1 /\ Behind("events") = 2 /\ Behind("storage") = 3
  /\ Behind("embedding") = 4 /\ Behind("vectors") = 5
BY Order DEF Behind

\* NextMissing is the first service behind a place that is not assigned.
LEMMA NextMissingIs ==
  ASSUME NEW fields \in Fields, NEW behind \in 0..5
  PROVE  \/ /\ NextMissing(fields, behind) = "end"
            /\ \A i \in 1..6 : i > behind => fields[InitOrder[i]] # "none"
         \/ \E i \in 1..6 : /\ i > behind
                            /\ NextMissing(fields, behind) = InitOrder[i]
                            /\ fields[InitOrder[i]] = "none"
                            /\ \A j \in 1..6 : j > behind /\ j < i => fields[InitOrder[j]] # "none"
<1> DEFINE M == Missing(fields, behind)
<1>1. M = {i \in 1..6 : i > behind /\ fields[InitOrder[i]] = "none"}
  BY Order DEF Missing
<1>2. CASE M = {}
  BY <1>1, <1>2 DEF NextMissing
<1>3. CASE M # {}
  <2>1. \E i \in M : \A j \in M : i <= j
    <3>1. M \subseteq 1..6
      BY <1>1
    <3> HIDE DEF M
    <3>2. CASE 1 \in M
      BY <3>1, <3>2
    <3>3. CASE 1 \notin M /\ 2 \in M
      BY <3>1, <3>3
    <3>4. CASE M \subseteq 3..6 /\ 3 \in M
      BY <3>4
    <3>5. CASE M \subseteq 4..6 /\ 4 \in M
      BY <3>5
    <3>6. CASE M \subseteq 5..6 /\ 5 \in M
      BY <3>6
    <3>7. CASE M \subseteq 6..6
      <4>1. PICK i \in M : TRUE
        BY <1>3
      <4>2. i = 6 /\ \A j \in M : j = 6
        BY <3>7
      <4> QED BY <4>2
    <3> QED BY <3>1, <3>2, <3>3, <3>4, <3>5, <3>6, <3>7
  <2>2. PICK i \in M : i = CHOOSE k \in M : \A j \in M : k <= j
    BY <2>1
  <2>3. (CHOOSE k \in M : \A j \in M : k <= j) \in M
        /\ \A j \in M : (CHOOSE k \in M : \A l \in M : k <= l) <= j
    BY <2>1
  <2>4. NextMissing(fields, behind) = InitOrder[i] /\ \A j \in M : i <= j
    BY <1>3, <2>2, <2>3 DEF NextMissing
  <2> QED BY <1>1, <2>4
<1> QED BY <1>2, <1>3

\* init passes the services up to one that are assigned already.
Passes(fields, behind, last) ==
  \A j \in 1..last : j > behind => fields[InitOrder[j]] # "none"

\* init returns to the application, or to a dependency.
Returns(c, fields, behind) ==
  /\ Passes(fields, behind, 4)
  /\ Passes(fields, behind, 5) \/ fields["embedding"] = "none"
  /\ InitReturns(c, fields) \/ InitReturns(c, [fields EXCEPT !["rag"] = "set"])

\* init starts the next service.
StartsNext(c, fields, behind) ==
  \E i \in 1..5 :
    /\ i > behind
    /\ fields[InitOrder[i]] = "none"
    /\ Passes(fields, behind, i - 1)
    /\ i = 5 => fields["embedding"] # "none"
    /\ container' = [fields EXCEPT ![InitOrder[i]] = "starting"]
    /\ Goto(c, InitOrder[i])

\* init ends with an assertion in front of the last service.
Asserts(c, fields, behind) ==
  /\ Passes(fields, behind, 5)
  /\ "none" \in {fields["vectors"], fields["embedding"]}
  /\ container' = fields
  /\ Goto(c, "error")

InitTurn(c, fields, behind) ==
  Returns(c, fields, behind) \/ StartsNext(c, fields, behind) \/ Asserts(c, fields, behind)

LEMMA ProceedIs ==
  ASSUME NEW c \in Coroutines, NEW fields \in Fields, NEW behind \in 0..5,
         Proceed(c, fields, behind)
  PROVE  InitTurn(c, fields, behind)
<1> DEFINE next == NextMissing(fields, behind)
<1> USE DEF InitTurn, Passes
<1>1. CASE next = "end"
  <2>1. \A j \in 1..5 : j > behind => fields[InitOrder[j]] # "none"
    BY <1>1, NextMissingIs, Order
  <2>2. InitReturns(c, fields)
    BY <1>1 DEF Proceed
  <2> QED BY <2>1, <2>2 DEF Returns
<1>2. ASSUME NEW i \in 1..6, i > behind, next = InitOrder[i], fields[InitOrder[i]] = "none",
             \A j \in 1..6 : j > behind /\ j < i => fields[InitOrder[j]] # "none"
      PROVE  InitTurn(c, fields, behind)
  <2>1. CASE i = 6
    <3>1. next = "rag" /\ \A j \in 1..5 : j > behind => fields[InitOrder[j]] # "none"
      BY <1>2, <2>1, Order
    <3>2. CASE "none" \in {fields["vectors"], fields["embedding"]}
      <4>1. container' = fields /\ Goto(c, "error")
        BY <3>1, <3>2 DEF Proceed
      <4> QED BY <3>1, <3>2, <4>1 DEF Asserts
    <3>3. CASE "none" \notin {fields["vectors"], fields["embedding"]}
      <4>1. InitReturns(c, [fields EXCEPT !["rag"] = "set"])
        BY <3>1, <3>3 DEF Proceed
      <4> QED BY <3>1, <4>1 DEF Returns
    <3> QED BY <3>2, <3>3
  <2>2. CASE i = 5 /\ fields["embedding"] = "none"
    <3>1. next = "vectors" /\ \A j \in 1..4 : j > behind => fields[InitOrder[j]] # "none"
      BY <1>2, <2>2, Order
    <3>2. InitReturns(c, fields)
      BY <2>2, <3>1 DEF Proceed
    <3> QED BY <2>2, <3>1, <3>2 DEF Returns
  <2>3. CASE i \in 1..5 /\ (i = 5 => fields["embedding"] # "none")
    <3>1. /\ next \notin {"end", "rag"}
          /\ next = "vectors" => fields["embedding"] # "none"
      BY <1>2, <2>3, Order
    <3>2. container' = [fields EXCEPT ![next] = "starting"] /\ Goto(c, next)
      BY <3>1 DEF Proceed
    <3>3. Passes(fields, behind, i - 1)
      BY <1>2, <2>3
    <3> QED BY <1>2, <2>3, <3>2, <3>3 DEF StartsNext
  <2> QED BY <1>2, <2>1, <2>2, <2>3
<1> QED BY <1>1, <1>2, NextMissingIs

-----------------------------------------------------------------------------
(***************************************************************************)
(* The container: the invariant behind StartsAreUnderWay and               *)
(* FailuresAreExplained.                                                   *)
(***************************************************************************)
\* A coroutine is behind the start of a service that init has assigned.
Holds(c, s) ==
  \/ call[c].at = s
  \/ s = "vectors" /\ call[c].at = "create"
  \/ s = "events" /\ call[c].at = "connect" /\ c = Lifespan

\* A start of the embedding and one of the vector store have failed.
Abandoned == attempts > 0 /\ troubles > attempts

\* A service is assigned but not started while just one coroutine starts it.
UnderWay(s) ==
  /\ container[s] = "starting" =>
       (\E c \in Coroutines : Holds(c, s)) \/ (s = "vectors" /\ Abandoned)
  /\ \A c \in Coroutines : Holds(c, s) => container[s] = "starting"
  /\ \A c, d \in Coroutines : Holds(c, s) /\ Holds(d, s) => c = d

\* The application's init goes first, and alone up to the events.
LifespanInv ==
  /\ call[Lifespan].at \in {"idle", "connect", "up", "error"} \cup Awaiting
  /\ call[Lifespan].at = "idle" => \A s \in Services : container[s] = "none"
  /\ call[Lifespan].at = "redis" => \A s \in Services \ {"redis"} : container[s] = "none"
  /\ call[Lifespan].at \in {"events", "connect"} =>
       container["redis"] = "set" /\ \A s \in Needable \cup {"rag"} : container[s] = "none"
  /\ call[Lifespan].at \notin {"idle", "redis", "events", "connect"} =>
       container["redis"] = "set" /\ container["events"] = "set"
  /\ \A r \in Requests : call[r].at # "idle" => call[Lifespan].at = "up"

RequestSteps == Ended \cup Needable \cup {"create", "idle", "deps", "waiting", "connect", "send"}

\* The producer is being connected by the coroutine in its lock.
LockInv ==
  /\ \A c \in Coroutines : call[c].at = "connect" <=> lock = c
  /\ producer = "starting" <=> lock # None
  /\ producer = "up" <=> initialized
  /\ \A r \in Requests : call[r].at = "send" => initialized

\* What is set has been started, and it takes a failed embedding to lack one
\* at the start of the vector store, and a failure besides to find that the
\* collection was created meanwhile.
StartInv ==
  /\ attempts <= troubles
  /\ \A c \in Coroutines : call[c].object <= attempts
  /\ \A s \in {"storage", "vectors"} : container[s] = "set" => s \in made
  /\ container["embedding"] = "set" => attempts \in models
  /\ \A c \in Coroutines : Holds(c, "vectors") /\ container["embedding"] = "none" => attempts > 0
  /\ \A c \in Coroutines : call[c].at = "create" /\ "vectors" \in made => troubles > attempts

Elements(left) == {left[i] : i \in DOMAIN left}

\* While nothing has failed since a request came, what it has obtained is
\* there, and what it needs is still ahead of the init it runs.
Hopeful(r) ==
  /\ Needed(r) \subseteq call[r].got \cup Elements(call[r].left)
  /\ \A s \in call[r].got : container[s] # "none" \/ (s = "vectors" /\ s \in made)
  /\ "embedding" \in call[r].got => call[r].object = attempts
  /\ call[r].at \notin {"deps", "storage"} /\ Head(call[r].left) = "storage" =>
       container["storage"] # "none"
  /\ call[r].at \in {"vectors", "create"} => container["embedding"] # "none"
  /\ call[r].at = "create" => "vectors" \notin made

\* The request obtains its services, or has them.
Obtaining(r) == call[r].at \in Needable \cup {"create", "deps"}

RequestInv ==
  \A r \in Requests :
    /\ call[r].at \in RequestSteps
    /\ Obtaining(r) =>
         /\ call[r].at # "deps" => call[r].left # <<>>
         /\ call[r].got \cup Elements(call[r].left) \subseteq Needed(r)
         /\ call[r].before <= troubles
         /\ call[r].before = troubles => Hopeful(r)

ContainerInv ==
  /\ LifespanInv
  /\ LockInv
  /\ StartInv
  /\ RequestInv
  /\ \A s \in Services : UnderWay(s)

ContainerIInv == ContainerType /\ ContainerInv

\* What the start of a service at this place has left when it is set ...
LeavesSet(behind) ==
  /\ attempts' = attempts
  /\ behind = 3 => "storage" \in made'
  /\ behind = 4 => attempts \in models'
  /\ behind = 5 => "vectors" \in made'

\* ... and when it was dropped.
LeavesNone(c, behind) ==
  /\ behind \in 3..5
  /\ attempts' = attempts + (IF behind = 4 THEN 1 ELSE 0)
  /\ behind = 5 => container["embedding"] # "none"
  /\ troubles' > troubles \/ (call[c].at = "create" /\ "vectors" \in made)

\* c stands where init may go on: before its first service, or behind the
\* one it was starting, which is set or dropped by now.
FieldsAfter(c, fields, behind) ==
  \/ /\ behind = 0
     /\ fields = container
     /\ UNCHANGED <<startVars, troubles>>
     /\ \/ c = Lifespan /\ call[c].at = "idle"
        \/ /\ c # Lifespan /\ call[c].at = "deps" /\ call[c].left # <<>>
           /\ container[Head(call[c].left)] = "none"
  \/ /\ behind \in 1..5
     /\ Holds(c, InitOrder[behind])
     /\ c # Lifespan => behind \in 3..5
     /\ \/ fields = [container EXCEPT ![InitOrder[behind]] = "set"] /\ LeavesSet(behind)
        \/ fields = [container EXCEPT ![InitOrder[behind]] = "none"] /\ LeavesNone(c, behind)

Turn(c) ==
  \E fields \in Fields, behind \in 0..5 :
    FieldsAfter(c, fields, behind) /\ InitTurn(c, fields, behind)

LEMMA TurnBy ==
  ASSUME NEW c \in Coroutines, NEW fields \in Fields, NEW behind \in 0..5,
         FieldsAfter(c, fields, behind),
         Proceed(c, fields, behind)
  PROVE  Turn(c)
BY ProceedIs DEF Turn

\* The vector store fails while the embedding is dropped.
Dropping(c) == Holds(c, "vectors") /\ container["embedding"] = "none"

\* The steps in which a coroutine runs init up to its next await.
InitSteps(c) ==
  \/ c = Lifespan /\ (Start \/ Connected(c) \/ ConnectFails(c))
  \/ c \in Requests /\ InitAgain(c)
  \/ Started(c) \/ CreateCollection(c)
  \/ FindCollection(c) /\ "vectors" \in made
  \/ (StartFails(c) \/ CreateConflicts(c)) /\ ~Dropping(c)

\* init goes on behind the start of s, which left x in its field.
GoesOnBehind(c, behind, s, x) ==
  /\ behind \in 1..5 /\ s = InitOrder[behind]
  /\ Holds(c, s)
  /\ c # Lifespan => behind \in 3..5
  /\ \/ x = "set" /\ LeavesSet(behind)
     \/ x = "none" /\ LeavesNone(c, behind)
  /\ Proceed(c, [container EXCEPT ![s] = x], behind)

LEMMA TurnIs ==
  ASSUME ContainerIInv, NEW c \in Coroutines, InitSteps(c)
  PROVE  Turn(c)
<1> USE DEF ContainerIInv
<1>a. /\ container \in Fields /\ Lifespan \in Coroutines /\ Lifespan \notin Requests
      /\ Requests \subseteq Coroutines /\ troubles \in Int /\ attempts \in Int
      /\ \A s \in Services, x \in {"set", "none"} : [container EXCEPT ![s] = x] \in Fields
  BY LifespanAssumption DEF ContainerType, ContainerTypeOK, Fields, Coroutines
<1>b. c # Lifespan => c \in Requests /\ call[c].at \in RequestSteps
  BY DEF Coroutines, ContainerInv, RequestInv
<1>c. call[c].at = "redis" => c = Lifespan
  BY <1>b DEF RequestSteps, Ended, Needable
<1>1. CASE c = Lifespan /\ Start
  BY <1>1, <1>a, TurnBy DEF Start, FieldsAfter
<1>2. CASE c \in Requests /\ InitAgain(c)
  BY <1>2, <1>a, TurnBy DEF InitAgain, FieldsAfter
<1>3. ASSUME NEW behind, NEW s, NEW x, GoesOnBehind(c, behind, s, x)
      PROVE  Turn(c)
  <2> USE DEF GoesOnBehind
  <2>1. [container EXCEPT ![s] = x] \in Fields
    <3>1. s \in Services
      BY <1>3, Order
    <3> QED BY <1>a, <1>3, <3>1
  <2> DEFINE f == [container EXCEPT ![s] = x]
  <2>2. FieldsAfter(c, f, behind)
    <3>1. CASE x = "set" /\ LeavesSet(behind)
      BY <1>3, <3>1 DEF FieldsAfter
    <3>2. CASE x = "none" /\ LeavesNone(c, behind)
      BY <1>3, <3>2 DEF FieldsAfter
    <3> QED BY <1>3, <3>1, <3>2
  <2>3. Proceed(c, f, behind) /\ f \in Fields /\ behind \in 0..5
    BY <1>3, <2>1
  <2> HIDE DEF f
  <2> QED BY <2>2, <2>3, TurnBy
<1>4. CASE Started(c)
  <2>1. CASE call[c].at = "redis"
    <3>1. Proceed(c, [container EXCEPT !["redis"] = "set"], 1) /\ Holds(c, "redis") /\ LeavesSet(1)
      BY <1>4, <2>1, BehindIs DEF Started, Holds, LeavesSet
    <3>2. GoesOnBehind(c, 1, "redis", "set")
      BY <1>c, <2>1, <3>1, Order DEF GoesOnBehind
    <3> QED BY <1>3, <3>2
  <2>2. CASE call[c].at = "storage"
    <3>1. Proceed(c, [container EXCEPT !["storage"] = "set"], 3) /\ Holds(c, "storage") /\ LeavesSet(3)
      BY <1>4, <2>2, BehindIs DEF Started, Holds, LeavesSet
    <3>2. GoesOnBehind(c, 3, "storage", "set")
      BY <3>1, Order DEF GoesOnBehind
    <3> QED BY <1>3, <3>2
  <2>3. CASE call[c].at = "embedding"
    <3>1. Proceed(c, [container EXCEPT !["embedding"] = "set"], 4) /\ Holds(c, "embedding") /\ LeavesSet(4)
      BY <1>4, <2>3, BehindIs DEF Started, Holds, LeavesSet
    <3>2. GoesOnBehind(c, 4, "embedding", "set")
      BY <3>1, Order DEF GoesOnBehind
    <3> QED BY <1>3, <3>2
  <2> QED BY <1>4, <2>1, <2>2, <2>3 DEF Started
<1>5. CASE StartFails(c) /\ ~Dropping(c)
  <2>0. troubles' > troubles
    BY <1>5, <1>a DEF StartFails, Trouble
  <2>1. CASE call[c].at = "redis"
    <3>1. Proceed(c, [container EXCEPT !["redis"] = "set"], 1) /\ Holds(c, "redis")
      BY <1>5, <2>1, BehindIs DEF StartFails, InStart, Holds
    <3>2. LeavesSet(1)
      BY <1>a, <1>5, <2>1 DEF StartFails, LeavesSet
    <3>3. GoesOnBehind(c, 1, "redis", "set")
      BY <1>c, <2>1, <3>1, <3>2, Order DEF GoesOnBehind
    <3> QED BY <1>3, <3>3
  <2>2. CASE call[c].at = "storage"
    <3>1. Proceed(c, [container EXCEPT !["storage"] = "none"], 3) /\ Holds(c, "storage")
      BY <1>5, <2>2, BehindIs DEF StartFails, InStart, Holds
    <3>2. LeavesNone(c, 3)
      BY <2>0, <1>5, <2>2 DEF StartFails, LeavesNone
    <3>3. GoesOnBehind(c, 3, "storage", "none")
      BY <3>1, <3>2, Order DEF GoesOnBehind
    <3> QED BY <1>3, <3>3
  <2>3. CASE call[c].at = "embedding"
    <3>1. Proceed(c, [container EXCEPT !["embedding"] = "none"], 4) /\ Holds(c, "embedding")
      BY <1>5, <2>3, BehindIs DEF StartFails, InStart, Holds
    <3>2. LeavesNone(c, 4)
      BY <2>0, <1>5, <2>3 DEF StartFails, LeavesNone
    <3>3. GoesOnBehind(c, 4, "embedding", "none")
      BY <3>1, <3>2, Order DEF GoesOnBehind
    <3> QED BY <1>3, <3>3
  <2>4. CASE call[c].at \in {"vectors", "create"}
    <3>0. Holds(c, "vectors") /\ container["embedding"] # "none"
      BY <1>5, <2>4 DEF Dropping, Holds
    <3>1. Proceed(c, [container EXCEPT !["vectors"] = "none"], 5)
      BY <1>5, <2>4, <3>0, BehindIs DEF StartFails, VectorsFail, InStart
    <3>2. LeavesNone(c, 5)
      BY <2>0, <1>5, <2>4, <3>0 DEF StartFails, LeavesNone
    <3>3. GoesOnBehind(c, 5, "vectors", "none")
      BY <3>0, <3>1, <3>2, Order DEF GoesOnBehind
    <3> QED BY <1>3, <3>3
  <2> QED BY <1>5, <2>1, <2>2, <2>3, <2>4 DEF StartFails, Failing
<1>6. CASE FindCollection(c) /\ "vectors" \in made
  <2>1. /\ Proceed(c, [container EXCEPT !["vectors"] = "set"], 5) /\ Holds(c, "vectors")
        /\ LeavesSet(5)
    BY <1>6, BehindIs DEF FindCollection, Holds, LeavesSet, startVars
  <2>2. GoesOnBehind(c, 5, "vectors", "set")
    BY <2>1, Order DEF GoesOnBehind
  <2> QED BY <1>3, <2>2
<1>7. CASE CreateCollection(c)
  <2>1. /\ Proceed(c, [container EXCEPT !["vectors"] = "set"], 5) /\ Holds(c, "vectors")
        /\ LeavesSet(5)
    BY <1>7, BehindIs DEF CreateCollection, Holds, LeavesSet
  <2>2. GoesOnBehind(c, 5, "vectors", "set")
    BY <2>1, Order DEF GoesOnBehind
  <2> QED BY <1>3, <2>2
<1>8. CASE CreateConflicts(c) /\ ~Dropping(c)
  <2>1. Holds(c, "vectors") /\ container["embedding"] # "none"
    BY <1>8 DEF Dropping, Holds, CreateConflicts
  <2>2. Proceed(c, [container EXCEPT !["vectors"] = "none"], 5)
    BY <1>8, <2>1, BehindIs DEF CreateConflicts, VectorsFail
  <2>3. LeavesNone(c, 5)
    BY <1>a, <1>8, <2>1 DEF CreateConflicts, LeavesNone, startVars
  <2>4. GoesOnBehind(c, 5, "vectors", "none")
    BY <2>1, <2>2, <2>3, Order DEF GoesOnBehind
  <2> QED BY <1>3, <2>4
<1>9. CASE c = Lifespan /\ (Connected(c) \/ ConnectFails(c))
  <2>1. Proceed(c, [container EXCEPT !["events"] = "set"], 2) /\ Holds(c, "events")
    BY <1>9, BehindIs DEF Connected, ConnectFails, Holds
  <2>2. LeavesSet(2)
    BY <1>9 DEF Connected, ConnectFails, LeavesSet, startVars
  <2>3. GoesOnBehind(c, 2, "events", "set")
    BY <1>9, <2>1, <2>2, Order DEF GoesOnBehind
  <2> QED BY <1>3, <2>3
<1> QED BY <1>1, <1>2, <1>4, <1>5, <1>6, <1>7, <1>8, <1>9 DEF InitSteps

\* What init has done with the service at one place.
Past(s, behind) == behind # 0 /\ s = InitOrder[behind]

LEMMA HoldsOne ==
  ASSUME ContainerIInv, NEW c \in Coroutines, NEW s \in Services
  PROVE  /\ \A t \in Services : Holds(c, s) /\ Holds(c, t) => s = t
         /\ ~Holds(c, "rag") /\ container["rag"] # "starting"
         /\ call[c].at \in {"idle", "deps", "up", "waiting", "send"} \cup Ended => ~Holds(c, s)
<1>1. \A d \in Coroutines : ~Holds(d, "rag")
  BY DEF ContainerIInv, ContainerType, CallType, Steps, Awaiting, Ended, Holds
<1>2. container["rag"] # "starting"
  BY <1>1, Order DEF ContainerIInv, ContainerInv, UnderWay
<1>3. \A t \in Services : Holds(c, s) /\ Holds(c, t) => s = t
  BY Order DEF Holds
<1>4. call[c].at \in {"idle", "deps", "up", "waiting", "send"} \cup Ended => ~Holds(c, s)
  BY Order DEF Holds, Ended
<1> QED BY <1>1, <1>2, <1>3, <1>4

LEMMA Moves ==
  ASSUME NEW c \in Coroutines, NEW s \in Services, UnderWay(s),
         \A d \in Coroutines \ {c} : call'[d] = call[d],
         Abandoned => Abandoned',
         \/ /\ Holds(c, s) <=> Holds(c, s)'
            /\ container[s] = "starting" <=> container'[s] = "starting"
         \/ /\ Holds(c, s) /\ ~Holds(c, s)'
            /\ container'[s] # "starting"
         \/ /\ ~Holds(c, s) /\ Holds(c, s)'
            /\ container[s] # "starting" /\ container'[s] = "starting"
         \/ /\ Holds(c, s) /\ ~Holds(c, s)'
            /\ s = "vectors" /\ Abandoned'
  PROVE  UnderWay(s)'
<1>1. \A d \in Coroutines \ {c} : Holds(d, s)' <=> Holds(d, s)
  BY DEF Holds
<1>2. CASE /\ Holds(c, s) <=> Holds(c, s)'
           /\ container[s] = "starting" <=> container'[s] = "starting"
  <2>1. \A d \in Coroutines : Holds(d, s)' <=> Holds(d, s)
    BY <1>1, <1>2
  <2> QED BY <1>2, <2>1 DEF UnderWay
<1>3. CASE /\ Holds(c, s) /\ ~Holds(c, s)'
           /\ container'[s] # "starting" \/ (s = "vectors" /\ Abandoned')
  <2>1. \A d \in Coroutines : ~Holds(d, s)'
    BY <1>1, <1>3 DEF UnderWay
  <2> QED BY <1>3, <2>1 DEF UnderWay
<1>4. CASE /\ ~Holds(c, s) /\ Holds(c, s)'
           /\ container[s] # "starting" /\ container'[s] = "starting"
  <2>1. \A d \in Coroutines \ {c} : ~Holds(d, s)'
    BY <1>1, <1>4 DEF UnderWay
  <2> QED BY <1>4, <2>1 DEF UnderWay
<1> QED BY <1>2, <1>3, <1>4

LEMMA FieldsAfterIs ==
  ASSUME ContainerIInv, NEW c \in Coroutines, NEW fields \in Fields, NEW behind \in 0..5,
         FieldsAfter(c, fields, behind), NEW s \in Services
  PROVE  /\ Past(s, behind) => Holds(c, s) /\ fields[s] # "starting"
         /\ ~Past(s, behind) => ~Holds(c, s) /\ fields[s] = container[s]
<1>1. DOMAIN container = Services
  BY DEF ContainerIInv, ContainerType, ContainerTypeOK
<1>2. CASE behind = 0
  BY <1>2, HoldsOne DEF FieldsAfter, Past
<1>3. CASE behind # 0
  <2>1. PICK x \in {"set", "none"} : fields = [container EXCEPT ![InitOrder[behind]] = x]
    BY <1>3 DEF FieldsAfter
  <2>2. Holds(c, InitOrder[behind]) /\ InitOrder[behind] \in Services
    BY <1>3, Order DEF FieldsAfter
  <2>3. CASE s = InitOrder[behind]
    BY <1>1, <1>3, <2>1, <2>2, <2>3 DEF Past
  <2>4. CASE s # InitOrder[behind]
    BY <1>1, <1>3, <2>1, <2>2, <2>4, HoldsOne DEF Past
  <2> QED BY <2>3, <2>4
<1> QED BY <1>2, <1>3

\* What a dependency hands out of these fields.
HandsOut(c, fields) ==
  /\ call'[c].at = "deps"
  /\ call'[c].left = Tail(call[c].left)
  /\ call'[c].got = IF fields[Head(call[c].left)] = "none" THEN call[c].got
                    ELSE call[c].got \cup {Head(call[c].left)}
  /\ call'[c].object = IF Head(call[c].left) = "embedding" THEN attempts ELSE call[c].object

\* A coroutine that stays with what it has.
Keeps(c) ==
  /\ call'[c].left = call[c].left
  /\ call'[c].got = call[c].got
  /\ call'[c].object = call[c].object

\* The three ways a turn of init ends, as they show in the state.
Returned(c, fields, behind) ==
  /\ Passes(fields, behind, 4)
  /\ Passes(fields, behind, 5) \/ fields["embedding"] = "none"
  /\ \A s \in Services \ {"rag"} : container'[s] = fields[s]
  /\ container'["rag"] \in {fields["rag"], "set"}
  /\ IF c = Lifespan THEN call'[c].at = "up" /\ Keeps(c) ELSE HandsOut(c, fields)

Awaits(c, fields, behind) ==
  /\ Keeps(c)
  /\ \E i \in 1..5 :
       /\ i > behind
       /\ fields[InitOrder[i]] = "none"
       /\ Passes(fields, behind, i - 1)
       /\ i = 5 => fields["embedding"] # "none"
       /\ call'[c].at = InitOrder[i]
       /\ container'[InitOrder[i]] = "starting"
       /\ \A s \in Services \ {InitOrder[i]} : container'[s] = fields[s]

Asserted(c, fields, behind) ==
  /\ Keeps(c)
  /\ Passes(fields, behind, 5)
  /\ "none" \in {fields["vectors"], fields["embedding"]}
  /\ container' = fields
  /\ call'[c].at = "error"

LEMMA GotoIs ==
  ASSUME CallType, NEW c \in Coroutines, NEW step \in Steps, Goto(c, step)
  PROVE  /\ CallType' /\ call'[c].at = step /\ call'[c].before = call[c].before /\ Keeps(c)
         /\ \A d \in Coroutines \ {c} : call'[d] = call[d]
BY DEF Goto, CallType, Keeps

LEMMA HandOutIs ==
  ASSUME CallType, NEW r \in Coroutines, NEW fields, attempts \in Nat,
         call[r].left # <<>>, HandOut(r, fields)
  PROVE  /\ CallType' /\ HandsOut(r, fields) /\ call'[r].before = call[r].before
         /\ \A d \in Coroutines \ {r} : call'[d] = call[d]
<1> DEFINE s == Head(call[r].left)
           got == IF fields[s] = "none" THEN call[r].got ELSE call[r].got \cup {s}
           object == IF s = "embedding" THEN attempts ELSE call[r].object
<1>1. /\ call[r] \in [at : Steps, left : Seq(Needable), got : SUBSET Needable,
                      object : Nat, before : Nat]
      /\ call[r].left \in Seq(Needable) /\ DOMAIN call = Coroutines
  BY DEF CallType
<1>2. s \in Needable /\ Tail(call[r].left) \in Seq(Needable)
  BY <1>1
<1>3. got \in SUBSET Needable /\ object \in Nat /\ "deps" \in Steps
  BY <1>1, <1>2 DEF Steps
<1>4. call' = [call EXCEPT ![r].at = "deps", ![r].left = Tail(call[r].left),
                           ![r].got = got, ![r].object = object]
  BY <1>1 DEF HandOut
<1> HIDE DEF got, object
<1>5. call'[r] = [call[r] EXCEPT !.at = "deps", !.left = Tail(call[r].left),
                                 !.got = got, !.object = object]
  BY <1>1, <1>4
<1>6. /\ call'[r].at = "deps" /\ call'[r].left = Tail(call[r].left) /\ call'[r].got = got
      /\ call'[r].object = object /\ call'[r].before = call[r].before
  BY <1>1, <1>5
<1>7. call'[r] \in [at : Steps, left : Seq(Needable), got : SUBSET Needable,
                    object : Nat, before : Nat]
  BY <1>1, <1>2, <1>3, <1>5
<1>8. /\ \A d \in Coroutines \ {r} : call'[d] = call[d]
      /\ DOMAIN call' = Coroutines /\ call' = [d \in Coroutines |-> call'[d]]
  BY <1>1, <1>4 DEF CallType
<1>9. CallType'
  BY <1>4, <1>7, <1>8 DEF CallType
<1> QED BY <1>6, <1>8, <1>9 DEF HandsOut, got, object

\* Where init takes its coroutine and the fields.
LEMMA InitTurnIs ==
  ASSUME ContainerIInv, NEW c \in Coroutines, NEW fields \in Fields, NEW behind \in 0..5,
         c # Lifespan => call[c].left # <<>>,
         InitTurn(c, fields, behind)
  PROVE  /\ CallType' /\ container' \in Fields
         /\ \A d \in Coroutines \ {c} : call'[d] = call[d]
         /\ call'[c].before = call[c].before
         /\ Returned(c, fields, behind) \/ Awaits(c, fields, behind) \/ Asserted(c, fields, behind)
<1>0. /\ CallType /\ DOMAIN fields = Services /\ call[c].left \in Seq(Needable)
      /\ troubles \in 0..MaxTroubles /\ attempts \in 0..troubles
  BY DEF ContainerIInv, ContainerType, ContainerTypeOK, CallType, Fields
<1>a. attempts \in Nat
  BY <1>0
<1>1. CASE Returns(c, fields, behind)
  <2>1. PICK f \in {fields, [fields EXCEPT !["rag"] = "set"]} : InitReturns(c, f)
    BY <1>1 DEF Returns
  <2>2. f \in Fields /\ \A s \in Services \ {"rag"} : f[s] = fields[s]
    BY <1>0, <2>1, Order DEF Fields
  <2>3. f["rag"] \in {fields["rag"], "set"}
    BY <1>0, <2>1, Order DEF Fields
  <2>4. container' = f
    BY <2>1 DEF InitReturns
  <2>5. CASE c = Lifespan
    <3>1. Goto(c, "up") /\ "up" \in Steps
      BY <2>1, <2>5 DEF InitReturns, Steps
    <3> QED BY <1>0, <1>1, <2>2, <2>3, <2>4, <2>5, <3>1, GotoIs DEF Returned, Returns
  <2>6. CASE c # Lifespan
    <3>1. HandOut(c, f)
      BY <2>1, <2>6 DEF InitReturns
    <3>2. HandsOut(c, f) /\ Head(call[c].left) \in Services \ {"rag"}
      BY <1>0, <1>a, <2>6, <3>1, HandOutIs, Order DEF Needable
    <3>3. HandsOut(c, fields)
      BY <2>2, <3>2 DEF HandsOut
    <3>4. Returned(c, fields, behind)
      BY <1>1, <2>2, <2>3, <2>4, <2>6, <3>3 DEF Returned, Returns
    <3> QED BY <1>0, <1>a, <2>2, <2>4, <2>6, <3>1, <3>4, HandOutIs
  <2> QED BY <2>5, <2>6
<1>2. CASE StartsNext(c, fields, behind)
  <2>1. PICK i \in 1..5 : /\ i > behind
                          /\ fields[InitOrder[i]] = "none"
                          /\ Passes(fields, behind, i - 1)
                          /\ i = 5 => fields["embedding"] # "none"
                          /\ container' = [fields EXCEPT ![InitOrder[i]] = "starting"]
                          /\ Goto(c, InitOrder[i])
    BY <1>2 DEF StartsNext
  <2>2. InitOrder[i] \in Services /\ InitOrder[i] \in Steps
    BY Order DEF Steps, Awaiting
  <2>3. container' \in Fields
    BY <2>1 DEF Fields
  <2>4. /\ container'[InitOrder[i]] = "starting"
        /\ \A s \in Services \ {InitOrder[i]} : container'[s] = fields[s]
    BY <1>0, <2>1, <2>2
  <2>5. /\ CallType' /\ call'[c].at = InitOrder[i] /\ call'[c].before = call[c].before /\ Keeps(c)
        /\ \A d \in Coroutines \ {c} : call'[d] = call[d]
    BY <1>0, <2>1, <2>2, GotoIs
  <2> QED BY <2>1, <2>3, <2>4, <2>5 DEF Awaits
<1>3. CASE Asserts(c, fields, behind)
  <2>1. Goto(c, "error") /\ "error" \in Steps
    BY <1>3 DEF Asserts, Steps, Ended
  <2> QED BY <1>0, <1>3, <2>1, GotoIs DEF Asserts, Asserted
<1> QED BY <1>1, <1>2, <1>3 DEF InitTurn

\* The steps that leave the container as it is.
PlainSteps(c) ==
  \/ /\ c \in Requests
     /\ \/ Arrive(c) \/ Obtain(c) \/ LoadModel(c) \/ LoadFails(c) \/ UseFails(c) \/ Serve(c)
        \/ Publish(c) \/ FindConnected(c) \/ Connected(c) \/ ConnectFails(c)
  \/ Connect(c)
  \/ FindCollection(c) /\ "vectors" \notin made

\* The vector store is left assigned.
Drops(c) == (StartFails(c) \/ CreateConflicts(c)) /\ Dropping(c)

\* Something else fails, or another replica creates the collection.
Fault ==
  /\ troubles' \in 0..MaxTroubles /\ troubles' >= troubles
  /\ made' = made \/ (made' = made \cup {"vectors"} /\ troubles' > troubles)
  /\ UNCHANGED <<container, attempts, models, producerVars, call>>

ContainerMove ==
  (\E c \in Coroutines : InitSteps(c) \/ PlainSteps(c) \/ Drops(c)) \/ Fault

LEMMA Typing ==
  ASSUME ContainerIInv
  PROVE  /\ troubles \in Nat /\ MaxTroubles \in Nat /\ troubles <= MaxTroubles
         /\ attempts \in Nat /\ attempts <= troubles
         /\ made \subseteq {"storage", "vectors"} /\ models \subseteq 0..attempts
         /\ container \in Fields /\ DOMAIN container = Services
         /\ Lifespan \in Coroutines /\ Lifespan \notin Requests /\ None \notin Coroutines
         /\ Requests \subseteq Coroutines
         /\ \A c \in Coroutines : c = Lifespan \/ c \in Requests
<1>1. troubles \in 0..MaxTroubles /\ attempts \in 0..troubles /\ MaxTroubles \in Nat
  BY TroublesAssumption DEF ContainerIInv, ContainerType, ContainerTypeOK
<1>2. /\ troubles \in Nat /\ troubles <= MaxTroubles /\ attempts \in Nat /\ attempts <= troubles
  BY <1>1
<1> QED BY <1>1, <1>2, LifespanAssumption
        DEF ContainerIInv, ContainerType, ContainerTypeOK, Fields, Coroutines

LEMMA CallTyping ==
  ASSUME ContainerIInv, NEW c \in Coroutines
  PROVE  /\ CallType /\ call[c].at \in Steps /\ call[c].left \in Seq(Needable)
         /\ call[c].got \subseteq Needable
         /\ call[c].object \in Nat /\ call[c].before \in Nat /\ call[c].object <= attempts
BY DEF ContainerIInv, ContainerType, CallType, ContainerInv, StartInv

LEMMA TroubleIs ==
  ASSUME ContainerIInv, NEW kind, Trouble(kind)
  PROVE  troubles' \in 0..MaxTroubles /\ troubles' = troubles + 1 /\ troubles' > troubles
BY Typing DEF Trouble

LEMMA MoveIs ==
  ASSUME ContainerIInv, [Next]_vars
  PROVE  ContainerMove
<1>0. /\ Lifespan \in Coroutines /\ troubles \in 0..MaxTroubles /\ troubles >= troubles
      /\ \A c \in Coroutines : c = Lifespan \/ c \in Requests
      /\ Requests \subseteq Coroutines
  BY Typing
<1> USE DEF ContainerMove
<1>1. CASE Start
  BY <1>0, <1>1 DEF InitSteps
<1>2. CASE ReplicaCreates
  BY <1>2, <1>0, TroubleIs DEF ReplicaCreates, Fault
<1>3. ASSUME NEW c \in Coroutines, ContainerStep(c)
      PROVE  ContainerMove
  <2>1. CASE Connected(c) \/ ConnectFails(c)
    BY <1>0, <2>1 DEF InitSteps, PlainSteps
  <2>2. CASE FindCollection(c)
    BY <1>0, <2>2 DEF InitSteps, PlainSteps
  <2>3. CASE StartFails(c) \/ CreateConflicts(c)
    BY <2>3 DEF InitSteps, Drops
  <2>4. CASE Started(c) \/ CreateCollection(c) \/ Connect(c)
    BY <2>4 DEF InitSteps, PlainSteps
  <2> QED BY <1>3, <2>1, <2>2, <2>3, <2>4 DEF ContainerStep
<1>4. ASSUME NEW r \in Requests, RequestStep(r)
      PROVE  ContainerMove
  BY <1>0, <1>4 DEF RequestStep, InitSteps, PlainSteps
<1>5. CASE SendStep
  <2>1. PICK r \in Requests : AppendEvent(r) \/ AppendAgain(r) \/ Acknowledge(r) \/ SendFails(r)
    BY <1>5 DEF SendStep
  <2>2. CASE AppendEvent(r) \/ Acknowledge(r)
    BY <1>0, <2>2 DEF AppendEvent, Acknowledge, Fault, containerVars, startVars
  <2>3. CASE AppendAgain(r) \/ SendFails(r)
    BY <1>0, <2>3, TroubleIs DEF AppendAgain, SendFails, Fault, startVars
  <2> QED BY <2>1, <2>2, <2>3
<1>6. CASE StartConsumer \/ LoopStep \/ Commit
  BY <1>0, <1>6 DEF LoopStep, StartConsumer, Take, Handle, HandlerFails, Commit, Fault,
                    containerVars, startVars
<1>7. CASE CrashConsumer \/ StopConsumer
  BY <1>0, <1>7, TroubleIs DEF CrashConsumer, StopConsumer, Fault, startVars
<1>8. CASE UNCHANGED vars
  BY <1>0, <1>8 DEF vars, containerVars, startVars, Fault
<1> QED BY <1>1, <1>2, <1>3, <1>4, <1>5, <1>6, <1>7, <1>8 DEF Next, ProcessStep, ProcessNext

\* How the buckets, the models and the counts move.
LEMMA StartVarsIs ==
  ASSUME ContainerIInv, ContainerMove
  PROVE  /\ troubles' \in 0..MaxTroubles /\ troubles' >= troubles
         /\ attempts' = attempts \/ (attempts' = attempts + 1 /\ troubles' = troubles + 1)
         /\ made \subseteq made' /\ made' \subseteq {"storage", "vectors"}
         /\ models \subseteq models' /\ models' \subseteq 0..attempts'
         /\ "vectors" \in made' \ made =>
              /\ attempts' = attempts
              /\ troubles' > troubles \/ \E c \in Coroutines : CreateCollection(c)
<1> DEFINE Same == UNCHANGED <<made, attempts, models>>
           Goal == /\ troubles' \in 0..MaxTroubles /\ troubles' >= troubles
                   /\ attempts' = attempts \/ (attempts' = attempts + 1 /\ troubles' = troubles + 1)
                   /\ made \subseteq made' /\ made' \subseteq {"storage", "vectors"}
                   /\ models \subseteq models' /\ models' \subseteq 0..attempts'
                   /\ "vectors" \in made' \ made =>
                        /\ attempts' = attempts
                        /\ troubles' > troubles \/ \E c \in Coroutines : CreateCollection(c)
<1>0. /\ troubles \in 0..MaxTroubles /\ troubles >= troubles /\ attempts \in Nat
      /\ made \subseteq {"storage", "vectors"} /\ models \subseteq 0..attempts
      /\ 0..attempts \subseteq 0..(attempts + 1) /\ attempts \in 0..attempts
  BY Typing
<1>1. CASE Same /\ (troubles' = troubles \/ \E kind : Trouble(kind))
  <2>1. troubles' \in 0..MaxTroubles /\ troubles' >= troubles
    BY <1>0, <1>1, TroubleIs
  <2> QED BY <1>0, <1>1, <2>1
<1>2. ASSUME NEW c \in Coroutines,
             \/ Start \/ InitAgain(c) \/ Arrive(c) \/ Obtain(c) \/ UseFails(c) \/ Serve(c)
             \/ Publish(c) \/ FindConnected(c) \/ FindCollection(c) \/ CreateConflicts(c)
             \/ Connect(c) \/ Connected(c)
      PROVE  Goal
  <2>1. Same /\ troubles' = troubles
    BY <1>2 DEF Start, InitAgain, Arrive, Obtain, UseFails, Serve, Publish, FindConnected,
       FindCollection, CreateConflicts, Connect, Connected, startVars
  <2> QED BY <1>1, <2>1
<1>3. ASSUME NEW c \in Coroutines, LoadFails(c) \/ ConnectFails(c)
      PROVE  Goal
  <2>1. Same /\ Trouble("start")
    BY <1>3 DEF LoadFails, ConnectFails, startVars
  <2> QED BY <1>1, <2>1
<1>4. ASSUME NEW c \in Coroutines, Started(c)
      PROVE  Goal
  <2>1. /\ made' = made \cup ({call[c].at} \cap {"storage"}) /\ attempts' = attempts
        /\ troubles' = troubles
        /\ models' = models \cup (IF call[c].at = "embedding" THEN {attempts} ELSE {})
    BY <1>4 DEF Started
  <2> QED BY <1>0, <2>1
<1>5. ASSUME NEW c \in Coroutines, CreateCollection(c)
      PROVE  Goal
  <2>1. UNCHANGED <<attempts, models, troubles>> /\ made' = made \cup {"vectors"}
    BY <1>5 DEF CreateCollection
  <2> QED BY <1>0, <1>5, <2>1
<1>6. ASSUME NEW r \in Coroutines, LoadModel(r)
      PROVE  Goal
  <2>1. UNCHANGED <<attempts, made, troubles>> /\ models' = models \cup {call[r].object}
    BY <1>6 DEF LoadModel
  <2>2. call[r].object \in 0..attempts
    BY <1>0, CallTyping
  <2> QED BY <1>0, <2>1, <2>2
<1>7. ASSUME NEW c \in Coroutines, StartFails(c)
      PROVE  Goal
  <2>1. PICK more \in SUBSET MayHaveMade(c) : made' = made \cup more
    BY <1>7 DEF StartFails
  <2>2. /\ models' = models
        /\ attempts' = attempts + (IF call[c].at = "embedding" THEN 1 ELSE 0)
        /\ troubles' = troubles + 1 /\ troubles' > troubles /\ troubles' \in 0..MaxTroubles
    BY <1>7, TroubleIs DEF StartFails
  <2>3. CASE call[c].at = "embedding"
    <3>1. made' = made /\ attempts' = attempts + 1
      BY <2>1, <2>2, <2>3 DEF MayHaveMade
    <3>2. models' \subseteq 0..attempts'
      BY <1>0, <2>2, <3>1
    <3>3. troubles' >= troubles
      BY <1>0, <2>2
    <3> QED BY <1>0, <2>2, <3>1, <3>2, <3>3
  <2>4. CASE call[c].at # "embedding"
    <3>1. attempts' = attempts /\ more \subseteq {"storage", "vectors"}
      BY <1>0, <2>1, <2>2, <2>4 DEF MayHaveMade
    <3> QED BY <1>0, <2>1, <2>2, <3>1
  <2> QED BY <2>3, <2>4
<1>8. CASE Fault
  BY <1>0, <1>8 DEF Fault
<1>9. ASSUME NEW c \in Coroutines, InitSteps(c) \/ PlainSteps(c) \/ Drops(c)
      PROVE  Goal
  BY <1>2, <1>3, <1>4, <1>5, <1>6, <1>7, <1>9 DEF InitSteps, PlainSteps, Drops
<1> QED BY <1>8, <1>9 DEF ContainerMove

\* What failed stays counted.
LEMMA AbandonedStays ==
  ASSUME ContainerIInv, ContainerMove, Abandoned
  PROVE  Abandoned'
<1>1. /\ troubles' \in 0..MaxTroubles /\ troubles' >= troubles
      /\ attempts' = attempts \/ (attempts' = attempts + 1 /\ troubles' = troubles + 1)
  BY StartVarsIs
<1>2. troubles \in Nat /\ attempts \in Nat /\ attempts > 0 /\ troubles > attempts
  BY Typing DEF Abandoned
<1>3. attempts' > 0 /\ troubles' > attempts'
  BY ONLY <1>1, <1>2
<1> QED BY <1>3 DEF Abandoned

\* A request that runs init has a service to obtain.
LEMMA TurnHas ==
  ASSUME ContainerIInv, NEW c \in Coroutines, Turn(c), c # Lifespan
  PROVE  call[c].left # <<>>
<1>1. PICK fields \in Fields, behind \in 0..5 : FieldsAfter(c, fields, behind)
  BY DEF Turn
<1>2. CASE behind = 0
  BY <1>1, <1>2 DEF FieldsAfter
<1>3. CASE behind # 0
  <2>1. behind \in 3..5 /\ Holds(c, InitOrder[behind])
    BY <1>1, <1>3 DEF FieldsAfter
  <2>2. call[c].at \in Needable \cup {"create"}
    BY <2>1, Order DEF Holds, Needable
  <2> QED BY <2>2, Typing DEF ContainerIInv, ContainerInv, RequestInv, Obtaining, Needable
<1> QED BY <1>2, <1>3

LEMMA TurnUnderWay ==
  ASSUME ContainerIInv, ContainerMove, NEW c \in Coroutines, Turn(c), NEW s \in Services
  PROVE  UnderWay(s)'
<1>1. PICK fields \in Fields, behind \in 0..5 :
        FieldsAfter(c, fields, behind) /\ InitTurn(c, fields, behind)
  BY DEF Turn
<1>2. c # Lifespan => call[c].left # <<>>
  BY TurnHas
<1>3. \A d \in Coroutines \ {c} : call'[d] = call[d]
  BY <1>1, <1>2, InitTurnIs
<1>4. UnderWay(s) /\ (Abandoned => Abandoned')
  BY AbandonedStays DEF ContainerIInv, ContainerInv
<1>5. /\ Past(s, behind) => Holds(c, s) /\ fields[s] # "starting"
      /\ ~Past(s, behind) => ~Holds(c, s) /\ fields[s] = container[s]
  BY <1>1, FieldsAfterIs
<1>6. CASE /\ call'[c].at \in {"up", "deps", "error"}
           /\ \A t \in Services \ {"rag"} : container'[t] = fields[t]
           /\ container'["rag"] \in {fields["rag"], "set"}
  <2>1. ~Holds(c, s)'
    BY <1>6, Order DEF Holds
  <2>2. ~Past("rag", behind) /\ "rag" \in Services
    BY Order DEF Past
  <2>3. fields["rag"] = container["rag"] /\ container["rag"] # "starting"
    BY <1>1, <2>2, FieldsAfterIs, HoldsOne
  <2>4. container'[s] = "starting" <=> fields[s] = "starting"
    BY <1>6, <2>3
  <2> QED BY <1>3, <1>4, <1>5, <2>1, <2>4, Moves
<1>7. ASSUME NEW i \in 1..5, i > behind, fields[InitOrder[i]] = "none",
             call'[c].at = InitOrder[i], container'[InitOrder[i]] = "starting",
             \A t \in Services \ {InitOrder[i]} : container'[t] = fields[t]
      PROVE  UnderWay(s)'
  <2>1. Holds(c, s)' <=> s = InitOrder[i]
    BY <1>7, Order DEF Holds
  <2>2. CASE s = InitOrder[i]
    <3>1. ~Past(s, behind)
      BY <1>7, <2>2, Order DEF Past
    <3> QED BY <1>3, <1>4, <1>5, <1>7, <2>1, <2>2, <3>1, Moves
  <2>3. CASE s # InitOrder[i]
    BY <1>3, <1>4, <1>5, <1>7, <2>1, <2>3, Moves
  <2> QED BY <2>2, <2>3
<1>8. CASE Returned(c, fields, behind)
  BY <1>6, <1>8 DEF Returned, HandsOut
<1>9. CASE Awaits(c, fields, behind)
  BY <1>7, <1>9 DEF Awaits
<1>10. CASE Asserted(c, fields, behind)
  BY <1>6, <1>10 DEF Asserted
<1> QED BY <1>1, <1>2, <1>8, <1>9, <1>10, InitTurnIs

\* What a plain step does to its coroutine: it goes to create the collection,
\* connects, comes, is handed a service, or is through with its services.
Ends(c) ==
  /\ c \in Requests /\ call[Lifespan].at = "up"
  /\ call[c].at \in {"deps", "waiting", "connect"}
  /\ call'[c].at \in {"waiting", "send"} \cup Ended
  /\ call'[c].object \in {0, call[c].object}

Comes(r) ==
  /\ r \in Requests /\ call[Lifespan].at = "up" /\ call[r].at = "idle"
  /\ call'[r].at = "deps" /\ call'[r].left = Needs[r] /\ call'[r].got = {}
  /\ call'[r].object = 0 /\ call'[r].before = troubles

Obtains(r) ==
  /\ r \in Requests /\ call[r].at = "deps" /\ call[r].left # <<>>
  /\ container[Head(call[r].left)] # "none"
  /\ HandsOut(r, container) /\ call'[r].before = call[r].before

Creates(c) ==
  /\ call[c].at = "vectors" /\ call'[c].at = "create" /\ "vectors" \notin made
  /\ Keeps(c) /\ call'[c].before = call[c].before

Connects(c) ==
  call[c].at \in {"waiting", "events"} /\ call'[c].at = "connect" /\ Keeps(c)

LEMMA LeaveIs ==
  ASSUME CallType, NEW r \in Coroutines, NEW step \in Steps, Leave(r, step)
  PROVE  /\ CallType' /\ call'[r].at = step /\ call'[r].object = 0
         /\ \A d \in Coroutines \ {r} : call'[d] = call[d]
<1>1. call' = [call EXCEPT ![r] = [at |-> step, left |-> <<>>, got |-> {},
                                   object |-> 0, before |-> 0]]
  BY DEF Leave, Call
<1>2. /\ [at |-> step, left |-> <<>>, got |-> {}, object |-> 0, before |-> 0]
           \in [at : Steps, left : Seq(Needable), got : SUBSET Needable, object : Nat, before : Nat]
  OBVIOUS
<1> QED BY <1>1, <1>2 DEF CallType

LEMMA PlainIs ==
  ASSUME ContainerIInv, NEW c \in Coroutines, PlainSteps(c)
  PROVE  /\ CallType' /\ container' = container
         /\ attempts' = attempts /\ made' = made
         /\ \A d \in Coroutines \ {c} : call'[d] = call[d]
         /\ \/ call' = call
            \/ Ends(c) \/ Comes(c) \/ Obtains(c) \/ Creates(c) \/ Connects(c)
<1>0. /\ CallType /\ attempts \in Nat /\ troubles \in Nat
      /\ c \in Requests => Needs[c] \in Seq(Needable)
      /\ c \in Requests => c # Lifespan
      /\ \A r \in Requests : call[r].at # "idle" => call[Lifespan].at = "up"
  BY Typing, CallTyping, NeedsAssumption DEF Needable, ContainerIInv, ContainerInv, LifespanInv
<1>a. {"deps", "waiting", "send", "connect", "create"} \cup Ended \subseteq Steps
  BY DEF Steps, Awaiting
<1>1. CASE c \in Requests /\ Arrive(c)
  <2> DEFINE new == [at |-> "deps", left |-> Needs[c], got |-> {}, object |-> 0, before |-> troubles]
  <2>1. call' = [call EXCEPT ![c] = new]
    BY <1>1 DEF Arrive, Call
  <2>2. new \in [at : Steps, left : Seq(Needable), got : SUBSET Needable, object : Nat, before : Nat]
    BY <1>0, <1>1, <1>a
  <2>3. CallType' /\ call'[c] = new /\ \A d \in Coroutines \ {c} : call'[d] = call[d]
    BY <1>0, <2>1, <2>2 DEF CallType
  <2>4. Comes(c)
    BY <1>1, <2>3 DEF Comes, Arrive
  <2> QED BY <1>1, <2>3, <2>4 DEF Arrive, startVars
<1>2. CASE c \in Requests /\ Obtain(c)
  <2>1. HandOut(c, container) /\ call[c].left # <<>>
    BY <1>2 DEF Obtain
  <2>2. /\ CallType' /\ HandsOut(c, container) /\ call'[c].before = call[c].before
        /\ \A d \in Coroutines \ {c} : call'[d] = call[d]
    BY <1>0, <2>1, HandOutIs
  <2>3. Obtains(c)
    BY <1>2, <2>2 DEF Obtains, Obtain
  <2> QED BY <1>2, <2>2, <2>3 DEF Obtain, startVars
<1>3. CASE c \in Requests /\ LoadModel(c)
  BY <1>0, <1>3 DEF LoadModel, CallType
<1>4. ASSUME c \in Requests,
             LoadFails(c) \/ UseFails(c) \/ Serve(c) \/ Publish(c)
      PROVE  /\ CallType' /\ container' = container /\ attempts' = attempts /\ made' = made
             /\ \A d \in Coroutines \ {c} : call'[d] = call[d]
             /\ Ends(c)
  <2>1. PICK step \in {"waiting", "send"} \cup Ended : Leave(c, step)
    BY <1>4 DEF LoadFails, UseFails, Serve, Publish, Ended
  <2>2. /\ CallType' /\ call'[c].at = step /\ call'[c].object = 0
        /\ \A d \in Coroutines \ {c} : call'[d] = call[d]
    BY <1>0, <1>a, <2>1, LeaveIs
  <2>3. call[c].at = "deps"
    BY <1>4 DEF LoadFails, UseFails, Serve, Publish, Handling
  <2>4. container' = container /\ attempts' = attempts /\ made' = made
    BY <1>4 DEF LoadFails, UseFails, Serve, Publish, startVars
  <2> QED BY <1>0, <1>4, <2>1, <2>2, <2>3, <2>4 DEF Ends
<1>5. ASSUME c \in Requests,
             FindConnected(c) \/ Connected(c) \/ ConnectFails(c)
      PROVE  /\ CallType' /\ container' = container /\ attempts' = attempts /\ made' = made
             /\ \A d \in Coroutines \ {c} : call'[d] = call[d]
             /\ Ends(c)
  <2>1. PICK step \in {"send", "dropped"} : Goto(c, step)
    BY <1>0, <1>5 DEF FindConnected, Connected, ConnectFails
  <2>2. step \in Steps
    BY <1>a, <2>1 DEF Ended
  <2>3. /\ CallType' /\ call'[c].at = step /\ Keeps(c)
        /\ \A d \in Coroutines \ {c} : call'[d] = call[d]
    BY <1>0, <2>1, <2>2, GotoIs
  <2>4. container' = container /\ attempts' = attempts /\ made' = made
    BY <1>0, <1>5 DEF FindConnected, Connected, ConnectFails, startVars
  <2>5. call[c].at \in {"waiting", "connect"}
    BY <1>5 DEF FindConnected, Connected, ConnectFails
  <2> QED BY <1>0, <1>5, <2>1, <2>3, <2>4, <2>5 DEF Ends, Keeps, Ended
<1>6. CASE Connect(c)
  <2>1. Goto(c, "connect") /\ call[c].at \in {"waiting", "events"} /\ "connect" \in Steps
    BY <1>6, <1>a DEF Connect
  <2>2. container' = container /\ attempts' = attempts /\ made' = made
    BY <1>6 DEF Connect, startVars
  <2> QED BY <1>0, <2>1, <2>2, GotoIs DEF Connects
<1>7. CASE FindCollection(c) /\ "vectors" \notin made
  <2>1. Goto(c, "create") /\ call[c].at = "vectors" /\ "create" \in Steps
    BY <1>7, <1>a DEF FindCollection
  <2>2. container' = container /\ attempts' = attempts /\ made' = made
    BY <1>7 DEF FindCollection, startVars
  <2> QED BY <1>0, <1>7, <2>1, <2>2, GotoIs DEF Creates
<1> QED BY <1>1, <1>2, <1>3, <1>4, <1>5, <1>6, <1>7 DEF PlainSteps

LEMMA DropsIs ==
  ASSUME ContainerIInv, NEW c \in Coroutines, Drops(c)
  PROVE  /\ CallType' /\ container' = container /\ attempts' = attempts
         /\ \A d \in Coroutines \ {c} : call'[d] = call[d]
         /\ Holds(c, "vectors") /\ container["embedding"] = "none"
         /\ call'[c].at = "error" /\ Keeps(c) /\ call'[c].before = call[c].before
         /\ troubles' > troubles \/ (call[c].at = "create" /\ "vectors" \in made)
         /\ Abandoned'
<1>0. /\ CallType /\ attempts \in Nat /\ troubles \in Nat /\ attempts <= troubles
  BY Typing, CallTyping
<1>1. Holds(c, "vectors") /\ container["embedding"] = "none"
  BY DEF Drops, Dropping
<1>2. call[c].at \in {"vectors", "create"}
  BY <1>1, Order DEF Holds
<1>3. attempts > 0 /\ (call[c].at = "create" /\ "vectors" \in made => troubles > attempts)
  BY <1>1 DEF ContainerIInv, ContainerInv, StartInv
<1>4. Goto(c, "error") /\ container' = container
  BY <1>1, <1>2 DEF Drops, StartFails, CreateConflicts, VectorsFail, InStart
<1>5. "error" \in Steps
  BY DEF Steps, Ended
<1>6. CASE StartFails(c)
  <2>1. attempts' = attempts /\ troubles' = troubles + 1
    BY <1>0, <1>2, <1>6, TroubleIs DEF StartFails
  <2>2. attempts' > 0 /\ troubles' > attempts' /\ troubles' > troubles
    BY <1>0, <1>3, <2>1
  <2> QED BY <1>0, <1>1, <1>4, <1>5, <2>1, <2>2, GotoIs DEF Abandoned
<1>7. CASE CreateConflicts(c)
  <2>1. UNCHANGED <<attempts, troubles>> /\ call[c].at = "create" /\ "vectors" \in made
    BY <1>7 DEF CreateConflicts, startVars
  <2> QED BY <1>0, <1>1, <1>3, <1>4, <1>5, <2>1, GotoIs DEF Abandoned
<1> QED BY <1>6, <1>7 DEF Drops

LEMMA UnderWayStep ==
  ASSUME ContainerIInv, ContainerMove, NEW s \in Services
  PROVE  UnderWay(s)'
<1>0. UnderWay(s) /\ (Abandoned => Abandoned')
  BY AbandonedStays DEF ContainerIInv, ContainerInv
<1>1. ASSUME NEW c \in Coroutines, InitSteps(c)
      PROVE  UnderWay(s)'
  BY <1>1, TurnIs, TurnUnderWay
<1>2. ASSUME NEW c \in Coroutines, PlainSteps(c)
      PROVE  UnderWay(s)'
  <2>1. c = Lifespan \/ call[c].at # "events"
    BY Typing DEF ContainerIInv, ContainerInv, RequestInv, RequestSteps, Ended, Needable
  <2>2. call[Lifespan].at # "waiting" /\ Lifespan \notin Requests
    BY Typing DEF ContainerIInv, ContainerInv, LifespanInv, Awaiting
  <2>3. Holds(c, s) <=> Holds(c, s)'
    <3>1. CASE Creates(c)
      BY <3>1, Order DEF Creates, Holds
    <3>2. CASE Connects(c)
      BY <2>1, <2>2, <3>2, Order DEF Connects, Holds
    <3>3. CASE Ends(c)
      BY <2>2, <3>3, Order DEF Ends, Ended, Holds
    <3>4. CASE Comes(c) \/ Obtains(c)
      BY <2>2, <3>4, Order DEF Comes, Obtains, HandsOut, Holds
    <3>5. CASE call' = call
      BY <3>5 DEF Holds
    <3> QED BY <1>2, <3>1, <3>2, <3>3, <3>4, <3>5, PlainIs
  <2> QED BY <1>0, <1>2, <2>3, PlainIs, Moves
<1>3. ASSUME NEW c \in Coroutines, Drops(c)
      PROVE  UnderWay(s)'
  <2>1. ~Holds(c, s)'
    BY <1>3, DropsIs, Order DEF Holds
  <2>2. Holds(c, s) => s = "vectors"
    BY <1>3, DropsIs, HoldsOne, Order
  <2> QED BY <1>0, <1>3, <2>1, <2>2, DropsIs, Moves
<1>4. CASE Fault
  <2>1. \A c \in Coroutines : Holds(c, s)' <=> Holds(c, s)
    BY <1>4 DEF Fault, Holds
  <2> QED BY <1>0, <1>4, <2>1 DEF Fault, UnderWay
<1> QED BY <1>1, <1>2, <1>3, <1>4 DEF ContainerMove

LEMMA TurnGoes ==
  ASSUME ContainerIInv, NEW c \in Coroutines, Turn(c)
  PROVE  /\ CallType' /\ container' \in Fields
         /\ call'[c].at \in {"up", "deps", "error", "redis", "events"} \cup Needable
         /\ \A d \in Coroutines \ {c} : call'[d] = call[d]
<1>1. PICK fields \in Fields, behind \in 0..5 :
        FieldsAfter(c, fields, behind) /\ InitTurn(c, fields, behind)
  BY DEF Turn
<1>2. c # Lifespan => call[c].left # <<>>
  BY TurnHas
<1>3. Returned(c, fields, behind) \/ Awaits(c, fields, behind) \/ Asserted(c, fields, behind)
  BY <1>1, <1>2, InitTurnIs
<1>4. call'[c].at \in {"up", "deps", "error", "redis", "events"} \cup Needable
  BY <1>3, Order DEF Returned, Awaits, Asserted, HandsOut, Needable
<1> QED BY <1>1, <1>2, <1>4, InitTurnIs

LEMMA LifespanStep ==
  ASSUME ContainerIInv, ContainerMove
  PROVE  LifespanInv'
<1>0. /\ Lifespan \in Coroutines /\ LifespanInv
      /\ \A r \in Requests : r \in Coroutines /\ r # Lifespan
      /\ \A c \in Coroutines : c = Lifespan \/ c \in Requests
  BY Typing DEF ContainerIInv, ContainerInv
<1>1. ASSUME NEW c \in Coroutines, Turn(c)
      PROVE  LifespanInv'
  <2>1. PICK fields \in Fields, behind \in 0..5 :
          FieldsAfter(c, fields, behind) /\ InitTurn(c, fields, behind)
    BY <1>1 DEF Turn
  <2>2. c # Lifespan => call[c].left # <<>>
    BY <1>1, TurnHas
  <2>3. \A s \in Services : ~Past(s, behind) => fields[s] = container[s]
    BY <2>1, FieldsAfterIs
  <2>4. \A d \in Coroutines \ {c} : call'[d] = call[d]
    BY <2>1, <2>2, InitTurnIs
  <2>5. \/ /\ call'[c].at \in IF c = Lifespan THEN {"up", "error"} ELSE {"deps", "error"}
           /\ Passes(fields, behind, 4)
           /\ \A s \in Services \ {"rag"} : container'[s] = fields[s]
        \/ \E i \in 1..5 : /\ i > behind
                           /\ fields[InitOrder[i]] = "none"
                           /\ Passes(fields, behind, i - 1)
                           /\ call'[c].at = InitOrder[i]
                           /\ container'[InitOrder[i]] = "starting"
                           /\ \A s \in Services \ {InitOrder[i]} : container'[s] = fields[s]
    <3>1. CASE Returned(c, fields, behind)
      BY <3>1 DEF Returned, HandsOut
    <3>2. CASE Awaits(c, fields, behind)
      BY <3>2 DEF Awaits
    <3>3. CASE Asserted(c, fields, behind)
      BY <3>3 DEF Asserted, Passes
    <3> QED BY <2>1, <2>2, <3>1, <3>2, <3>3, InitTurnIs
  <2>6. CASE c = Lifespan
    <3>1. \A r \in Requests : call'[r].at = "idle"
      <4>1. call[c].at # "up"
        BY <2>1, <2>6, Order DEF FieldsAfter, Holds
      <4> QED BY <1>0, <2>4, <2>6, <4>1 DEF LifespanInv
    <3>2. CASE behind = 0
      <4>1. \A s \in Services : fields[s] = "none"
        BY <1>0, <2>1, <2>6, <3>2 DEF FieldsAfter, LifespanInv
      <4>2. call'[c].at = "redis" /\ \A s \in Services \ {"redis"} : container'[s] = "none"
        BY <2>5, <3>2, <4>1, Order DEF Passes
      <4> QED BY <2>6, <3>1, <4>2, Order DEF LifespanInv, Awaiting
    <3>3. CASE behind = 1
      <4>1. fields["redis"] = "set" /\ call[c].at = "redis"
        BY <2>1, <3>3, Typing, Order DEF FieldsAfter, Holds, LeavesNone
      <4>2. \A s \in Services \ {"redis"} : fields[s] = "none"
        BY <1>0, <2>3, <2>6, <3>3, <4>1, Order DEF Past, LifespanInv
      <4>3. /\ call'[c].at = "events" /\ container'["redis"] = "set"
            /\ \A s \in Needable \cup {"rag"} : container'[s] = "none"
        BY <2>5, <3>3, <4>1, <4>2, Order DEF Passes, Needable
      <4> QED BY <2>6, <3>1, <4>3 DEF LifespanInv, Awaiting
    <3>4. CASE behind = 2
      <4>1. fields["events"] = "set" /\ call[c].at \in {"events", "connect"}
        BY <2>1, <3>4, Typing, Order DEF FieldsAfter, Holds, LeavesNone
      <4>2. fields["redis"] = "set" /\ \A s \in Needable \cup {"rag"} : fields[s] = "none"
        BY <1>0, <2>3, <2>6, <3>4, <4>1, Order DEF Past, LifespanInv, Needable
      <4>3. call'[c].at = "storage" /\ container'["redis"] = "set" /\ container'["events"] = "set"
        BY <2>5, <3>4, <4>1, <4>2, Order DEF Passes, Needable
      <4> QED BY <2>6, <3>1, <4>3 DEF LifespanInv, Awaiting
    <3>5. CASE behind \in 3..5
      <4>1. call[c].at \notin {"idle", "redis", "events", "connect"}
        BY <2>1, <3>5, Order DEF FieldsAfter, Holds
      <4>2. fields["redis"] = "set" /\ fields["events"] = "set"
        BY <1>0, <2>3, <2>6, <3>5, <4>1, Order DEF Past, LifespanInv
      <4>3. /\ call'[c].at \in {"embedding", "vectors", "up", "error"}
            /\ container'["redis"] = "set" /\ container'["events"] = "set"
        BY <2>5, <2>6, <3>5, <4>2, Order
      <4> QED BY <2>6, <3>1, <4>3 DEF LifespanInv, Awaiting
    <3> QED BY <3>2, <3>3, <3>4, <3>5
  <2>7. CASE c \in Requests
    <3>1. c # Lifespan /\ call[Lifespan].at = "up"
      <4>1. c # Lifespan
        BY <1>0, <2>7
      <4>2. call[c].at # "idle"
        BY <2>1, <4>1, Order DEF FieldsAfter, Holds
      <4> QED BY <1>0, <2>7, <4>1, <4>2 DEF LifespanInv
    <3>2. call'[Lifespan] = call[Lifespan]
      BY <1>0, <2>4, <3>1
    <3>3. behind = 0 \/ behind \in 3..5
      BY <2>1, <3>1 DEF FieldsAfter
    <3>4. fields["redis"] = "set" /\ fields["events"] = "set"
      BY <1>0, <2>3, <3>1, <3>3, Order DEF Past, LifespanInv
    <3>5. container'["redis"] = "set" /\ container'["events"] = "set"
      BY <2>5, <3>4, Order
    <3> QED BY <3>1, <3>2, <3>5 DEF LifespanInv
  <2> QED BY <1>0, <2>6, <2>7
\* Any other step keeps the fields; the application's own are few.
<1>2. ASSUME NEW c \in Coroutines, PlainSteps(c) \/ Drops(c)
      PROVE  LifespanInv'
  <2>1. container' = container /\ \A d \in Coroutines \ {c} : call'[d] = call[d]
    BY <1>2, PlainIs, DropsIs
  <2>2. CASE c = Lifespan
    <3>1. \/ call' = call
          \/ call[c].at = "vectors" /\ call'[c].at = "create"
          \/ call[c].at = "events" /\ call'[c].at = "connect"
          \/ call[c].at \in {"vectors", "create"} /\ call'[c].at = "error"
      <4>1. CASE PlainSteps(c)
        <5>1. c \notin Requests /\ call[c].at # "waiting"
          BY <1>0, <2>2 DEF LifespanInv, Awaiting
        <5> QED BY <4>1, <5>1, PlainIs DEF Ends, Comes, Obtains, Creates, Connects
      <4>2. CASE Drops(c)
        BY <4>2, DropsIs, Order DEF Holds
      <4> QED BY <1>2, <4>1, <4>2
    <3>2. CASE call' = call
      BY <1>0, <2>1, <3>2 DEF LifespanInv
    <3>3. call' # call => \A r \in Requests : call'[r].at = "idle"
      BY <1>0, <2>1, <2>2, <3>1 DEF LifespanInv
    <3>4. CASE call[c].at = "vectors" /\ call'[c].at = "create"
      BY <1>0, <2>1, <2>2, <3>3, <3>4 DEF LifespanInv, Awaiting
    <3>5. CASE call[c].at = "events" /\ call'[c].at = "connect"
      BY <1>0, <2>1, <2>2, <3>3, <3>5 DEF LifespanInv, Awaiting
    <3>6. CASE call[c].at \in {"vectors", "create"} /\ call'[c].at = "error"
      BY <1>0, <2>1, <2>2, <3>3, <3>6 DEF LifespanInv, Awaiting
    <3> QED BY <3>1, <3>2, <3>4, <3>5, <3>6
  <2>3. CASE c \in Requests
    <3>1. call' = call \/ call[Lifespan].at = "up"
      <4>1. CASE PlainSteps(c) /\ call' # call
        <5>1. CASE call[c].at = "idle"
          BY <4>1, <5>1, PlainIs DEF Ends, Comes, Obtains, Creates, Connects
        <5>2. CASE call[c].at # "idle"
          BY <1>0, <2>3, <5>2 DEF LifespanInv
        <5> QED BY <5>1, <5>2
      <4>2. CASE Drops(c)
        <5>1. call[c].at # "idle"
          BY <4>2, DropsIs, Order DEF Holds
        <5> QED BY <1>0, <2>3, <5>1 DEF LifespanInv
      <4> QED BY <1>2, <4>1, <4>2
    <3>2. call'[Lifespan] = call[Lifespan]
      BY <1>0, <2>1, <2>3
    <3>3. CASE call' = call
      BY <1>0, <2>1, <3>3 DEF LifespanInv
    <3>4. CASE call[Lifespan].at = "up"
      BY <1>0, <2>1, <3>4, <3>2 DEF LifespanInv
    <3> QED BY <3>1, <3>3, <3>4
  <2> QED BY <1>0, <2>2, <2>3
<1>3. CASE Fault
  BY <1>0, <1>3 DEF Fault, LifespanInv
<1> QED BY <1>1, <1>2, <1>3, TurnIs DEF ContainerMove

LEMMA LockStep ==
  ASSUME ContainerIInv, ContainerMove
  PROVE  LockInv' /\ producer' \in {"none", "starting", "up"}
         /\ initialized' \in BOOLEAN /\ lock' \in Coroutines \cup {None}
<1>0. /\ None \notin Coroutines /\ Requests \subseteq Coroutines /\ LockInv
      /\ producer \in {"none", "starting", "up"}
      /\ initialized \in BOOLEAN /\ lock \in Coroutines \cup {None}
      /\ CallType /\ {"connect", "send", "dropped"} \subseteq Steps
  BY Typing DEF ContainerIInv, ContainerInv, ContainerType, ContainerTypeOK, Steps, Ended
<1> DEFINE TypesNext == /\ producer' \in {"none", "starting", "up"}
                        /\ initialized' \in BOOLEAN /\ lock' \in Coroutines \cup {None}
<1>1. ASSUME NEW c \in Coroutines, call'[c].at \notin {"connect", "send"}, call[c].at # "connect",
             \A d \in Coroutines \ {c} : call'[d] = call[d],
             producer' = producer, initialized' = initialized, lock' = lock
      PROVE  LockInv' /\ TypesNext
  BY <1>0, <1>1 DEF LockInv
<1>2. ASSUME NEW c \in Coroutines, call'[c].at = "send", call[c].at # "connect", initialized,
             \A d \in Coroutines \ {c} : call'[d] = call[d],
             producer' = producer, initialized' = initialized, lock' = lock
      PROVE  LockInv' /\ TypesNext
  BY <1>0, <1>2 DEF LockInv
<1>3. ASSUME NEW c \in Coroutines, call[c].at = "connect", call'[c].at # "connect",
             \A d \in Coroutines \ {c} : call'[d] = call[d],
             \/ producer' = "up" /\ initialized' = TRUE
             \/ producer' = "none" /\ initialized' = FALSE /\ call'[c].at # "send",
             lock' = None
      PROVE  LockInv' /\ TypesNext
  <2>1. lock = c /\ ~initialized
    BY <1>0, <1>3 DEF LockInv
  <2>2. \A d \in Coroutines : call'[d].at # "connect" /\ lock' # d
    BY <1>0, <1>3, <2>1 DEF LockInv
  <2>3. \A r \in Requests : call'[r].at = "send" => r = c
    BY <1>0, <1>3, <2>1 DEF LockInv
  <2> QED BY <1>3, <2>2, <2>3 DEF LockInv
<1>4. ASSUME NEW c \in Coroutines, Connect(c)
      PROVE  LockInv' /\ TypesNext
  <2>1. call'[c].at = "connect" /\ \A d \in Coroutines \ {c} : call'[d] = call[d]
    BY <1>0, <1>4, GotoIs DEF Connect
  <2>2. lock' = c /\ producer' = "starting" /\ initialized' = initialized /\ ~initialized /\ lock = None
    BY <1>4 DEF Connect
  <2>3. \A d \in Coroutines : call[d].at # "connect"
    BY <1>0, <2>2 DEF LockInv
  <2>4. \A d \in Coroutines : call'[d].at = "connect" <=> lock' = d
    BY <2>1, <2>2, <2>3
  <2>5. \A r \in Requests : call'[r].at # "send"
    BY <1>0, <2>1, <2>2 DEF LockInv
  <2> QED BY <1>0, <2>2, <2>4, <2>5 DEF LockInv
<1>5. ASSUME NEW c \in Coroutines, Connected(c) \/ ConnectFails(c)
      PROVE  LockInv' /\ TypesNext
  <2>1. /\ call'[c].at # "connect" /\ (ConnectFails(c) => call'[c].at # "send")
        /\ \A d \in Coroutines \ {c} : call'[d] = call[d]
    <3>1. CASE c = Lifespan
      <4>1. Turn(c)
        BY <1>5, <3>1, TurnIs DEF InitSteps
      <4> QED BY <4>1, TurnGoes DEF Needable
    <3>2. CASE c # Lifespan /\ Connected(c)
      BY <1>0, <3>2, GotoIs DEF Connected, ConnectFails
    <3>3. CASE c # Lifespan /\ ConnectFails(c)
      BY <1>0, <3>3, GotoIs DEF ConnectFails
    <3> QED BY <1>5, <3>1, <3>2, <3>3
  <2>2. call[c].at = "connect" /\ lock' = None
    BY <1>5 DEF Connected, ConnectFails
  <2>3. \/ producer' = "up" /\ initialized' = TRUE
        \/ producer' = "none" /\ initialized' = FALSE /\ call'[c].at # "send"
    BY <1>5, <2>1 DEF Connected, ConnectFails
  <2> QED BY <1>3, <2>1, <2>2, <2>3
<1>6. ASSUME NEW c \in Coroutines, InitSteps(c) \/ Drops(c), ~(Connected(c) \/ ConnectFails(c))
      PROVE  LockInv' /\ TypesNext
  <2>1. call'[c].at \notin {"connect", "send"} /\ \A d \in Coroutines \ {c} : call'[d] = call[d]
    <3>1. CASE InitSteps(c)
      BY <3>1, TurnIs, TurnGoes DEF Needable
    <3>2. CASE Drops(c)
      BY <3>2, DropsIs
    <3> QED BY <1>6, <3>1, <3>2
  <2>2. call[c].at # "connect" /\ UNCHANGED producerVars
    BY <1>6, Typing DEF InitSteps, Drops, Start, InitAgain, Started, StartFails, Failing,
       CreateCollection, CreateConflicts, FindCollection
  <2> QED BY <1>1, <2>1, <2>2 DEF producerVars
<1>7. ASSUME NEW c \in Coroutines, PlainSteps(c), ~Connect(c), ~(Connected(c) \/ ConnectFails(c))
      PROVE  LockInv' /\ TypesNext
  <2>1. \A d \in Coroutines \ {c} : call'[d] = call[d]
    BY <1>7, PlainIs
  <2>2. call[c].at # "connect" /\ UNCHANGED producerVars
    BY <1>7 DEF PlainSteps, Arrive, Obtain, LoadModel, LoadFails, UseFails, Serve, Publish,
       FindConnected, FindCollection, Handling
  <2>3. CASE call' = call
    BY <1>0, <2>2, <2>3 DEF LockInv, producerVars
  <2>4. CASE Comes(c) \/ Obtains(c) \/ Creates(c)
    <3>1. call'[c].at \notin {"connect", "send"}
      BY <2>4 DEF Comes, Obtains, Creates, HandsOut
    <3> QED BY <1>1, <2>1, <2>2, <3>1 DEF producerVars
  <2>5. CASE Ends(c)
    <3>1. call'[c].at = "send" => initialized
      <4>1. CASE Publish(c)
        <5>1. PICK step \in {"waiting", "send"} : Leave(c, step) /\ (step = "send" => initialized)
          BY <4>1 DEF Publish
        <5>2. step \in Steps
          BY DEF Steps
        <5> QED BY <1>0, <5>1, <5>2, LeaveIs
      <4>2. CASE LoadFails(c) \/ UseFails(c) \/ Serve(c)
        <5>1. PICK step \in Ended : Leave(c, step)
          BY <4>2 DEF LoadFails, UseFails, Serve, Ended
        <5>2. step \in Steps /\ step # "send"
          BY DEF Steps, Ended
        <5> QED BY <1>0, <5>1, <5>2, LeaveIs
      <4>3. CASE FindConnected(c)
        BY <4>3 DEF FindConnected
      <4>4. CASE Arrive(c) \/ Obtain(c) \/ LoadModel(c) \/ FindCollection(c)
        <5>1. call'[c].at # "send"
          <6>1. CASE Arrive(c)
            BY <1>0, <2>5, <6>1 DEF Arrive, Ends
          <6>2. CASE Obtain(c)
            <7>1. c \in Coroutines /\ call[c].left # <<>> /\ HandOut(c, container) /\ attempts \in Nat
              BY <6>2, Typing DEF Obtain
            <7> QED BY <1>0, <7>1, HandOutIs DEF HandsOut
          <6>3. CASE LoadModel(c)
            BY <2>5, <6>3 DEF LoadModel, Handling
          <6>4. CASE FindCollection(c)
            BY <2>5, <6>4 DEF FindCollection, Ends
          <6> QED BY <4>4, <6>1, <6>2, <6>3, <6>4
        <5> QED BY <5>1
      <4> QED BY <1>7, <4>1, <4>2, <4>3, <4>4 DEF PlainSteps
    <3>2. call'[c].at # "connect"
      BY <2>5 DEF Ends, Ended
    <3> QED BY <1>1, <1>2, <2>1, <2>2, <3>1, <3>2 DEF producerVars
  <2>6. ~Connects(c)
    <3>1. CASE Arrive(c) \/ Obtain(c) \/ LoadModel(c) \/ LoadFails(c) \/ UseFails(c) \/ Serve(c)
               \/ Publish(c) \/ FindCollection(c)
      BY <3>1 DEF Connects, Arrive, Obtain, LoadModel, LoadFails, UseFails, Serve, Publish,
         FindCollection, Handling
    <3>2. CASE FindConnected(c)
      <4>1. call'[c].at = "send"
        BY <1>0, <3>2, GotoIs DEF FindConnected
      <4> QED BY <4>1 DEF Connects
    <3> QED BY <1>7, <3>1, <3>2 DEF PlainSteps
  <2> QED BY <1>7, <2>3, <2>4, <2>5, <2>6, PlainIs
<1>8. CASE Fault
  BY <1>0, <1>8 DEF Fault, LockInv, producerVars
<1>9. ASSUME NEW c \in Coroutines, InitSteps(c) \/ PlainSteps(c) \/ Drops(c)
      PROVE  LockInv' /\ TypesNext
  BY <1>4, <1>5, <1>6, <1>7, <1>9
<1> QED BY <1>8, <1>9 DEF ContainerMove

\* What a move does to one coroutine.
LEMMA CallMoves ==
  ASSUME ContainerIInv, ContainerMove, NEW c \in Coroutines
  PROVE  /\ call'[c].object \in {0, attempts, call[c].object}
         /\ call'[c].at = "create" =>
              \/ call[c].at = "create" /\ ~InitSteps(c)
              \/ call[c].at = "vectors" /\ "vectors" \notin made'
<1>1. ASSUME NEW d \in Coroutines, InitSteps(d)
      PROVE  /\ call'[c].object \in {0, attempts, call[c].object}
             /\ call'[c].at = "create" => c # d /\ call'[c] = call[c]
  <2>1. PICK fields \in Fields, behind \in 0..5 :
          FieldsAfter(d, fields, behind) /\ InitTurn(d, fields, behind)
    BY <1>1, TurnIs DEF Turn
  <2>2. d # Lifespan => call[d].left # <<>>
    BY <1>1, TurnIs, TurnHas
  <2>3. CASE c = d
    <3>1. Returned(d, fields, behind) \/ Awaits(d, fields, behind) \/ Asserted(d, fields, behind)
      BY <2>1, <2>2, InitTurnIs
    <3>2. call'[c].object \in {0, attempts, call[c].object}
      BY <2>3, <3>1 DEF Returned, Awaits, Asserted, HandsOut, Keeps
    <3>3. call'[c].at # "create"
      BY <1>1, <2>3, TurnIs, TurnGoes DEF Needable
    <3> QED BY <3>2, <3>3
  <2>4. CASE c # d
    BY <2>1, <2>2, <2>4, InitTurnIs
  <2> QED BY <2>3, <2>4
<1>2. ASSUME NEW d \in Coroutines, PlainSteps(d) \/ Drops(d)
      PROVE  /\ call'[c].object \in {0, attempts, call[c].object}
             /\ call'[c].at = "create" =>
                  \/ call[c].at = "create" /\ call'[c] = call[c]
                  \/ call[c].at = "vectors" /\ "vectors" \notin made'
  <2>1. CASE c # d
    BY <1>2, <2>1, PlainIs, DropsIs
  <2>2. CASE c = d /\ PlainSteps(c)
    BY <2>2, PlainIs DEF Ends, Ended, Comes, Obtains, Creates, Connects, HandsOut, Keeps
  <2>3. CASE c = d /\ Drops(c)
    BY <2>3, DropsIs DEF Keeps
  <2> QED BY <1>2, <2>1, <2>2, <2>3
<1>3. ASSUME InitSteps(c), call'[c].at = "create"
      PROVE  FALSE
  BY <1>3, TurnIs, TurnGoes DEF Needable
<1>4. CASE Fault
  BY <1>3, <1>4 DEF Fault
<1> QED BY <1>1, <1>2, <1>3, <1>4 DEF ContainerMove

LEMMA StartStep ==
  ASSUME ContainerIInv, ContainerMove
  PROVE  StartInv'
<1>0. /\ StartInv /\ attempts \in Nat /\ troubles \in Nat /\ attempts <= troubles
      /\ {"storage", "embedding", "vectors"} \subseteq Services
  BY Typing, Order DEF ContainerIInv, ContainerInv
<1>1. /\ troubles' \in Int /\ troubles' >= troubles
      /\ attempts' = attempts \/ (attempts' = attempts + 1 /\ troubles' = troubles + 1)
      /\ made \subseteq made' /\ models \subseteq models'
      /\ "vectors" \in made' \ made =>
           /\ attempts' = attempts
           /\ troubles' > troubles \/ \E c \in Coroutines : CreateCollection(c)
  BY StartVarsIs
<1>2. /\ attempts' \in Nat /\ attempts' <= troubles' /\ attempts' >= attempts
      /\ attempts > 0 => attempts' > 0
      /\ troubles > attempts => troubles' > attempts'
      /\ attempts' = attempts /\ troubles' > troubles => troubles' > attempts'
  BY ONLY <1>0, <1>1
<1>3. \A c \in Coroutines : call'[c].object <= attempts'
  <2> SUFFICES ASSUME NEW c \in Coroutines PROVE call'[c].object <= attempts'
    OBVIOUS
  <2>1. call'[c].object \in {0, attempts, call[c].object}
    BY CallMoves
  <2>2. call[c].object \in Nat /\ call[c].object <= attempts
    BY CallTyping
  <2> QED BY ONLY <1>0, <1>2, <2>1, <2>2
<1>4. ASSUME NEW c \in Coroutines, call'[c].at = "create", "vectors" \in made'
      PROVE  troubles' > attempts'
  <2>1. call[c].at = "create" /\ ~InitSteps(c)
    BY <1>4, CallMoves
  <2>2. CASE "vectors" \in made
    BY <1>0, <1>2, <1>4, <2>1, <2>2 DEF StartInv
  <2>3. CASE "vectors" \notin made
    <3>1. ASSUME NEW d \in Coroutines, CreateCollection(d)
          PROVE  FALSE
      <4>1. call[d].at = "create"
        BY <3>1 DEF CreateCollection
      <4>2. d = c
        BY <1>0, <2>1, <4>1 DEF ContainerIInv, ContainerInv, UnderWay, Holds
      <4> QED BY <2>1, <3>1, <4>2 DEF InitSteps
    <3> QED BY <1>1, <1>2, <1>4, <2>3, <3>1
  <2> QED BY <2>2, <2>3
\* What the fields say of what exists.
<1> DEFINE Sets == /\ \A s \in {"storage", "vectors"} : container'[s] = "set" => s \in made'
                   /\ container'["embedding"] = "set" => attempts' \in models'
                   /\ \A c \in Coroutines : Holds(c, "vectors")' /\ container'["embedding"] = "none"
                        => attempts' > 0
<1>5. ASSUME NEW c \in Coroutines, Turn(c)
      PROVE  Sets
  <2>1. PICK fields \in Fields, behind \in 0..5 :
          FieldsAfter(c, fields, behind) /\ InitTurn(c, fields, behind)
    BY <1>5 DEF Turn
  <2>2. c # Lifespan => call[c].left # <<>>
    BY <1>5, TurnHas
  <2>3. \A s \in Services : ~Past(s, behind) => fields[s] = container[s]
    BY <2>1, FieldsAfterIs
  <2>4. /\ behind = 3 => fields["storage"] = "none" \/ "storage" \in made'
        /\ behind = 5 => fields["vectors"] = "none" \/ "vectors" \in made'
        /\ behind = 4 => \/ fields["embedding"] = "none" /\ attempts' = attempts + 1
                         \/ fields["embedding"] = "set" /\ attempts' = attempts /\ attempts \in models'
        /\ behind # 4 => attempts' = attempts
    <3>1. CASE behind = 0
      BY <2>1, <3>1 DEF FieldsAfter, startVars
    <3>2. CASE behind # 0
      <4>1. DOMAIN container = Services /\ InitOrder[behind] \in Services
        BY <3>2, Typing, Order
      <4>2. CASE fields = [container EXCEPT ![InitOrder[behind]] = "set"] /\ LeavesSet(behind)
        <5>1. fields[InitOrder[behind]] = "set"
          BY <4>1, <4>2
        <5> QED BY <3>2, <4>2, <5>1, Order DEF LeavesSet
      <4>3. CASE fields = [container EXCEPT ![InitOrder[behind]] = "none"] /\ LeavesNone(c, behind)
        <5>1. fields[InitOrder[behind]] = "none"
          BY <4>1, <4>3
        <5>2. behind # 4 => attempts' = attempts
          BY <1>0, <4>3 DEF LeavesNone
        <5>3. behind = 4 => attempts' = attempts + 1
          BY <4>3 DEF LeavesNone
        <5> QED BY <3>2, <5>1, <5>2, <5>3, Order
      <4> QED BY <2>1, <3>2, <4>2, <4>3 DEF FieldsAfter
    <3> QED BY <3>1, <3>2
  <2>5. \A s \in {"storage", "embedding", "vectors"} :
          container'[s] = fields[s] \/ (container'[s] = "starting" /\ fields[s] = "none")
    <3>1. CASE Returned(c, fields, behind)
      BY <3>1, Order DEF Returned
    <3>2. CASE Awaits(c, fields, behind)
      BY <3>2, Order DEF Awaits
    <3>3. CASE Asserted(c, fields, behind)
      BY <3>3 DEF Asserted
    <3> QED BY <2>1, <2>2, <3>1, <3>2, <3>3, InitTurnIs
  <2>6. \A s \in {"storage", "vectors"} : container'[s] = "set" => s \in made'
    BY <1>0, <1>1, <2>3, <2>4, <2>5, Order DEF Past, StartInv
  <2>7. container'["embedding"] = "set" => attempts' \in models'
    BY <1>0, <1>1, <2>3, <2>4, <2>5, Order DEF Past, StartInv
  <2>8. ASSUME NEW d \in Coroutines, Holds(d, "vectors")', container'["embedding"] = "none"
        PROVE  attempts' > 0
    <3>1. fields["embedding"] = "none"
      BY <2>5, <2>8
    <3>2. CASE behind = 4
      BY <1>0, <2>4, <3>1, <3>2
    <3>3. CASE behind # 4
      <4>1. container["embedding"] = "none"
        BY <1>0, <2>3, <3>1, <3>3, Order DEF Past
      <4>2. Holds(d, "vectors")
        <5>1. CASE d # c
          BY <2>1, <2>2, <2>8, <5>1, InitTurnIs DEF Holds
        <5>2. CASE d = c
          <6>1. call'[c].at = "vectors"
            BY <1>5, <2>8, <5>2, TurnGoes DEF Needable, Holds
          <6>2. Awaits(c, fields, behind)
            BY <2>1, <2>2, <6>1, InitTurnIs DEF Returned, Asserted, HandsOut
          <6> QED BY <3>1, <6>1, <6>2, Order DEF Awaits
        <5> QED BY <5>1, <5>2
      <4> QED BY <1>0, <1>2, <4>1, <4>2 DEF StartInv
    <3> QED BY <3>2, <3>3
  <2> QED BY <2>6, <2>7, <2>8
<1>6. ASSUME container' = container, attempts' = attempts,
             \A c \in Coroutines : Holds(c, "vectors")' => Holds(c, "vectors")
      PROVE  Sets
  BY <1>0, <1>1, <1>6 DEF StartInv
<1>7. ASSUME NEW c \in Coroutines, PlainSteps(c) \/ Drops(c)
      PROVE  Sets
  <2>1. /\ container' = container /\ attempts' = attempts
        /\ \A d \in Coroutines \ {c} : call'[d] = call[d]
    BY <1>7, PlainIs, DropsIs
  <2>2. Holds(c, "vectors")' => Holds(c, "vectors")
    <3>1. CASE PlainSteps(c)
      BY <3>1, PlainIs DEF Ends, Ended, Comes, Obtains, Creates, Connects, HandsOut, Holds
    <3>2. CASE Drops(c)
      BY <3>2, DropsIs DEF Holds
    <3> QED BY <1>7, <3>1, <3>2
  <2>3. \A d \in Coroutines : Holds(d, "vectors")' => Holds(d, "vectors")
    BY <2>1, <2>2 DEF Holds
  <2> QED BY <1>6, <2>1, <2>3
<1>8. ASSUME Fault
      PROVE  Sets
  BY <1>6, <1>8 DEF Fault, Holds
<1>9. Sets
  BY <1>5, <1>7, <1>8, TurnIs DEF ContainerMove
<1> QED BY <1>2, <1>3, <1>4, <1>9 DEF StartInv

LEMMA ElementsOf ==
  ASSUME NEW left \in Seq(Needable), left # <<>>
  PROVE  Elements(left) = {Head(left)} \cup Elements(Tail(left))
<1>1. /\ Len(left) \in Nat \ {0} /\ DOMAIN left = 1..Len(left) /\ Head(left) = left[1]
      /\ DOMAIN Tail(left) = 1..(Len(left) - 1)
      /\ \A i \in 1..(Len(left) - 1) : Tail(left)[i] = left[i + 1]
  OBVIOUS
<1>2. ASSUME NEW i \in DOMAIN left
      PROVE  left[i] = Head(left) \/ \E j \in DOMAIN Tail(left) : Tail(left)[j] = left[i]
  <2>1. CASE i = 1
    BY <1>1, <2>1
  <2>2. CASE i # 1
    <3>1. i - 1 \in 1..(Len(left) - 1) /\ i = (i - 1) + 1
      BY <1>1, <1>2, <2>2
    <3> QED BY <1>1, <3>1
  <2> QED BY <2>1, <2>2
<1>3. ASSUME NEW j \in DOMAIN Tail(left)
      PROVE  \E i \in DOMAIN left : left[i] = Tail(left)[j]
  <2>1. j + 1 \in 1..Len(left) /\ Tail(left)[j] = left[j + 1]
    BY <1>1, <1>3
  <2> QED BY <1>1, <2>1
<1>4. 1 \in DOMAIN left /\ left[1] = Head(left)
  BY <1>1
<1> QED BY <1>2, <1>3, <1>4 DEF Elements

\* While nothing fails, what is assigned stays, unless the collection exists.
LEMMA AssignedStays ==
  ASSUME ContainerIInv, ContainerMove, troubles' = troubles
  PROVE  /\ attempts' = attempts
         /\ \A s \in Needable : container[s] # "none" =>
              container'[s] # "none" \/ (s = "vectors" /\ s \in made')
<1>0. troubles \in Nat /\ DOMAIN container = Services /\ Needable \subseteq Services \ {"rag"}
  BY Typing, Order DEF Needable
<1>1. made \subseteq made' /\ attempts' = attempts
  BY <1>0, StartVarsIs
<1>2. ASSUME NEW c \in Coroutines, Turn(c), NEW s \in Needable, container[s] # "none"
      PROVE  container'[s] # "none" \/ (s = "vectors" /\ s \in made')
  <2>1. PICK fields \in Fields, behind \in 0..5 :
          FieldsAfter(c, fields, behind) /\ InitTurn(c, fields, behind)
    BY <1>2 DEF Turn
  <2>2. c # Lifespan => call[c].left # <<>>
    BY <1>2, TurnHas
  <2>3. fields[s] # "none" \/ (s = "vectors" /\ s \in made)
    <3>1. CASE ~Past(s, behind)
      BY <1>0, <1>2, <2>1, <3>1, FieldsAfterIs
    <3>2. CASE Past(s, behind) /\ fields = [container EXCEPT ![InitOrder[behind]] = "set"]
      BY <1>0, <3>2 DEF Past
    <3>3. CASE Past(s, behind) /\ LeavesNone(c, behind)
      <4>1. call[c].at = "create" /\ "vectors" \in made
        BY <1>0, <3>3 DEF LeavesNone
      <4>2. Holds(c, s)
        BY <1>0, <2>1, <3>3, FieldsAfterIs
      <4> QED BY <4>1, <4>2, Order DEF Holds, Needable
    <3>4. Past(s, behind) => behind # 0
      BY DEF Past
    <3> QED BY <2>1, <3>1, <3>2, <3>3, <3>4 DEF FieldsAfter
  <2>4. container'[s] = fields[s] \/ container'[s] = "starting"
    <3>1. CASE Returned(c, fields, behind)
      BY <1>0, <3>1 DEF Returned
    <3>2. CASE Awaits(c, fields, behind)
      BY <1>0, <3>2 DEF Awaits
    <3>3. CASE Asserted(c, fields, behind)
      BY <3>3 DEF Asserted
    <3> QED BY <2>1, <2>2, <3>1, <3>2, <3>3, InitTurnIs
  <2> QED BY <1>1, <2>3, <2>4
<1>3. ASSUME NEW c \in Coroutines, PlainSteps(c) \/ Drops(c)
      PROVE  container' = container
  BY <1>3, PlainIs, DropsIs
<1>4. Fault => container' = container
  BY DEF Fault
<1> QED BY <1>1, <1>2, <1>3, <1>4, TurnIs DEF ContainerMove

\* What init has passed for a request that nothing has failed for is there.
LEMMA Reached ==
  ASSUME ContainerIInv, NEW r \in Requests, NEW fields \in Fields, NEW behind \in 0..5,
         FieldsAfter(r, fields, behind), Hopeful(r), troubles' = troubles
  PROVE  /\ Passes(fields, behind, 3) /\ Head(call[r].left) = "storage" => fields["storage"] # "none"
         /\ Passes(fields, behind, 4) => fields["embedding"] # "none"
         /\ Passes(fields, behind, 5) => fields["vectors"] # "none"
<1>0. r \in Coroutines /\ r # Lifespan /\ troubles \in Nat /\ DOMAIN container = Services
  BY Typing
<1>1. behind = 0 \/ behind \in 3..5
  BY <1>0 DEF FieldsAfter
<1>2. \A s \in Services : ~Past(s, behind) => fields[s] = container[s]
  BY <1>0, FieldsAfterIs
<1>3. CASE behind = 0
  BY <1>3, Order DEF Passes
<1>4. CASE behind \in 3..5
  <2>1. Holds(r, InitOrder[behind])
    BY <1>4 DEF FieldsAfter
  <2>2. ~(call[r].at = "create" /\ "vectors" \in made)
    BY DEF Hopeful
  <2>3. fields = [container EXCEPT ![InitOrder[behind]] = "set"]
    BY <1>0, <1>4, <2>2 DEF FieldsAfter, LeavesNone
  <2>4. fields[InitOrder[behind]] = "set"
    BY <1>0, <1>4, <2>3, Order
  <2>5. CASE behind = 3
    BY <2>4, <2>5, Order DEF Passes
  <2>6. CASE behind = 4
    <3>1. call[r].at = "embedding"
      BY <2>1, <2>6, Order DEF Holds
    <3>2. Head(call[r].left) = "storage" => container["storage"] # "none"
      BY <3>1 DEF Hopeful
    <3> QED BY <1>2, <2>4, <2>6, <3>2, Order DEF Past, Passes
  <2>7. CASE behind = 5
    <3>1. call[r].at \in {"vectors", "create"}
      BY <2>1, <2>7, Order DEF Holds
    <3>2. /\ Head(call[r].left) = "storage" => container["storage"] # "none"
          /\ container["embedding"] # "none"
      BY <3>1 DEF Hopeful
    <3> QED BY <1>2, <2>4, <2>7, <3>2, Order DEF Past
  <2> QED BY <1>4, <2>5, <2>6, <2>7
<1> QED BY <1>1, <1>3, <1>4

\* A request that is handed a service.
LEMMA HandedHope ==
  ASSUME ContainerIInv, ContainerMove, NEW r \in Requests, NEW fields,
         call[r].left # <<>>, Hopeful(r), troubles' = troubles,
         HandsOut(r, fields), fields[Head(call[r].left)] # "none",
         container'[Head(call[r].left)] # "none"
  PROVE  Hopeful(r)'
<1>0. r \in Coroutines /\ call[r].left \in Seq(Needable)
  BY Typing, CallTyping
<1>1. call[r].got \subseteq Needable
  BY <1>0, CallTyping
<1>2. Elements(call[r].left) = {Head(call[r].left)} \cup Elements(call'[r].left)
  BY <1>0, ElementsOf DEF HandsOut
<1>3. call'[r].at = "deps" /\ call'[r].got = call[r].got \cup {Head(call[r].left)}
  BY DEF HandsOut
<1>4. Needed(r) \subseteq call'[r].got \cup Elements(call'[r].left)
  BY <1>2, <1>3 DEF Hopeful
<1>5. \A s \in call'[r].got : container'[s] # "none" \/ (s = "vectors" /\ s \in made')
  BY <1>1, <1>3, AssignedStays, StartVarsIs DEF Hopeful
<1>6. "embedding" \in call'[r].got => call'[r].object = attempts'
  BY <1>3, AssignedStays DEF Hopeful, HandsOut
<1> QED BY <1>3, <1>4, <1>5, <1>6 DEF Hopeful, Needed, Elements

\* A request whose step leaves it with what it has.
LEMMA KeptHope ==
  ASSUME ContainerIInv, ContainerMove, NEW r \in Requests, Hopeful(r), troubles' = troubles, Keeps(r),
         call'[r].at \notin {"deps", "storage"} /\ Head(call[r].left) = "storage" =>
           container'["storage"] # "none",
         call'[r].at \in {"vectors", "create"} => container'["embedding"] # "none",
         call'[r].at = "create" => "vectors" \notin made'
  PROVE  Hopeful(r)'
<1>0. call[r].got \subseteq Needable
  BY Typing, CallTyping
<1>1. call'[r].left = call[r].left /\ call'[r].got = call[r].got /\ call'[r].object = call[r].object
  BY DEF Keeps
<1>2. \A s \in call'[r].got : container'[s] # "none" \/ (s = "vectors" /\ s \in made')
  BY <1>0, <1>1, AssignedStays, StartVarsIs DEF Hopeful
<1>3. "embedding" \in call'[r].got => call'[r].object = attempts'
  BY <1>1, AssignedStays DEF Hopeful
<1>4. Needed(r) \subseteq call'[r].got \cup Elements(call'[r].left)
  BY <1>1 DEF Hopeful
<1> QED BY <1>1, <1>2, <1>3, <1>4 DEF Hopeful, Needed, Elements

\* A turn of its own does not fail it, and leaves it hopeful.
LEMMA TurnHope ==
  ASSUME ContainerIInv, ContainerMove, NEW r \in Requests, Turn(r), Hopeful(r), troubles' = troubles
  PROVE  call'[r].at # "error" /\ Hopeful(r)'
<1>0. r \in Coroutines /\ r # Lifespan /\ call[r].left \in Seq(Needable) /\ call[r].left # <<>>
  BY Typing, CallTyping, TurnHas
<1>1. PICK fields \in Fields, behind \in 0..5 :
        FieldsAfter(r, fields, behind) /\ InitTurn(r, fields, behind)
  BY DEF Turn
<1>2. /\ Passes(fields, behind, 3) /\ Head(call[r].left) = "storage" => fields["storage"] # "none"
      /\ Passes(fields, behind, 4) => fields["embedding"] # "none"
      /\ Passes(fields, behind, 5) => fields["vectors"] # "none"
  BY <1>1, Reached
<1>3. Head(call[r].left) \in Needable /\ Needable \subseteq Services \ {"rag"}
  BY <1>0, Order DEF Needable
<1>4. CASE Returned(r, fields, behind)
  <2>1. HandsOut(r, fields) /\ Passes(fields, behind, 4) /\ Passes(fields, behind, 3)
    BY <1>0, <1>4 DEF Returned, Passes
  <2>2. fields["embedding"] # "none" /\ fields["vectors"] # "none"
    BY <1>2, <1>4, <2>1 DEF Returned
  <2>3. fields[Head(call[r].left)] # "none"
    BY <1>2, <1>3, <2>1, <2>2 DEF Needable
  <2>4. container'[Head(call[r].left)] # "none"
    BY <1>3, <1>4, <2>3 DEF Returned
  <2>5. call'[r].at = "deps"
    BY <2>1 DEF HandsOut
  <2> QED BY <1>0, <2>1, <2>3, <2>4, <2>5, HandedHope
<1>5. CASE Awaits(r, fields, behind)
  <2>1. PICK i \in 1..5 :
          /\ i > behind
          /\ fields[InitOrder[i]] = "none"
          /\ Passes(fields, behind, i - 1)
          /\ i = 5 => fields["embedding"] # "none"
          /\ call'[r].at = InitOrder[i]
          /\ container'[InitOrder[i]] = "starting"
          /\ \A s \in Services \ {InitOrder[i]} : container'[s] = fields[s]
    BY <1>5 DEF Awaits
  <2>2. fields["redis"] # "none" /\ fields["events"] # "none"
    <3>1. container["redis"] = "set" /\ container["events"] = "set"
      <4>1. call[r].at # "idle"
        BY <1>0, <1>1, Order DEF FieldsAfter, Holds
      <4>2. call[Lifespan].at = "up" /\ LifespanInv
        BY <4>1 DEF ContainerIInv, ContainerInv, LifespanInv
      <4> QED BY <4>2 DEF LifespanInv
    <3>2. ~Past("redis", behind) /\ ~Past("events", behind)
      BY <1>0, <1>1, Order DEF FieldsAfter, Past
    <3> QED BY <1>0, <1>1, <3>1, <3>2, FieldsAfterIs, Order
  <2>3. i \in 3..5
    BY <2>1, <2>2, Order
  <2>4. i # 3 /\ Head(call[r].left) = "storage" => container'["storage"] # "none"
    BY <1>2, <2>1, <2>3, Order DEF Passes
  <2>5. i = 5 => container'["embedding"] # "none"
    BY <2>1, Order
  <2>6. call'[r].at \in Needable /\ (call'[r].at = "vectors" => i = 5) /\ (i = 3 => call'[r].at = "storage")
    BY <2>1, <2>3, Order DEF Needable
  <2>7. Keeps(r) /\ call'[r].at \notin {"error", "create"}
    BY <1>5, <2>6 DEF Awaits, Needable
  <2>8. /\ call'[r].at \notin {"deps", "storage"} /\ Head(call[r].left) = "storage" =>
             container'["storage"] # "none"
        /\ call'[r].at \in {"vectors", "create"} => container'["embedding"] # "none"
    BY <2>4, <2>5, <2>6, <2>7
  <2> QED BY <2>7, <2>8, KeptHope
<1>6. CASE Asserted(r, fields, behind)
  <2>1. Passes(fields, behind, 5) /\ Passes(fields, behind, 4)
    BY <1>6 DEF Asserted, Passes
  <2> QED BY <1>2, <1>6, <2>1 DEF Asserted
<1> QED BY <1>0, <1>1, <1>4, <1>5, <1>6, InitTurnIs

\* The steps of others leave it hopeful.
LEMMA OthersHope ==
  ASSUME ContainerIInv, ContainerMove, NEW r \in Requests, call'[r] = call[r],
         Obtaining(r), call[r].at # "deps" => call[r].left # <<>>, Hopeful(r), troubles' = troubles
  PROVE  Hopeful(r)'
<1>0. r \in Coroutines /\ r # Lifespan /\ call[r].left \in Seq(Needable) /\ troubles \in Nat
  BY Typing, CallTyping
<1>1. Keeps(r)
  BY DEF Keeps
<1>2. \A s \in {"storage", "embedding"} : container[s] # "none" => container'[s] # "none"
  BY AssignedStays DEF Needable
<1>3. ASSUME call[r].at = "create"
      PROVE  "vectors" \notin made'
  <2>1. "vectors" \notin made
    BY <1>3 DEF Hopeful
  <2>2. ASSUME NEW d \in Coroutines, CreateCollection(d)
        PROVE  FALSE
    <3>1. call[d].at = "create"
      BY <2>2 DEF CreateCollection
    <3>2. d = r
      BY <1>0, <1>3, <3>1, Order DEF ContainerIInv, ContainerInv, UnderWay, Holds
    <3>3. call'[r].at # "create"
      BY <1>0, <2>2, <3>2, TurnIs, TurnGoes DEF InitSteps, Needable
    <3> QED BY <1>3, <3>3
  <2> QED BY <1>0, <2>1, <2>2, StartVarsIs
<1>4. call'[r].at \notin {"deps", "storage"} /\ Head(call[r].left) = "storage" =>
        container'["storage"] # "none"
  BY <1>2 DEF Hopeful
<1>5. call'[r].at \in {"vectors", "create"} => container'["embedding"] # "none"
  BY <1>2 DEF Hopeful
<1> QED BY <1>1, <1>3, <1>4, <1>5, KeptHope

\* What one request may expect.
Expects(r) ==
  /\ call[r].at \in RequestSteps
  /\ Obtaining(r) =>
       /\ call[r].at # "deps" => call[r].left # <<>>
       /\ call[r].got \cup Elements(call[r].left) \subseteq Needed(r)
       /\ call[r].before <= troubles
       /\ call[r].before = troubles => Hopeful(r)

LEMMA RequestStepInv ==
  ASSUME ContainerIInv, ContainerMove, NEW r \in Requests
  PROVE  Expects(r)'
<1>0. /\ Expects(r) /\ r \in Coroutines /\ r # Lifespan
      /\ call[r].left \in Seq(Needable) /\ call[r].got \subseteq Needable
      /\ call[r].before \in Nat /\ troubles \in Nat
      /\ troubles' \in Int /\ troubles' >= troubles
  BY Typing, CallTyping, StartVarsIs DEF ContainerIInv, ContainerInv, RequestInv, Expects
<1>a. Needed(r)' = Needed(r)
  BY DEF Needed
<1>1. CASE call'[r] = call[r]
  <2> SUFFICES ASSUME Obtaining(r)
               PROVE  /\ call[r].before <= troubles'
                      /\ call[r].before = troubles' => Hopeful(r)'
    BY <1>0, <1>1, <1>a DEF Expects, Obtaining, Elements
  <2>1. call[r].before <= troubles
    BY <1>0 DEF Expects
  <2>2. call[r].before <= troubles' /\ (call[r].before = troubles' =>
          troubles' = troubles /\ call[r].before = troubles)
    BY ONLY <1>0, <2>1
  <2> QED BY <1>0, <1>1, <2>2, OthersHope DEF Expects
<1>2. CASE Turn(r)
  <2>1. PICK fields \in Fields, behind \in 0..5 :
          FieldsAfter(r, fields, behind) /\ InitTurn(r, fields, behind)
    BY <1>2 DEF Turn
  <2>2. call[r].left # <<>> /\ Obtaining(r)
    <3>1. call[r].left # <<>>
      BY <1>0, <1>2, TurnHas
    <3>2. call[r].at \in Needable \cup {"create", "deps"}
      BY <1>0, <2>1, Order DEF FieldsAfter, Holds, Needable
    <3> QED BY <3>1, <3>2 DEF Obtaining
  <2>3. /\ call'[r].before = call[r].before
        /\ Returned(r, fields, behind) \/ Awaits(r, fields, behind) \/ Asserted(r, fields, behind)
    BY <1>0, <2>1, <2>2, InitTurnIs
  <2>4. call'[r].at \in {"deps", "error"} \cup Needable
    <3>1. LifespanInv /\ call[Lifespan].at = "up"
      BY <1>0, <2>2 DEF ContainerIInv, ContainerInv, LifespanInv, Obtaining, Needable
    <3>2. container["redis"] = "set" /\ container["events"] = "set"
      BY <3>1 DEF LifespanInv
    <3>3. ~Past("redis", behind) /\ ~Past("events", behind)
      BY <1>0, <2>1, Order DEF FieldsAfter, Past
    <3>4. fields["redis"] # "none" /\ fields["events"] # "none"
      BY <1>0, <2>1, <3>2, <3>3, FieldsAfterIs, Order
    <3> QED BY <1>0, <2>3, <3>4, Order DEF Returned, Awaits, Asserted, HandsOut, Needable
  <2>5. call'[r].at \in RequestSteps
    BY <2>4 DEF RequestSteps, Ended
  <2>6. call'[r].at \in Needable => call'[r].left # <<>>
    BY <1>0, <2>2, <2>3 DEF Returned, Awaits, Asserted, HandsOut, Keeps, Needable
  <2>7. call'[r].got \cup Elements(call'[r].left) \subseteq Needed(r)
    <3>1. call[r].got \cup Elements(call[r].left) \subseteq Needed(r)
      BY <1>0, <2>2 DEF Expects
    <3>2. Elements(call[r].left) = {Head(call[r].left)} \cup Elements(Tail(call[r].left))
      BY <1>0, <2>2, ElementsOf
    <3> QED BY <1>0, <2>3, <3>1, <3>2 DEF Returned, Awaits, Asserted, HandsOut, Keeps
  <2>8. call[r].before <= troubles
    BY <1>0, <2>2 DEF Expects
  <2>9. call[r].before <= troubles' /\ (call[r].before = troubles' =>
          troubles' = troubles /\ call[r].before = troubles)
    BY ONLY <1>0, <2>8
  <2>10. call'[r].before = troubles' => Hopeful(r)'
    BY <1>0, <1>2, <2>2, <2>3, <2>9, TurnHope DEF Expects
  <2>11. call'[r].at = "create" => call'[r].left # <<>>
    BY <2>4 DEF Needable
  <2> QED BY <1>a, <2>3, <2>5, <2>6, <2>7, <2>9, <2>10, <2>11 DEF Expects, Obtaining, Elements
<1>3. CASE PlainSteps(r) /\ call'[r] # call[r]
  <2>0. container' = container /\ attempts' = attempts /\ made' = made
    BY <1>0, <1>3, PlainIs
  <2>1. CASE Ends(r) \/ Connects(r)
    BY <2>1 DEF Ends, Connects, Expects, Obtaining, RequestSteps, Ended, Needable
  <2>2. CASE Comes(r)
    <3>1. /\ call'[r].at = "deps" /\ call'[r].left = Needs[r] /\ call'[r].got = {}
          /\ call'[r].before = troubles
      BY <2>2 DEF Comes
    <3>2. Elements(call'[r].left) = Needed(r)
      BY <3>1 DEF Elements, Needed
    <3>3. Hopeful(r)'
      BY <1>a, <3>1, <3>2 DEF Hopeful, Elements
    <3> QED BY <1>0, <1>a, <3>1, <3>2, <3>3 DEF Expects, Obtaining, RequestSteps, Elements
  <2>3. CASE Obtains(r)
    <3>1. /\ call[r].at = "deps" /\ call[r].left # <<>> /\ HandsOut(r, container)
          /\ container[Head(call[r].left)] # "none" /\ call'[r].before = call[r].before
          /\ call'[r].at = "deps"
      BY <2>3 DEF Obtains, HandsOut
    <3>2. Obtaining(r)
      BY <3>1 DEF Obtaining
    <3>3. call'[r].got \cup Elements(call'[r].left) \subseteq Needed(r)
      <4>1. Elements(call[r].left) = {Head(call[r].left)} \cup Elements(Tail(call[r].left))
        BY <1>0, <3>1, ElementsOf
      <4> QED BY <1>0, <3>1, <3>2, <4>1 DEF HandsOut, Expects
    <3>4. call[r].before <= troubles
      BY <1>0, <3>2 DEF Expects
    <3>5. call[r].before <= troubles' /\ (call[r].before = troubles' =>
            troubles' = troubles /\ call[r].before = troubles)
      BY ONLY <1>0, <3>4
    <3>6. call'[r].before = troubles' => Hopeful(r)'
      BY <1>0, <2>0, <3>1, <3>2, <3>5, HandedHope DEF Expects
    <3> QED BY <1>a, <3>1, <3>3, <3>5, <3>6 DEF Expects, Obtaining, RequestSteps, Elements
  <2>4. CASE Creates(r)
    <3>1. /\ call[r].at = "vectors" /\ call'[r].at = "create" /\ "vectors" \notin made
          /\ Keeps(r) /\ call'[r].before = call[r].before
      BY <2>4 DEF Creates
    <3>2. Obtaining(r)
      BY <3>1 DEF Obtaining, Needable
    <3>3. /\ call'[r].left = call[r].left /\ call'[r].left # <<>>
          /\ call'[r].got \cup Elements(call'[r].left) \subseteq Needed(r)
      BY <1>0, <3>1, <3>2 DEF Expects, Keeps
    <3>4. call[r].before <= troubles
      BY <1>0, <3>2 DEF Expects
    <3>5. call[r].before <= troubles' /\ (call[r].before = troubles' =>
            troubles' = troubles /\ call[r].before = troubles)
      BY ONLY <1>0, <3>4
    <3>6. ASSUME call'[r].before = troubles'
          PROVE  Hopeful(r)'
      <4>1. Hopeful(r) /\ troubles' = troubles
        BY <1>0, <3>1, <3>2, <3>5, <3>6 DEF Expects
      <4>2. Head(call[r].left) = "storage" => container'["storage"] # "none"
        BY <2>0, <3>1, <4>1 DEF Hopeful
      <4>3. container'["embedding"] # "none"
        BY <2>0, <3>1, <4>1 DEF Hopeful
      <4> QED BY <2>0, <3>1, <4>1, <4>2, <4>3, KeptHope
    <3> QED BY <1>a, <3>1, <3>3, <3>5, <3>6 DEF Expects, Obtaining, RequestSteps, Elements
  <2> QED BY <1>0, <1>3, <2>1, <2>2, <2>3, <2>4, PlainIs
<1>4. CASE Drops(r)
  BY <1>0, <1>4, DropsIs DEF Expects, Obtaining, RequestSteps, Ended, Needable
<1>5. ASSUME NEW c \in Coroutines, InitSteps(c) \/ PlainSteps(c) \/ Drops(c)
      PROVE  Expects(r)'
  <2>1. CASE c = r
    BY <1>1, <1>2, <1>3, <1>4, <1>5, <2>1, TurnIs
  <2>2. CASE c # r
    <3>1. call'[r] = call[r]
      BY <1>0, <1>5, <2>2, TurnIs, TurnGoes, PlainIs, DropsIs
    <3> QED BY <1>1, <3>1
  <2> QED BY <2>1, <2>2
<1>6. CASE Fault
  BY <1>1, <1>6 DEF Fault
<1> QED BY <1>5, <1>6 DEF ContainerMove

LEMMA ContainerStepInv ==
  ASSUME ContainerIInv, [Next]_vars
  PROVE  ContainerIInv'
<1>1. ContainerMove
  BY MoveIs
<1>2. container' \in Fields /\ CallType'
  <2>1. ASSUME NEW c \in Coroutines, InitSteps(c)
        PROVE  container' \in Fields /\ CallType'
    BY <2>1, TurnIs, TurnGoes
  <2>2. container \in Fields /\ CallType
    BY DEF ContainerIInv, ContainerType, ContainerTypeOK, Fields
  <2>3. ASSUME NEW c \in Coroutines, PlainSteps(c) \/ Drops(c)
        PROVE  container' \in Fields /\ CallType'
    BY <2>2, <2>3, PlainIs, DropsIs
  <2>4. CASE Fault
    BY <2>2, <2>4 DEF Fault, CallType
  <2> QED BY <1>1, <2>1, <2>3, <2>4 DEF ContainerMove
<1>3. ContainerType'
  <2>1. StartInv'
    BY <1>1, StartStep
  <2>2. attempts' \in 0..troubles'
    <3>1. /\ attempts \in Nat /\ attempts' <= troubles'
          /\ attempts' = attempts \/ attempts' = attempts + 1
      BY <1>1, <2>1, StartVarsIs, Typing DEF StartInv
    <3>2. troubles' \in Int
      BY <1>1, StartVarsIs
    <3> QED BY <3>1, <3>2
  <2> QED BY <1>1, <1>2, <2>2, StartVarsIs, LockStep DEF ContainerType, ContainerTypeOK, Fields
<1>4. RequestInv'
  BY <1>1, RequestStepInv DEF RequestInv, Expects
<1>5. \A s \in Services : UnderWay(s)'
  BY <1>1, UnderWayStep
<1> QED BY <1>1, <1>3, <1>4, <1>5, LifespanStep, LockStep, StartStep DEF ContainerIInv, ContainerInv

LEMMA ContainerStart ==
  ASSUME Init
  PROVE  ContainerIInv
<1> USE DEF Init, ContainerInit, Call
<1>1. \A c \in Coroutines : /\ call[c].at = "idle" /\ call[c].left = <<>> /\ call[c].got = {}
                            /\ call[c].object = 0 /\ call[c].before = 0
  OBVIOUS
<1>2. CallType
  BY DEF CallType, Steps
<1>3. ContainerType
  <2>1. container \in Fields
    BY DEF Fields
  <2>2. troubles \in 0..MaxTroubles /\ attempts \in 0..troubles
    BY TroublesAssumption
  <2>3. initialized \in BOOLEAN /\ models \subseteq 0..attempts
    OBVIOUS
  <2> QED BY <1>2, <2>1, <2>2, <2>3 DEF ContainerType, ContainerTypeOK, Fields
<1>4. Lifespan \in Coroutines /\ Requests \subseteq Coroutines /\ None \notin Coroutines
  BY LifespanAssumption DEF Coroutines
<1>5. LifespanInv
  BY <1>1, <1>4 DEF LifespanInv, Awaiting
<1>6. LockInv
  BY <1>1, <1>4 DEF LockInv
<1>7. RequestInv
  BY <1>1, <1>4 DEF RequestInv, RequestSteps, Obtaining, Needable
<1>8. ASSUME NEW s \in Services
      PROVE  UnderWay(s)
  BY <1>1, Order DEF UnderWay, Holds
<1>9. StartInv
  BY <1>1, Order DEF StartInv, Holds
<1> QED BY <1>3, <1>5, <1>6, <1>7, <1>8, <1>9 DEF ContainerIInv, ContainerInv

\* The container's invariant holds in every reachable state.
LEMMA ContainerInvariance == Spec => []ContainerIInv
<1>1. Init => ContainerIInv
  BY ContainerStart
<1>2. ContainerIInv /\ [Next]_vars => ContainerIInv'
  BY ContainerStepInv
<1> QED BY <1>1, <1>2, PTL DEF Spec

\* What a coroutine finds assigned but not started is being started by
\* another, but for a vector store that was dropped after a start of the
\* embedding and its own had failed; and nobody sends through a producer that
\* is not connected (Services.init, EventProducer.initialize and publish).
THEOREM NoStartIsAbandoned == Spec => []StartsAreUnderWay
<1>1. ContainerIInv => StartsAreUnderWay
  <2> SUFFICES ASSUME ContainerIInv PROVE StartsAreUnderWay
    OBVIOUS
  <2>1. \A s \in Services : container[s] = "starting" =>
          \/ \E c \in Coroutines : IsStarting(c, s)
          \/ s = "vectors" /\ attempts > 0 /\ troubles > attempts
    BY DEF ContainerIInv, ContainerInv, UnderWay, Holds, IsStarting, Abandoned
  <2>2. LockInv /\ lock \in Coroutines \cup {None} /\ initialized \in BOOLEAN
    BY DEF ContainerIInv, ContainerInv, ContainerType, ContainerTypeOK
  <2>3. /\ producer = "starting" => lock # None /\ call[lock].at = "connect"
        /\ lock # None => producer = "starting" /\ ~initialized
    BY <2>2 DEF LockInv
  <2>4. \A r \in Requests : call[r].at = "send" => producer = "up" /\ initialized
    BY <2>2 DEF LockInv
  <2> QED BY <2>1, <2>3, <2>4 DEF StartsAreUnderWay
<1> QED BY <1>1, ContainerInvariance, PTL

\* A request has something to blame: a failure since it came, or a service
\* that it needs, assigned but not started.
HasACause(r) == troubles' > call[r].before \/ \E s \in Needed(r) : container[s] = "starting"

\* The handler of a request that nothing has failed for cannot use a service.
LEMMA UseFailsFor ==
  ASSUME ContainerIInv, NEW r \in Requests, UseFails(r)
  PROVE  HasACause(r)
<1> SUFFICES ASSUME ~(troubles' > call[r].before)
             PROVE  \E s \in Needed(r) : container[s] = "starting"
  BY DEF HasACause
<1>1. /\ call[r].at = "deps" /\ call[r].left = <<>> /\ ~Works(r) /\ troubles' = troubles
  BY DEF UseFails, Handling
<1>2. r \in Coroutines /\ call[r].before \in Nat /\ troubles \in Nat /\ container \in Fields
  BY Typing, CallTyping
<1>3. /\ call[r].before <= troubles /\ (call[r].before = troubles => Hopeful(r))
      /\ call[r].got \subseteq Needed(r) /\ call[r].got \subseteq Needable
  BY <1>1, <1>2, CallTyping DEF ContainerIInv, ContainerInv, RequestInv, Obtaining
<1>4. Hopeful(r)
  BY <1>1, <1>2, <1>3
<1>5. Elements(call[r].left) = {}
  BY <1>1 DEF Elements
<1>6. Needed(r) \subseteq call[r].got
  BY <1>4, <1>5 DEF Hopeful
<1>7. StartInv /\ Needable \subseteq Services
  BY Order DEF ContainerIInv, ContainerInv, Needable
<1>8. CASE Unloaded(r)
  <2>1. "embedding" \in call[r].got /\ attempts \notin models /\ container["embedding"] # "none"
    BY <1>4, <1>8 DEF Unloaded, Hopeful
  <2>2. container["embedding"] = "starting"
    BY <1>2, <1>3, <1>7, <2>1 DEF StartInv, Fields
  <2> QED BY <1>3, <2>1, <2>2
<1>9. ASSUME NEW s \in Needed(r) \cap {"storage", "vectors"}, s \notin made
      PROVE  \E t \in Needed(r) : container[t] = "starting"
  <2>1. s \in call[r].got /\ container[s] # "none"
    BY <1>4, <1>6, <1>9 DEF Hopeful
  <2>2. container[s] = "starting"
    BY <1>2, <1>3, <1>7, <1>9, <2>1 DEF StartInv, Fields
  <2> QED BY <2>2
<1> QED BY <1>1, <1>6, <1>8, <1>9 DEF Works

\* A request only fails when something has failed since it came, or at a
\* service that it needs and that is assigned but not started at that moment:
\* what was missing when it came has been set up again (Services.init, the
\* dependencies and the handlers).
THEOREM FailuresHaveACause == Spec => FailuresAreExplained
<1>1. ASSUME ContainerIInv, [Next]_vars, NEW r \in Requests, call[r].at # "error", call'[r].at = "error"
      PROVE  HasACause(r)
  <2>0. /\ r \in Coroutines /\ r # Lifespan /\ call[r].before \in Nat /\ troubles \in Nat
        /\ troubles' \in Int /\ troubles' >= troubles /\ ContainerMove
    BY <1>1, Typing, CallTyping, MoveIs, StartVarsIs
  <2>1. ASSUME Obtaining(r), ~(troubles' > call[r].before)
        PROVE  Hopeful(r) /\ troubles' = troubles
    <3>1. call[r].before <= troubles /\ (call[r].before = troubles => Hopeful(r))
      BY <1>1, <2>1 DEF ContainerIInv, ContainerInv, RequestInv
    <3>2. call[r].before = troubles /\ troubles' = troubles
      BY ONLY <2>0, <2>1, <3>1
    <3> QED BY <3>1, <3>2
  <2>2. CASE InitSteps(r)
    <3>1. Turn(r)
      BY <1>1, <2>0, <2>2, TurnIs
    <3>2. Obtaining(r)
      <4>1. PICK fields \in Fields, behind \in 0..5 : FieldsAfter(r, fields, behind)
        BY <3>1 DEF Turn
      <4> QED BY <2>0, <4>1, Order DEF FieldsAfter, Holds, Obtaining, Needable
    <3> QED BY <1>1, <2>0, <2>1, <3>1, <3>2, TurnHope DEF HasACause
  <2>3. CASE Drops(r)
    <3>1. /\ Holds(r, "vectors") /\ container["embedding"] = "none"
          /\ troubles' > troubles \/ (call[r].at = "create" /\ "vectors" \in made)
      BY <1>1, <2>0, <2>3, DropsIs
    <3>2. Obtaining(r) /\ call[r].at \in {"vectors", "create"}
      BY <3>1, Order DEF Holds, Obtaining, Needable
    <3>3. ~Hopeful(r)
      BY <3>1, <3>2 DEF Hopeful
    <3> QED BY <2>1, <3>2, <3>3 DEF HasACause
  <2>4. CASE PlainSteps(r)
    <3>1. CASE UseFails(r)
      BY <1>1, <3>1, UseFailsFor
    <3>2. CASE LoadFails(r)
      <4>1. troubles' > troubles /\ Obtaining(r)
        BY <1>1, <3>2, TroubleIs DEF LoadFails, Handling, Obtaining
      <4> QED BY <2>0, <2>1, <4>1 DEF HasACause
    <3>3. CASE Serve(r) \/ Publish(r)
      <4>1. PICK step \in {"waiting", "send", "served"} : Leave(r, step)
        BY <3>3 DEF Serve, Publish
      <4>2. step \in Steps /\ CallType
        BY <1>1, <2>0, CallTyping DEF Steps, Ended
      <4>3. call'[r].at = step
        BY <2>0, <4>1, <4>2, LeaveIs
      <4> QED BY <1>1, <4>3
    <3>4. CASE FindConnected(r) \/ Connected(r) \/ ConnectFails(r) \/ Connect(r)
               \/ (FindCollection(r) /\ "vectors" \notin made)
      <4>1. PICK step \in {"send", "dropped", "connect", "create"} : Goto(r, step)
        BY <2>0, <3>4 DEF FindConnected, Connected, ConnectFails, Connect, FindCollection
      <4>2. step \in Steps /\ CallType
        BY <1>1, <2>0, CallTyping DEF Steps, Ended, Awaiting
      <4>3. call'[r].at = step
        BY <2>0, <4>1, <4>2, GotoIs
      <4> QED BY <1>1, <4>3
    <3>5. CASE Arrive(r) \/ Obtain(r)
      <4>1. CASE Arrive(r)
        BY <1>1, <2>0, <4>1, CallTyping DEF Arrive, Call, CallType
      <4>2. CASE Obtain(r)
        <5>1. call[r].left # <<>> /\ HandOut(r, container) /\ attempts \in Nat /\ CallType
          BY <1>1, <2>0, <4>2, Typing, CallTyping DEF Obtain
        <5>2. call'[r].at = "deps"
          BY <2>0, <5>1, HandOutIs DEF HandsOut
        <5> QED BY <1>1, <5>2
      <4> QED BY <3>5, <4>1, <4>2
    <3>6. CASE LoadModel(r)
      BY <1>1, <3>6 DEF LoadModel
    <3> QED BY <2>4, <3>1, <3>2, <3>3, <3>4, <3>5, <3>6 DEF PlainSteps
  <2>5. ASSUME NEW c \in Coroutines, c # r, InitSteps(c) \/ PlainSteps(c) \/ Drops(c)
        PROVE  FALSE
    BY <1>1, <2>0, <2>5, TurnIs, TurnGoes, PlainIs, DropsIs
  <2>6. CASE Fault
    BY <1>1, <2>6 DEF Fault
  <2> QED BY <2>0, <2>2, <2>3, <2>4, <2>5, <2>6 DEF ContainerMove
<1>2. ContainerIInv /\ [Next]_vars =>
        [\A r \in Requests :
           call[r].at # "error" /\ call'[r].at = "error" =>
             \/ troubles' > call[r].before
             \/ \E s \in Needed(r) : container[s] = "starting"]_containerVars
  BY <1>1 DEF HasACause
<1> QED BY <1>2, ContainerInvariance, PTL DEF Spec, FailuresAreExplained

-----------------------------------------------------------------------------
(***************************************************************************)
(* The delivery: the invariant behind CommittedIsAccounted,                *)
(* RepeatsAreExplained and OneKeyIsInOrder.                                *)
(***************************************************************************)
Messages == [event : Requests, after : SUBSET Requests]
Hands == {[partition |-> p, offset |-> i] : p \in Partitions, i \in Nat \ {0}}

\* The message in hand is the last that was read of its partition.
DeliveryType ==
  /\ partitionOf \in [Requests -> Partitions]
  /\ log \in [Partitions -> Seq(Messages)]
  /\ outcome \in [Requests -> {"none", "acked", "refused"}]
  /\ consumer \in [up : BOOLEAN, hand : {Nothing} \cup Hands]
  /\ consumer.hand # Nothing => consumer.up /\ consumer.hand.offset = position[consumer.hand.partition]
  /\ position \in [Partitions -> Nat] /\ committed \in [Partitions -> Nat]
  /\ \A p \in Partitions : /\ position[p] <= Len(log[p]) /\ committed[p] <= Len(log[p])
                           /\ consumer.up => committed[p] <= position[p]
  /\ handled \in [Requests -> Nat]
  /\ failed \subseteq Requests /\ cut \subseteq Requests
  /\ crashes \in 0..troubles

\* The copies of an event are the same message, in the partition of its key,
\* behind those of that partition acknowledged before it.
LogInv ==
  /\ \A p \in Partitions : \A i \in Offsets(p) :
       /\ partitionOf[log[p][i].event] = p
       /\ \A j \in Offsets(p) : log[p][j].event = log[p][i].event => log[p][j] = log[p][i]
       /\ \A e \in log[p][i].after : partitionOf[e] = p =>
            \E j \in Offsets(p) : j < i /\ log[p][j].event = e
  /\ \A e \in Requests : outcome[e] = "acked" \/ e \in Accounted => Copies(e) # {}
  /\ \A e \in Requests : IsFiniteSet(Copies(e))

\* What lies before these offsets is accounted for, or in hand.
AllRead(offsets) ==
  \A p \in Partitions : \A i \in 1..offsets[p] :
    \/ log[p][i].event \in Accounted
    \/ consumer.hand = [partition |-> p, offset |-> i]

ReadInv == AllRead(committed) /\ (consumer.up => AllRead(position))

\* The copies before these offsets, but for the one in hand.
ReadCopies(e, offsets) ==
  {m \in Copies(e) : /\ m[2] <= offsets[m[1]]
                     /\ consumer.hand # [partition |-> m[1], offset |-> m[2]]}

ReadBy(e) == ReadCopies(e, IF consumer.up THEN position ELSE committed)

\* Since the last crash each copy was handled once at most.
CountInv ==
  \A e \in Requests :
    handled[e] <= Cardinality(Copies(e)) * crashes + Cardinality(ReadBy(e))

\* The steps of a consumer, but for its commits and its end.
ConsumerStep == StartConsumer \/ LoopStep

DeliveryInv == DeliveryType /\ LogInv /\ ReadInv /\ CountInv /\ OneKeyIsInOrder

\* The log is left alone, and so is all that is said of its messages.
LEMMA SameLog ==
  ASSUME log' = log
  PROVE  /\ \A e : Copies(e)' = Copies(e)
         /\ \A p : Offsets(p)' = Offsets(p)
BY DEF Copies, Places, Offsets

LEMMA CopiesAre ==
  ASSUME DeliveryType, NEW e
  PROVE  /\ \A p \in Partitions : \A i \in Offsets(p) :
              log[p][i].event = e <=> <<p, i>> \in Copies(e)
         /\ \A m \in Copies(e) : /\ m[1] \in Partitions /\ m[2] \in Offsets(m[1])
                                 /\ m = <<m[1], m[2]>> /\ log[m[1]][m[2]].event = e
         /\ \A p \in Partitions : /\ Offsets(p) = 1..Len(log[p]) /\ Len(log[p]) \in Nat
                                  /\ \A i \in Offsets(p) : log[p][i] \in Messages
BY DEF DeliveryType, Copies, Places, Offsets

\* The message in hand is one of the log.
LEMMA HandIs ==
  ASSUME DeliveryType, consumer.hand # Nothing
  PROVE  /\ consumer.up
         /\ consumer.hand.partition \in Partitions
         /\ consumer.hand.offset \in Nat \ {0}
         /\ consumer.hand.offset = position[consumer.hand.partition]
         /\ consumer.hand.offset \in Offsets(consumer.hand.partition)
         /\ consumer.hand = [partition |-> consumer.hand.partition, offset |-> consumer.hand.offset]
         /\ EventAt(consumer.hand) \in Requests
         /\ <<consumer.hand.partition, consumer.hand.offset>> \in Copies(EventAt(consumer.hand))
<1>1. consumer.hand \in Hands
  BY DEF DeliveryType
<1>2. /\ consumer.hand.partition \in Partitions /\ consumer.hand.offset \in Nat \ {0}
      /\ consumer.hand = [partition |-> consumer.hand.partition, offset |-> consumer.hand.offset]
  BY <1>1 DEF Hands
<1>3. consumer.up /\ consumer.hand.offset = position[consumer.hand.partition]
  BY DEF DeliveryType
<1>4. position[consumer.hand.partition] <= Len(log[consumer.hand.partition])
  BY <1>2 DEF DeliveryType
<1>5. /\ consumer.hand.offset \in Offsets(consumer.hand.partition)
      /\ log[consumer.hand.partition][consumer.hand.offset] \in Messages
  BY <1>2, <1>3, <1>4, CopiesAre
<1>6. EventAt(consumer.hand) \in Requests
  BY <1>5 DEF EventAt, Messages
<1> QED BY <1>2, <1>3, <1>5, <1>6, CopiesAre DEF EventAt

\* One more message at the end of a partition.
Appended(p, message) == log' = [log EXCEPT ![p] = Append(@, message)]

LEMMA AppendIs ==
  ASSUME DeliveryType, NEW p \in Partitions, NEW message \in Messages, Appended(p, message)
  PROVE  /\ log' \in [Partitions -> Seq(Messages)]
         /\ Len(log'[p]) = Len(log[p]) + 1 /\ log'[p][Len(log[p]) + 1] = message
         /\ Offsets(p)' = Offsets(p) \cup {Len(log[p]) + 1}
         /\ Len(log[p]) + 1 \notin Offsets(p)
         /\ \A q \in Partitions \ {p} : log'[q] = log[q] /\ Offsets(q)' = Offsets(q)
         /\ \A q \in Partitions : \A i \in Offsets(q) : i \in Offsets(q)' /\ log'[q][i] = log[q][i]
<1>1. /\ log \in [Partitions -> Seq(Messages)] /\ log[p] \in Seq(Messages)
      /\ log'[p] = Append(log[p], message)
      /\ \A q \in Partitions \ {p} : log'[q] = log[q]
  BY DEF DeliveryType, Appended
<1>2. log' \in [Partitions -> Seq(Messages)]
  BY <1>1 DEF Appended
<1>3. /\ Len(log'[p]) = Len(log[p]) + 1 /\ log'[p][Len(log[p]) + 1] = message
      /\ \A i \in 1..Len(log[p]) : log'[p][i] = log[p][i]
      /\ Offsets(p)' = 1..(Len(log[p]) + 1) /\ Offsets(p) = 1..Len(log[p]) /\ Len(log[p]) \in Nat
  BY <1>1 DEF Offsets
<1>4. Offsets(p)' = Offsets(p) \cup {Len(log[p]) + 1} /\ Len(log[p]) + 1 \notin Offsets(p)
  BY <1>3
<1>5. \A q \in Partitions \ {p} : Offsets(q)' = Offsets(q)
  BY <1>1 DEF Offsets
<1> QED BY <1>1, <1>2, <1>3, <1>4, <1>5

LEMMA AppendCopies ==
  ASSUME DeliveryType, NEW p \in Partitions, NEW message \in Messages, Appended(p, message), NEW e
  PROVE  /\ e # message.event => Copies(e)' = Copies(e)
         /\ e = message.event => Copies(e)' = Copies(e) \cup {<<p, Len(log[p]) + 1>>}
<1> DEFINE new == <<p, Len(log[p]) + 1>>
<1>1. Places' = Places \cup {new}
  <2>1. ASSUME NEW m
        PROVE  m \in Places' <=> m \in Places \/ m = new
    <3>1. m \in Places' <=> \E q \in Partitions : m \in {q} \X Offsets(q)'
      BY DEF Places
    <3>2. m \in Places <=> \E q \in Partitions : m \in {q} \X Offsets(q)
      BY DEF Places
    <3>3. m = new <=> m \in {p} \X {Len(log[p]) + 1}
      OBVIOUS
    <3> QED BY <3>1, <3>2, <3>3, AppendIs
  <2> QED BY <2>1
<1>2. \A m \in Places : log'[m[1]][m[2]] = log[m[1]][m[2]]
  BY AppendIs DEF Places
<1>3. log'[new[1]][new[2]] = message
  BY AppendIs
<1> QED BY <1>1, <1>2, <1>3 DEF Copies

LEMMA AppendLogInv ==
  ASSUME DeliveryType, LogInv, NEW p \in Partitions, NEW message \in Messages,
         Appended(p, message), partitionOf[message.event] = p,
         \A j \in Offsets(p) : log[p][j].event = message.event => log[p][j] = message,
         \A e \in message.after : partitionOf[e] = p =>
           \E j \in Offsets(p) : log[p][j].event = e,
         UNCHANGED <<partitionOf, outcome, handled, failed, cut>>
  PROVE  LogInv'
<1> DEFINE last == Len(log[p]) + 1
<1>0. /\ Offsets(p)' = Offsets(p) \cup {last} /\ log'[p][last] = message
      /\ \A j \in Offsets(p) : j < last
      /\ \A q \in Partitions \ {p} : log'[q] = log[q] /\ Offsets(q)' = Offsets(q)
      /\ \A j \in Offsets(p) : log'[p][j] = log[p][j]
  <2>1. /\ Offsets(p)' = Offsets(p) \cup {last} /\ log'[p][last] = message
        /\ \A q \in Partitions \ {p} : log'[q] = log[q] /\ Offsets(q)' = Offsets(q)
        /\ \A j \in Offsets(p) : log'[p][j] = log[p][j]
    BY AppendIs
  <2>2. Offsets(p) = 1..Len(log[p]) /\ Len(log[p]) \in Nat
    BY CopiesAre
  <2> QED BY <2>1, <2>2
<1>1. ASSUME NEW q \in Partitions, NEW i \in Offsets(q)'
      PROVE  /\ partitionOf'[log'[q][i].event] = q
             /\ \A j \in Offsets(q)' : log'[q][j].event = log'[q][i].event => log'[q][j] = log'[q][i]
             /\ \A e \in log'[q][i].after : partitionOf'[e] = q =>
                  \E j \in Offsets(q)' : j < i /\ log'[q][j].event = e
  <2> HIDE DEF last
  <2>1. CASE q # p
    BY <1>0, <1>1, <2>1 DEF LogInv
  <2>2. CASE q = p /\ i = last
    BY <1>0, <2>2
  <2>3. CASE q = p /\ i \in Offsets(p)
    <3>1. partitionOf'[log'[q][i].event] = q
      BY <1>0, <2>3 DEF LogInv
    <3>2. ASSUME NEW j \in Offsets(q)', log'[q][j].event = log'[q][i].event
          PROVE  log'[q][j] = log'[q][i]
      <4>1. CASE j = last
        BY <1>0, <2>3, <3>2, <4>1
      <4>2. CASE j \in Offsets(p)
        BY <1>0, <2>3, <3>2, <4>2 DEF LogInv
      <4> QED BY <1>0, <2>3, <3>2, <4>1, <4>2
    <3>3. ASSUME NEW e \in log'[q][i].after, partitionOf'[e] = q
          PROVE  \E j \in Offsets(q)' : j < i /\ log'[q][j].event = e
      <4>1. PICK j \in Offsets(p) : j < i /\ log[p][j].event = e
        BY <1>0, <2>3, <3>3 DEF LogInv
      <4> QED BY <1>0, <2>3, <4>1
    <3> QED BY <3>1, <3>2, <3>3
  <2> QED BY <1>0, <1>1, <2>1, <2>2, <2>3
<1>2. \A e \in Requests : Copies(e) \subseteq Copies(e)' /\ (IsFiniteSet(Copies(e)) => IsFiniteSet(Copies(e)'))
  <2> TAKE e \in Requests
  <2>1. Copies(e)' = Copies(e) \/ Copies(e)' = Copies(e) \cup {<<p, last>>}
    BY AppendCopies
  <2>2. IsFiniteSet(Copies(e)) => IsFiniteSet(Copies(e) \cup {<<p, last>>})
    BY FS_AddElement
  <2> QED BY <2>1, <2>2
<1>3. Accounted' = Accounted
  BY DEF Accounted
<1> QED BY <1>1, <1>2, <1>3 DEF LogInv

\* A consumer's step adds to what is accounted for just what it had in hand.
ConsumerMove ==
  /\ UNCHANGED <<partitionOf, outcome>> /\ log' = log
  /\ Accounted \subseteq Accounted'
  /\ \A e \in Accounted' \ Accounted : consumer.hand # Nothing /\ e = EventAt(consumer.hand)

LEMMA ConsumerMoves ==
  ASSUME DeliveryType, ConsumerStep \/ Commit \/ CrashConsumer \/ StopConsumer
  PROVE  ConsumerMove /\ handled' \in [Requests -> Nat]
         /\ failed' \subseteq Requests /\ cut' \subseteq Requests
<1>0. /\ consumer.hand # Nothing => EventAt(consumer.hand) \in Requests
      /\ handled \in [Requests -> Nat] /\ failed \subseteq Requests /\ cut \subseteq Requests
  BY HandIs DEF DeliveryType
<1>1. CASE StartConsumer \/ (\E p \in Partitions : Take(p)) \/ Commit
  BY <1>0, <1>1 DEF StartConsumer, Take, Commit, ConsumerMove, Accounted, logVars
<1>2. CASE Handle
  <2>1. /\ handled' = [handled EXCEPT ![EventAt(consumer.hand)] = @ + 1]
        /\ consumer.hand # Nothing
        /\ UNCHANGED <<logVars, failed, cut>>
    BY <1>2 DEF Handle
  <2>2. handled' \in [Requests -> Nat]
    BY <1>0, <2>1
  <2>3. \A e \in Requests \ {EventAt(consumer.hand)} : handled'[e] = handled[e]
    BY <1>0, <2>1
  <2>4. handled'[EventAt(consumer.hand)] > 0
    BY <1>0, <2>1
  <2> QED BY <1>0, <2>1, <2>2, <2>3, <2>4 DEF ConsumerMove, Accounted, logVars
<1>3. CASE HandlerFails
  BY <1>0, <1>3 DEF HandlerFails, ConsumerMove, Accounted, logVars
<1>4. CASE CrashConsumer \/ StopConsumer
  <2>1. PICK offsets : cut' = cut \cup CutOff(offsets)
    BY <1>4 DEF CrashConsumer, StopConsumer
  <2>2. \A e \in CutOff(offsets) : consumer.hand # Nothing /\ e = EventAt(consumer.hand)
    BY DEF CutOff
  <2>3. UNCHANGED <<partitionOf, outcome, handled, failed>> /\ log' = log
    BY <1>4 DEF CrashConsumer, StopConsumer, logVars
  <2> QED BY <1>0, <2>1, <2>2, <2>3 DEF ConsumerMove, Accounted
<1> QED BY <1>1, <1>2, <1>3, <1>4 DEF ConsumerStep, LoopStep

\* What a send adds to the log.
LEMMA SendMoves ==
  ASSUME DeliveryType, LogInv, SendStep
  PROVE  /\ UNCHANGED <<consumerVars, partitionOf>>
         /\ outcome' \in [Requests -> {"none", "acked", "refused"}]
         /\ \A e \in Requests : outcome[e] = "acked" => outcome'[e] = "acked"
         /\ \/ log' = log /\ \A e \in Requests :
                 outcome'[e] = "acked" => outcome[e] = "acked" \/ Copies(e) # {}
            \/ /\ outcome' = outcome
               /\ \E p \in Partitions, message \in Messages :
                 /\ Appended(p, message) /\ partitionOf[message.event] = p
                 /\ \A j \in Offsets(p) : log[p][j].event = message.event => log[p][j] = message
                 /\ \A e \in message.after : partitionOf[e] = p =>
                      \E j \in Offsets(p) : log[p][j].event = e
                 /\ message.event \in Accounted => \E j \in Offsets(p) : log[p][j] = message
<1>1. PICK r \in Requests : AppendEvent(r) \/ AppendAgain(r) \/ Acknowledge(r) \/ SendFails(r)
  BY DEF SendStep
<1>2. outcome \in [Requests -> {"none", "acked", "refused"}]
  BY DEF DeliveryType
<1>3. CASE AppendEvent(r)
  <2> DEFINE p == partitionOf[r]
             message == Message(r)
  <2>1. p \in Partitions /\ message \in Messages /\ message.event = r
    BY DEF DeliveryType, Message, Messages
  <2>2. Appended(p, message) /\ Copies(r) = {} /\ UNCHANGED <<consumerVars, partitionOf, outcome>>
    BY <1>3 DEF AppendEvent, Appended
  <2>3. \A j \in Offsets(p) : log[p][j].event # r
    BY <2>1, <2>2, CopiesAre
  <2>4. r \notin Accounted
    BY <2>2 DEF LogInv
  <2>5. ASSUME NEW e \in message.after, partitionOf[e] = p
        PROVE  \E j \in Offsets(p) : log[p][j].event = e
    <3>1. e \in Requests /\ outcome[e] = "acked"
      BY DEF Message
    <3>2. PICK m \in Copies(e) : TRUE
      BY <3>1 DEF LogInv
    <3>3. m[1] \in Partitions /\ m[2] \in Offsets(m[1]) /\ log[m[1]][m[2]].event = e
      BY <3>2, CopiesAre
    <3>4. partitionOf[e] = m[1]
      BY <3>3 DEF LogInv
    <3> QED BY <2>5, <3>3, <3>4
  <2>6. /\ Appended(p, message) /\ partitionOf[message.event] = p
        /\ \A j \in Offsets(p) : log[p][j].event = message.event => log[p][j] = message
        /\ \A e \in message.after : partitionOf[e] = p => \E j \in Offsets(p) : log[p][j].event = e
        /\ message.event \in Accounted => \E j \in Offsets(p) : log[p][j] = message
    BY <2>1, <2>2, <2>3, <2>4, <2>5
  <2> HIDE DEF p, message
  <2> QED BY <1>2, <2>1, <2>2, <2>6
<1>4. CASE AppendAgain(r)
  <2>1. PICK m \in Copies(r) : log' = [log EXCEPT ![m[1]] = Append(@, log[m[1]][m[2]])]
    BY <1>4 DEF AppendAgain
  <2> DEFINE p == m[1]
             message == log[m[1]][m[2]]
  <2>2. p \in Partitions /\ m[2] \in Offsets(p) /\ message \in Messages /\ message.event = r
    BY <2>1, CopiesAre
  <2>3. Appended(p, message) /\ UNCHANGED <<consumerVars, partitionOf, outcome>>
    BY <1>4, <2>1 DEF AppendAgain, Appended
  <2>4. /\ partitionOf[message.event] = p
        /\ \A j \in Offsets(p) : log[p][j].event = message.event => log[p][j] = message
        /\ \A e \in message.after : partitionOf[e] = p => \E j \in Offsets(p) : log[p][j].event = e
    BY <2>2 DEF LogInv
  <2> QED BY <1>2, <2>2, <2>3, <2>4
<1>5. CASE Acknowledge(r)
  BY <1>2, <1>5 DEF Acknowledge
<1>6. CASE SendFails(r)
  BY <1>2, <1>6 DEF SendFails
<1> QED BY <1>1, <1>3, <1>4, <1>5, <1>6

LEMMA LogInvStep ==
  ASSUME DeliveryType, LogInv,
         \/ SendStep
         \/ ConsumerStep \/ Commit \/ CrashConsumer \/ StopConsumer
         \/ UNCHANGED <<logVars, consumerVars>>
  PROVE  LogInv'
<1>0. \A q \in Partitions : Offsets(q)' = DOMAIN log'[q]
  BY DEF Offsets
<1>1. ASSUME log' = log, partitionOf' = partitionOf,
             \A e \in Requests : outcome'[e] = "acked" \/ e \in Accounted' => Copies(e) # {}
      PROVE  LogInv'
  BY <1>1, SameLog DEF LogInv, Offsets
<1>2. CASE SendStep
  <2>1. Accounted' = Accounted
    BY <1>2, SendMoves DEF consumerVars, Accounted
  <2>2. CASE log' = log /\ \A e \in Requests :
               outcome'[e] = "acked" => outcome[e] = "acked" \/ Copies(e) # {}
    BY <1>1, <1>2, <2>1, <2>2, SendMoves DEF LogInv
  <2>3. CASE \E p \in Partitions, message \in Messages :
               /\ outcome' = outcome
               /\ Appended(p, message) /\ partitionOf[message.event] = p
               /\ \A j \in Offsets(p) : log[p][j].event = message.event => log[p][j] = message
               /\ \A e \in message.after : partitionOf[e] = p =>
                    \E j \in Offsets(p) : log[p][j].event = e
    BY <1>2, <2>3, SendMoves, AppendLogInv DEF consumerVars
  <2> QED BY <1>2, <2>2, <2>3, SendMoves
<1>3. CASE ConsumerStep \/ Commit \/ CrashConsumer \/ StopConsumer
  <2>1. ConsumerMove
    BY <1>3, ConsumerMoves
  <2>2. \A e \in Requests : outcome'[e] = "acked" \/ e \in Accounted' => Copies(e) # {}
    BY <2>1, HandIs DEF ConsumerMove, LogInv
  <2> QED BY <1>1, <2>1, <2>2 DEF ConsumerMove
<1>4. CASE UNCHANGED <<logVars, consumerVars>>
  BY <1>1, <1>4 DEF logVars, consumerVars, Accounted, LogInv
<1> QED BY <1>2, <1>3, <1>4

LEMMA OrderStep ==
  ASSUME DeliveryType, LogInv, ReadInv, OneKeyIsInOrder,
         \/ SendStep
         \/ ConsumerStep \/ Commit \/ CrashConsumer \/ StopConsumer
         \/ UNCHANGED <<logVars, consumerVars>>
  PROVE  OneKeyIsInOrder'
<1>1. CASE SendStep
  <2>1. Accounted' = Accounted /\ partitionOf' = partitionOf
    BY <1>1, SendMoves DEF consumerVars, Accounted
  <2>2. CASE log' = log
    BY <2>1, <2>2 DEF OneKeyIsInOrder, Offsets
  <2>3. ASSUME NEW p \in Partitions, NEW message \in Messages, Appended(p, message),
               message.event \in Accounted => \E j \in Offsets(p) : log[p][j] = message
        PROVE  OneKeyIsInOrder'
    <3>1. ASSUME NEW q \in Partitions, NEW i \in Offsets(q)', log'[q][i].event \in Accounted
          PROVE  \E j \in Offsets(q) : log[q][j] = log'[q][i]
      <4>1. CASE i \in Offsets(q)
        BY <2>3, <4>1, AppendIs
      <4>2. CASE q = p /\ i = Len(log[p]) + 1
        <5>1. log'[q][i] = message
          BY <2>3, <4>2, AppendIs
        <5> QED BY <2>3, <3>1, <4>2, <5>1
      <4>3. i \in Offsets(q) \/ (q = p /\ i = Len(log[p]) + 1)
        BY <2>3, <3>1, AppendIs
      <4> QED BY <4>1, <4>2, <4>3
    <3> QED BY <2>1, <3>1 DEF OneKeyIsInOrder
  <2> QED BY <1>1, <2>2, <2>3, SendMoves
<1>2. CASE ConsumerStep \/ Commit \/ CrashConsumer \/ StopConsumer
  <2>1. ConsumerMove
    BY <1>2, ConsumerMoves
  <2>2. ASSUME NEW p \in Partitions, NEW i \in Offsets(p), log[p][i].event \in Accounted',
               NEW e \in log[p][i].after, partitionOf[e] = partitionOf[log[p][i].event]
        PROVE  e \in Accounted'
    <3>1. CASE log[p][i].event \in Accounted
      BY <2>1, <2>2, <3>1 DEF OneKeyIsInOrder, ConsumerMove
    <3>2. CASE log[p][i].event \notin Accounted
      <4>1. consumer.hand # Nothing /\ log[p][i].event = EventAt(consumer.hand)
        BY <2>1, <2>2, <3>2 DEF ConsumerMove
      <4> DEFINE q == consumer.hand.partition
                 k == consumer.hand.offset
      <4>2. /\ q \in Partitions /\ k \in Offsets(q) /\ k = position[q] /\ consumer.up
            /\ log[q][k].event = log[p][i].event
        BY <4>1, HandIs DEF EventAt
      <4>3. q = p /\ log[p][k] = log[p][i] /\ partitionOf[e] = p
        BY <2>2, <4>2 DEF LogInv
      <4>4. PICK j \in Offsets(p) : j < k /\ log[p][j].event = e
        BY <2>2, <4>2, <4>3 DEF LogInv
      <4>5. j \in 1..position[p]
        <5>1. Offsets(p) = 1..Len(log[p]) /\ Len(log[p]) \in Nat
          BY CopiesAre
        <5> QED BY <4>2, <4>3, <4>4, <5>1
      <4>6. consumer.hand # [partition |-> p, offset |-> j]
        <5>1. j \in Nat /\ k \in Nat
          BY <4>1, <4>5, HandIs DEF DeliveryType
        <5> QED BY <4>4, <5>1
      <4>7. e \in Accounted
        BY <4>2, <4>4, <4>5, <4>6 DEF ReadInv, AllRead
      <4> QED BY <2>1, <4>7 DEF ConsumerMove
    <3> QED BY <3>1, <3>2
  <2>3. log' = log /\ partitionOf' = partitionOf
    BY <2>1 DEF ConsumerMove
  <2>4. \A p \in Partitions : Offsets(p)' = Offsets(p)
    BY <2>3 DEF Offsets
  <2> QED BY <2>2, <2>3, <2>4 DEF OneKeyIsInOrder
<1>3. CASE UNCHANGED <<logVars, consumerVars>>
  BY <1>3 DEF logVars, consumerVars, Accounted, OneKeyIsInOrder, Offsets
<1> QED BY <1>1, <1>2, <1>3

\* What was read and is not in hand any more is accounted for after the step.
LEMMA ReadGoesOn ==
  ASSUME DeliveryType, NEW offsets, AllRead(offsets),
         \A p \in Partitions : \A i \in 1..offsets[p] : log'[p][i] = log[p][i],
         Accounted \subseteq Accounted',
         \/ consumer'.hand = consumer.hand
         \/ consumer.hand = Nothing
         \/ EventAt(consumer.hand) \in Accounted'
         \/ consumer.hand.offset \notin 1..offsets[consumer.hand.partition]
  PROVE  \A p \in Partitions : \A i \in 1..offsets[p] :
           \/ log'[p][i].event \in Accounted'
           \/ consumer'.hand = [partition |-> p, offset |-> i]
<1> SUFFICES ASSUME NEW p \in Partitions, NEW i \in 1..offsets[p],
                    log'[p][i].event \notin Accounted'
             PROVE  consumer'.hand = [partition |-> p, offset |-> i]
  OBVIOUS
<1>1. log[p][i].event \notin Accounted
  OBVIOUS
<1>2. consumer.hand = [partition |-> p, offset |-> i]
  BY <1>1 DEF AllRead
<1>3. consumer.hand.partition = p /\ consumer.hand.offset = i /\ EventAt(consumer.hand) = log[p][i].event
  BY <1>2 DEF EventAt
<1>4. consumer.hand # Nothing
  BY <1>3 DEF Nothing
<1> QED BY <1>2, <1>3, <1>4

LEMMA ReadStep ==
  ASSUME DeliveryType, LogInv, ReadInv,
         \/ SendStep
         \/ ConsumerStep \/ Commit \/ CrashConsumer \/ StopConsumer
         \/ UNCHANGED <<logVars, consumerVars>>
  PROVE  ReadInv'
<1> DEFINE Stays(offsets) ==
             \A p \in Partitions : \A i \in 1..offsets[p] :
               \/ log'[p][i].event \in Accounted'
               \/ consumer'.hand = [partition |-> p, offset |-> i]
<1>0. /\ AllRead(committed) /\ (consumer.up => AllRead(position))
      /\ \A p \in Partitions :
           /\ 1..position[p] \subseteq Offsets(p) /\ 1..committed[p] \subseteq Offsets(p)
           /\ position[p] \in Nat /\ committed[p] \in Nat
           /\ consumer.up => 1..committed[p] \subseteq 1..position[p]
  <2>1. \A p \in Partitions :
           /\ position[p] <= Len(log[p]) /\ committed[p] <= Len(log[p])
           /\ position[p] \in Nat /\ committed[p] \in Nat
           /\ consumer.up => committed[p] <= position[p]
    BY DEF DeliveryType
  <2>2. \A p \in Partitions : Offsets(p) = 1..Len(log[p]) /\ Len(log[p]) \in Nat
    BY CopiesAre
  <2> QED BY <2>1, <2>2 DEF ReadInv
<1>a. ASSUME Stays(committed'), consumer'.up => Stays(position')
      PROVE  ReadInv'
  BY <1>a DEF ReadInv, AllRead
<1> HIDE DEF Stays
<1>1. CASE SendStep
  <2>1. Accounted' = Accounted /\ UNCHANGED consumerVars
    BY <1>1, SendMoves DEF consumerVars, Accounted
  <2>2. \A p \in Partitions : \A i \in Offsets(p) : log'[p][i] = log[p][i]
    BY <1>1, SendMoves, AppendIs
  <2>3. Stays(committed) /\ (consumer.up => Stays(position))
    BY <1>0, <2>1, <2>2, ReadGoesOn DEF consumerVars, Stays
  <2> QED BY <1>a, <2>1, <2>3 DEF consumerVars
<1>2. CASE UNCHANGED <<logVars, consumerVars>>
  <2>1. Stays(committed) /\ (consumer.up => Stays(position))
    BY <1>0, <1>2 DEF consumerVars, logVars, Stays, AllRead, Accounted
  <2> QED BY <1>2, <1>a, <2>1 DEF consumerVars
<1>3. ASSUME ConsumerStep \/ Commit \/ CrashConsumer \/ StopConsumer
      PROVE  log' = log /\ Accounted \subseteq Accounted'
  BY <1>3, ConsumerMoves DEF ConsumerMove
<1>4. CASE StartConsumer
  <2>1. consumer.hand = Nothing /\ consumer'.hand = Nothing /\ committed' = committed /\ position' = committed
    BY <1>4 DEF StartConsumer, Down, DeliveryType
  <2>2. Stays(committed)
    BY <1>0, <1>3, <1>4, <2>1, ReadGoesOn DEF Stays, ConsumerStep, LoopStep
  <2> QED BY <1>a, <2>1, <2>2
<1>5. ASSUME NEW p \in Partitions, Take(p)
      PROVE  ReadInv'
  <2>1. /\ consumer.up /\ consumer.hand = Nothing /\ committed' = committed
        /\ position' = [position EXCEPT ![p] = @ + 1]
        /\ consumer'.hand = [partition |-> p, offset |-> position[p] + 1]
    BY <1>5 DEF Take, DeliveryType
  <2>2. Stays(committed) /\ Stays(position)
    BY <1>0, <1>3, <1>5, <2>1, ReadGoesOn DEF Stays, ConsumerStep, LoopStep
  <2>3. \A q \in Partitions : \A i \in 1..position'[q] :
          i \in 1..position[q] \/ (q = p /\ i = position[p] + 1)
    BY <1>0, <2>1 DEF DeliveryType
  <2>4. Stays(position')
    BY <2>1, <2>2, <2>3 DEF Stays
  <2> QED BY <1>a, <2>1, <2>2, <2>4
<1>6. CASE Handle \/ HandlerFails
  <2>1. /\ consumer.hand # Nothing /\ committed' = committed /\ position' = position
        /\ consumer'.up = consumer.up
    BY <1>6 DEF Handle, HandlerFails, DeliveryType
  <2>2. EventAt(consumer.hand) \in Accounted'
    <3>1. CASE Handle
      <4>1. EventAt(consumer.hand) \in Requests /\ handled \in [Requests -> Nat]
        BY <2>1, HandIs DEF DeliveryType
      <4> QED BY <3>1, <4>1 DEF Handle, Accounted
    <3>2. CASE HandlerFails
      BY <3>2 DEF HandlerFails, Accounted
    <3> QED BY <1>6, <3>1, <3>2
  <2>3. Stays(committed) /\ (consumer.up => Stays(position))
    BY <1>0, <1>3, <1>6, <2>1, <2>2, ReadGoesOn DEF Stays, ConsumerStep, LoopStep
  <2> QED BY <1>a, <2>1, <2>3
<1>7. CASE Commit
  <2>1. committed' = position /\ position' = position /\ consumer' = consumer /\ consumer.up
    BY <1>7 DEF Commit
  <2>2. Stays(position)
    BY <1>0, <1>3, <1>7, <2>1, ReadGoesOn DEF Stays
  <2> QED BY <1>a, <2>1, <2>2
<1>8. ASSUME NEW offsets \in {position, committed}, CrashConsumer \/ StopConsumer,
             committed' = offsets, cut' = cut \cup CutOff(offsets)
      PROVE  ReadInv'
  <2>1. consumer.up /\ ~consumer'.up /\ AllRead(offsets)
        /\ \A p \in Partitions : offsets[p] \in Nat
    BY <1>0, <1>8 DEF CrashConsumer, StopConsumer, Down
  <2>2. \/ consumer.hand = Nothing
        \/ EventAt(consumer.hand) \in Accounted'
        \/ consumer.hand.offset \notin 1..offsets[consumer.hand.partition]
    <3>1. SUFFICES ASSUME consumer.hand # Nothing,
                          consumer.hand.offset \in 1..offsets[consumer.hand.partition]
                   PROVE  EventAt(consumer.hand) \in Accounted'
      OBVIOUS
    <3>2. consumer.hand.partition \in Partitions
      BY <3>1, HandIs
    <3>3. consumer.hand.offset <= offsets[consumer.hand.partition]
      BY <2>1, <3>1, <3>2
    <3>4. EventAt(consumer.hand) \in CutOff(offsets)
      BY <3>1, <3>3 DEF CutOff
    <3> QED BY <1>8, <3>4 DEF Accounted
  <2>3. Stays(offsets)
    BY <1>3, <1>8, <2>1, <2>2, ReadGoesOn DEF Stays
  <2> QED BY <1>a, <1>8, <2>1, <2>3
<1>9. CASE CrashConsumer
  <2>1. committed' = committed /\ cut' = cut \cup CutOff(committed)
    BY <1>9 DEF CrashConsumer
  <2> QED BY <1>8, <1>9, <2>1
<1>10. CASE StopConsumer
  <2>1. committed' = position /\ cut' = cut \cup CutOff(position)
    BY <1>10 DEF StopConsumer
  <2> QED BY <1>8, <1>10, <2>1
<1> QED BY <1>1, <1>2, <1>4, <1>5, <1>6, <1>7, <1>9, <1>10 DEF ConsumerStep, LoopStep

LEMMA Products ==
  ASSUME NEW a \in Nat, NEW b \in Nat, NEW k \in Nat, a <= b
  PROVE  a * k <= b * k /\ a * (k + 1) = a * k + a /\ a * k \in Nat /\ b * k \in Nat
<1>1. a * k \in Nat /\ b * k \in Nat /\ a * (k + 1) = a * k + a
  OBVIOUS
<1>2. a * k <= b * k
  OBVIOUS
<1> QED BY <1>1, <1>2

LEMMA CountGrows ==
  ASSUME DeliveryType, LogInv, LogInv', CountInv, NEW e \in Requests,
         crashes' = crashes, Copies(e) \subseteq Copies(e)',
         \/ /\ handled'[e] = handled[e]
            /\ ReadBy(e) \subseteq ReadBy(e)'
         \/ /\ handled'[e] = handled[e] + 1
            /\ \E m : m \notin ReadBy(e) /\ ReadBy(e) \cup {m} \subseteq ReadBy(e)'
  PROVE  handled'[e] <= Cardinality(Copies(e)') * crashes' + Cardinality(ReadBy(e)')
<1>1. /\ IsFiniteSet(Copies(e)) /\ IsFiniteSet(Copies(e)') /\ crashes \in Nat /\ handled[e] \in Nat
      /\ handled[e] <= Cardinality(Copies(e)) * crashes + Cardinality(ReadBy(e))
  <2>1. IsFiniteSet(Copies(e)) /\ IsFiniteSet(Copies(e)')
    BY DEF LogInv
  <2>2. crashes \in Nat /\ handled[e] \in Nat
    BY DEF DeliveryType
  <2> QED BY <2>1, <2>2 DEF CountInv
<1>2. ReadBy(e) \subseteq Copies(e) /\ ReadBy(e)' \subseteq Copies(e)'
  BY DEF ReadBy, ReadCopies
<1>3. IsFiniteSet(ReadBy(e)) /\ IsFiniteSet(ReadBy(e)')
  BY <1>1, <1>2, FS_Subset
<1>4. /\ Cardinality(Copies(e)) \in Nat /\ Cardinality(Copies(e)') \in Nat
      /\ Cardinality(ReadBy(e)) \in Nat /\ Cardinality(ReadBy(e)') \in Nat
      /\ Cardinality(Copies(e)) <= Cardinality(Copies(e)')
  BY <1>1, <1>3, FS_CardinalityType, FS_Subset
<1> DEFINE was == Cardinality(Copies(e)) * crashes
           is == Cardinality(Copies(e)') * crashes
<1>5. was <= is /\ was \in Nat /\ is \in Nat
  BY <1>1, <1>4, Products
<1>6. handled'[e] - handled[e] <= Cardinality(ReadBy(e)') - Cardinality(ReadBy(e))
  <2>1. CASE handled'[e] = handled[e] /\ ReadBy(e) \subseteq ReadBy(e)'
    <3>1. Cardinality(ReadBy(e)) <= Cardinality(ReadBy(e)')
      BY <1>3, <2>1, FS_Subset
    <3> QED BY <1>1, <1>4, <2>1, <3>1
  <2>2. ASSUME handled'[e] = handled[e] + 1, NEW m, m \notin ReadBy(e),
               ReadBy(e) \cup {m} \subseteq ReadBy(e)'
        PROVE  handled'[e] - handled[e] <= Cardinality(ReadBy(e)') - Cardinality(ReadBy(e))
    <3>1. Cardinality(ReadBy(e) \cup {m}) = Cardinality(ReadBy(e)) + 1
      BY <1>3, <2>2, FS_AddElement
    <3>2. Cardinality(ReadBy(e) \cup {m}) <= Cardinality(ReadBy(e)')
      BY <1>3, <2>2, FS_Subset
    <3> QED BY <1>1, <1>4, <2>2, <3>1, <3>2
  <2> QED BY <2>1, <2>2
<1>7. handled'[e] \in Int
  BY <1>1
<1> HIDE DEF was, is
<1>8. handled'[e] <= is + Cardinality(ReadBy(e)')
  <2>1. handled[e] <= was + Cardinality(ReadBy(e))
    BY <1>1 DEF was
  <2> QED BY <1>1, <1>4, <1>5, <1>6, <1>7, <2>1
<1> QED BY <1>8 DEF is

LEMMA CountStep ==
  ASSUME DeliveryType, LogInv, LogInv', CountInv,
         \/ SendStep
         \/ ConsumerStep \/ Commit \/ CrashConsumer \/ StopConsumer
         \/ UNCHANGED <<logVars, consumerVars>>
  PROVE  CountInv'
<1> SUFFICES ASSUME NEW e \in Requests
             PROVE  handled'[e] <= Cardinality(Copies(e)') * crashes' + Cardinality(ReadBy(e)')
  BY DEF CountInv
<1>0. /\ \A m \in Copies(e) : /\ m[1] \in Partitions /\ m[2] \in Nat \ {0}
                              /\ [partition |-> m[1], offset |-> m[2]] # Nothing
      /\ \A p \in Partitions : position[p] \in Nat /\ committed[p] \in Nat
  <2>1. \A m \in Copies(e) : m[1] \in Partitions /\ m[2] \in Offsets(m[1])
    BY CopiesAre
  <2>2. \A p \in Partitions : Offsets(p) = 1..Len(log[p]) /\ Len(log[p]) \in Nat
    BY CopiesAre
  <2>3. \A p \in Partitions : position[p] \in Nat /\ committed[p] \in Nat
    BY DEF DeliveryType
  <2>4. \A i \in Nat \ {0} : \A p : [partition |-> p, offset |-> i] # Nothing
    BY DEF Nothing
  <2>5. \A m \in Copies(e) : m[2] \in Nat \ {0}
    BY <2>1, <2>2
  <2> QED BY <2>1, <2>3, <2>4, <2>5
<1>1. CASE SendStep
  <2>1. UNCHANGED consumerVars
    BY <1>1, SendMoves
  <2>2. Copies(e) \subseteq Copies(e)'
    BY <1>1, SendMoves, AppendCopies, SameLog
  <2>3. ReadBy(e) \subseteq ReadBy(e)'
    BY <2>1, <2>2 DEF consumerVars, ReadBy, ReadCopies
  <2> QED BY <2>1, <2>2, <2>3, CountGrows DEF consumerVars
<1>2. ASSUME ConsumerStep \/ Commit \/ CrashConsumer \/ StopConsumer
      PROVE  Copies(e)' = Copies(e)
  BY <1>2, ConsumerMoves, SameLog DEF ConsumerMove
<1>3. CASE StartConsumer
  <2>1. /\ consumer.hand = Nothing /\ ~consumer.up /\ consumer'.hand = Nothing /\ consumer'.up
        /\ position' = committed /\ crashes' = crashes /\ handled' = handled
    BY <1>3 DEF StartConsumer, Down, DeliveryType
  <2>2. ReadBy(e)' = ReadBy(e)
    BY <1>2, <1>3, <2>1 DEF ReadBy, ReadCopies, ConsumerStep, LoopStep
  <2> QED BY <1>2, <1>3, <2>1, <2>2, CountGrows DEF ConsumerStep, LoopStep
<1>4. ASSUME NEW p \in Partitions, Take(p)
      PROVE  handled'[e] <= Cardinality(Copies(e)') * crashes' + Cardinality(ReadBy(e)')
  <2>1. /\ consumer.up /\ consumer'.up /\ consumer'.hand = [partition |-> p, offset |-> position[p] + 1]
        /\ position' = [position EXCEPT ![p] = @ + 1] /\ DOMAIN position = Partitions
        /\ crashes' = crashes /\ handled' = handled
    BY <1>4 DEF Take, DeliveryType
  <2>2. ASSUME NEW m \in ReadBy(e)
        PROVE  m \in ReadBy(e)'
    <3>1. m \in Copies(e) /\ m[2] <= position[m[1]]
      BY <2>1 DEF ReadBy, ReadCopies
    <3>2. m[2] <= position'[m[1]]
      BY <1>0, <2>1, <3>1
    <3>3. consumer'.hand # [partition |-> m[1], offset |-> m[2]]
      <4>1. m[1] # p \/ m[2] # position[p] + 1
        BY <1>0, <3>1
      <4> QED BY <2>1, <4>1
    <3> QED BY <1>2, <1>4, <2>1, <3>1, <3>2, <3>3 DEF ReadBy, ReadCopies, ConsumerStep, LoopStep
  <2> QED BY <1>2, <1>4, <2>1, <2>2, CountGrows DEF ConsumerStep, LoopStep
<1>5. CASE HandlerFails
  <2>1. /\ consumer'.hand = Nothing /\ consumer'.up = consumer.up
        /\ UNCHANGED <<position, committed, crashes, handled>>
    BY <1>5 DEF HandlerFails, DeliveryType
  <2>2. ReadBy(e) \subseteq ReadBy(e)'
    BY <1>0, <1>2, <1>5, <2>1 DEF ReadBy, ReadCopies, ConsumerStep, LoopStep
  <2> QED BY <1>2, <1>5, <2>1, <2>2, CountGrows DEF ConsumerStep, LoopStep
<1>6. CASE Handle
  <2>1. /\ consumer.hand # Nothing /\ consumer'.hand = Nothing /\ consumer'.up = consumer.up
        /\ UNCHANGED <<position, committed, crashes>>
        /\ handled' = [handled EXCEPT ![EventAt(consumer.hand)] = @ + 1]
        /\ handled \in [Requests -> Nat]
    BY <1>6 DEF Handle, DeliveryType
  <2>2. ReadBy(e) \subseteq ReadBy(e)'
    BY <1>0, <1>2, <1>6, <2>1 DEF ReadBy, ReadCopies, ConsumerStep, LoopStep
  <2>3. CASE e # EventAt(consumer.hand)
    BY <1>2, <1>6, <2>1, <2>2, <2>3, CountGrows DEF ConsumerStep, LoopStep
  <2>4. CASE e = EventAt(consumer.hand)
    <3> DEFINE m == <<consumer.hand.partition, consumer.hand.offset>>
    <3>1. /\ consumer.up /\ m \in Copies(e) /\ m[2] = position[m[1]] /\ m[1] \in Partitions
          /\ consumer.hand = [partition |-> m[1], offset |-> m[2]]
      BY <2>1, <2>4, HandIs
    <3>2. m[2] <= position[m[1]]
      BY <1>0, <3>1
    <3> HIDE DEF m
    <3>3. m \notin ReadBy(e)
      BY <3>1 DEF ReadBy, ReadCopies
    <3>4. m \in ReadBy(e)'
      BY <1>0, <1>2, <1>6, <2>1, <3>1, <3>2 DEF ReadBy, ReadCopies, ConsumerStep, LoopStep
    <3>5. handled'[e] = handled[e] + 1
      BY <2>1, <2>4
    <3>6. ReadBy(e) \cup {m} \subseteq ReadBy(e)'
      BY <2>2, <3>4
    <3> QED BY <1>2, <1>6, <2>1, <3>3, <3>5, <3>6, CountGrows DEF ConsumerStep, LoopStep
  <2> QED BY <2>3, <2>4
<1>7. CASE Commit
  <2>1. /\ consumer.up /\ UNCHANGED <<consumer, position, crashes, handled>>
    BY <1>7 DEF Commit
  <2>2. ReadBy(e)' = ReadBy(e)
    BY <1>2, <1>7, <2>1 DEF ReadBy, ReadCopies
  <2> QED BY <1>2, <1>7, <2>1, <2>2, CountGrows
<1>8. CASE StopConsumer
  <2>1. /\ consumer.up /\ ~consumer'.up /\ consumer'.hand = Nothing /\ committed' = position
        /\ UNCHANGED <<position, crashes, handled>>
    BY <1>8 DEF StopConsumer, Down
  <2>2. ReadBy(e) \subseteq ReadBy(e)'
    BY <1>0, <1>2, <1>8, <2>1 DEF ReadBy, ReadCopies
  <2> QED BY <1>2, <1>8, <2>1, <2>2, CountGrows
<1>9. CASE CrashConsumer
  <2>1. crashes' = crashes + 1 /\ handled' = handled
    BY <1>9 DEF CrashConsumer
  <2>2. /\ IsFiniteSet(Copies(e)) /\ IsFiniteSet(Copies(e)') /\ crashes \in Nat /\ handled[e] \in Nat
        /\ handled[e] <= Cardinality(Copies(e)) * crashes + Cardinality(ReadBy(e))
    <3>1. IsFiniteSet(Copies(e)) /\ IsFiniteSet(Copies(e)')
      BY DEF LogInv
    <3>2. crashes \in Nat /\ handled[e] \in Nat
      BY DEF DeliveryType
    <3> QED BY <3>1, <3>2 DEF CountInv
  <2>3. ReadBy(e) \subseteq Copies(e) /\ ReadBy(e)' \subseteq Copies(e)'
    BY DEF ReadBy, ReadCopies
  <2>4. /\ IsFiniteSet(ReadBy(e)) /\ IsFiniteSet(ReadBy(e)')
        /\ Cardinality(ReadBy(e)) <= Cardinality(Copies(e))
    BY <2>2, <2>3, FS_Subset
  <2>5. /\ Cardinality(Copies(e)) \in Nat /\ Cardinality(ReadBy(e)) \in Nat /\ Cardinality(ReadBy(e)') \in Nat
    BY <2>2, <2>4, FS_CardinalityType
  <2> DEFINE was == Cardinality(Copies(e)) * crashes
             is == Cardinality(Copies(e)) * (crashes + 1)
  <2>6. is = was + Cardinality(Copies(e)) /\ was \in Nat
    BY <2>2, <2>5, Products
  <2>7. handled[e] <= was + Cardinality(ReadBy(e))
    BY <2>2
  <2>8. Copies(e)' = Copies(e)
    BY <1>2, <1>9
  <2>9. Cardinality(Copies(e)') * crashes' = is
    BY <2>1, <2>8
  <2> HIDE DEF was, is
  <2>10. handled'[e] <= is + Cardinality(ReadBy(e)')
    BY <2>1, <2>2, <2>4, <2>5, <2>6, <2>7
  <2> QED BY <2>9, <2>10
<1>10. CASE UNCHANGED <<logVars, consumerVars>>
  <2>1. Copies(e)' = Copies(e) /\ UNCHANGED consumerVars
    BY <1>10, SameLog DEF logVars
  <2>2. ReadBy(e)' = ReadBy(e)
    BY <2>1 DEF consumerVars, ReadBy, ReadCopies
  <2> QED BY <2>1, <2>2, CountGrows DEF consumerVars
<1> QED BY <1>1, <1>3, <1>4, <1>5, <1>6, <1>7, <1>8, <1>9, <1>10 DEF ConsumerStep, LoopStep

LEMMA DeliveryTypeStep ==
  ASSUME DeliveryType, LogInv, troubles \in Nat, troubles' \in Nat, troubles' >= troubles,
         \/ SendStep
         \/ ConsumerStep \/ Commit \/ CrashConsumer \/ StopConsumer
         \/ UNCHANGED <<logVars, consumerVars>>
  PROVE  DeliveryType'
<1> DEFINE Fits == \A p \in Partitions : /\ position'[p] <= Len(log'[p]) /\ committed'[p] <= Len(log'[p])
                                         /\ consumer'.up => committed'[p] <= position'[p]
<1>0. /\ position \in [Partitions -> Nat] /\ committed \in [Partitions -> Nat]
      /\ crashes \in 0..troubles /\ crashes \in 0..troubles'
      /\ \A p \in Partitions : /\ position[p] \in Nat /\ committed[p] \in Nat /\ Len(log[p]) \in Nat
                               /\ position[p] <= Len(log[p]) /\ committed[p] <= Len(log[p])
                               /\ consumer.up => committed[p] <= position[p]
  BY CopiesAre DEF DeliveryType
<1>1. CASE SendStep
  <2>1. UNCHANGED <<consumerVars, partitionOf>>
        /\ outcome' \in [Requests -> {"none", "acked", "refused"}]
    BY <1>1, SendMoves
  <2>2. log' \in [Partitions -> Seq(Messages)] /\ \A p \in Partitions : Len(log'[p]) >= Len(log[p])
    <3>1. CASE log' = log
      BY <1>0, <3>1 DEF DeliveryType
    <3>2. ASSUME NEW p \in Partitions, NEW message \in Messages, Appended(p, message)
          PROVE  log' \in [Partitions -> Seq(Messages)] /\ \A q \in Partitions : Len(log'[q]) >= Len(log[q])
      <4>1. /\ log' \in [Partitions -> Seq(Messages)] /\ Len(log'[p]) = Len(log[p]) + 1
            /\ \A q \in Partitions \ {p} : log'[q] = log[q]
        BY <3>2, AppendIs
      <4>2. ASSUME NEW q \in Partitions
            PROVE  Len(log'[q]) >= Len(log[q])
        <5>1. Len(log[q]) \in Nat
          BY <1>0
        <5>2. CASE q = p
          BY <4>1, <5>1, <5>2
        <5>3. CASE q # p
          BY <4>1, <5>1, <5>3
        <5> QED BY <5>2, <5>3
      <4> QED BY <4>1, <4>2
    <3> QED BY <1>1, <3>1, <3>2, SendMoves
  <2>3. \A p \in Partitions : Len(log'[p]) \in Nat
    BY <2>2
  <2>4. Fits
    BY <1>0, <2>1, <2>2, <2>3 DEF consumerVars
  <2> QED BY <1>0, <2>1, <2>2, <2>4 DEF DeliveryType, consumerVars
<1>2. CASE UNCHANGED <<logVars, consumerVars>>
  BY <1>0, <1>2 DEF DeliveryType, logVars, consumerVars
<1>3. ASSUME ConsumerStep \/ Commit \/ CrashConsumer \/ StopConsumer
      PROVE  /\ partitionOf' \in [Requests -> Partitions]
             /\ log' \in [Partitions -> Seq(Messages)] /\ log' = log
             /\ outcome' \in [Requests -> {"none", "acked", "refused"}]
             /\ handled' \in [Requests -> Nat] /\ failed' \subseteq Requests /\ cut' \subseteq Requests
  BY <1>3, ConsumerMoves DEF ConsumerMove, DeliveryType
<1>4. CASE StartConsumer
  <2>1. /\ consumer' = [up |-> TRUE, hand |-> Nothing] /\ position' = committed /\ committed' = committed
        /\ crashes' = crashes
    BY <1>4 DEF StartConsumer, Down
  <2> QED BY <1>0, <1>3, <1>4, <2>1 DEF DeliveryType, ConsumerStep, LoopStep
<1>5. ASSUME NEW p \in Partitions, Take(p)
      PROVE  DeliveryType'
  <2>1. /\ consumer.up /\ position[p] < Len(log[p]) /\ committed' = committed /\ crashes' = crashes
        /\ position' = [position EXCEPT ![p] = @ + 1]
        /\ consumer' = [consumer EXCEPT !.hand = [partition |-> p, offset |-> position[p] + 1]]
    BY <1>5 DEF Take
  <2>2. position' \in [Partitions -> Nat]
    BY <1>0, <2>1
  <2>3. [partition |-> p, offset |-> position[p] + 1] \in Hands
    BY <1>0 DEF Hands
  <2>4. /\ consumer' \in [up : BOOLEAN, hand : {Nothing} \cup Hands] /\ consumer'.up
        /\ consumer'.hand = [partition |-> p, offset |-> position[p] + 1]
    BY <2>1, <2>3 DEF DeliveryType
  <2>5. position'[p] = position[p] + 1 /\ \A q \in Partitions \ {p} : position'[q] = position[q]
    BY <1>0, <2>1
  <2>6. consumer'.hand.offset = position'[consumer'.hand.partition]
    BY <2>4, <2>5
  <2>7. log' = log
    BY <1>3, <1>5 DEF ConsumerStep, LoopStep
  <2>8. Fits
    BY <1>0, <2>1, <2>5, <2>7
  <2> QED BY <1>0, <1>3, <1>5, <2>1, <2>2, <2>4, <2>6, <2>8 DEF DeliveryType, ConsumerStep, LoopStep
<1>6. CASE Handle \/ HandlerFails
  <2>1. /\ consumer' = [consumer EXCEPT !.hand = Nothing]
        /\ UNCHANGED <<position, committed, crashes>>
    BY <1>6 DEF Handle, HandlerFails
  <2>2. /\ consumer' \in [up : BOOLEAN, hand : {Nothing} \cup Hands] /\ consumer'.up = consumer.up
        /\ consumer'.hand = Nothing
    BY <2>1 DEF DeliveryType
  <2> QED BY <1>0, <1>3, <1>6, <2>1, <2>2 DEF DeliveryType, ConsumerStep, LoopStep
<1>7. CASE Commit
  <2>1. committed' = position /\ UNCHANGED <<consumer, position, crashes>>
    BY <1>7 DEF Commit
  <2>2. /\ consumer' \in [up : BOOLEAN, hand : {Nothing} \cup Hands]
        /\ consumer'.hand # Nothing =>
             consumer'.up /\ consumer'.hand.offset = position'[consumer'.hand.partition]
    BY <2>1 DEF DeliveryType
  <2> QED BY <1>0, <1>3, <1>7, <2>1, <2>2 DEF DeliveryType
<1>8. CASE CrashConsumer \/ StopConsumer
  <2>1. /\ consumer' = [up |-> FALSE, hand |-> Nothing] /\ position' = position
        /\ committed' \in {position, committed} /\ crashes' \in {crashes, crashes + 1}
        /\ troubles' = troubles + 1
    BY <1>8 DEF CrashConsumer, StopConsumer, Down, Trouble
  <2> QED BY <1>0, <1>3, <1>8, <2>1 DEF DeliveryType
<1> QED BY <1>1, <1>2, <1>4, <1>5, <1>6, <1>7, <1>8 DEF ConsumerStep, LoopStep

\* Both invariants together.
EventIInv == ContainerIInv /\ DeliveryInv

LEMMA EventStart ==
  ASSUME Init
  PROVE  EventIInv
<1> USE DEF Init, EventInit
<1>1. /\ \A p \in Partitions : log[p] = <<>> /\ Offsets(p) = {} /\ position[p] = 0 /\ committed[p] = 0
      /\ \A e \in Requests : outcome[e] = "none" /\ handled[e] = 0
      /\ consumer = [up |-> FALSE, hand |-> Nothing] /\ failed = {} /\ cut = {} /\ crashes = 0
  BY DEF Offsets, Down
<1>2. Accounted = {}
  BY <1>1 DEF Accounted
<1>3. \A e : Copies(e) = {}
  BY <1>1 DEF Copies, Places
<1>4. troubles = 0
  BY DEF ContainerInit
<1>5. DeliveryType
  <2>1. log \in [Partitions -> Seq(Messages)]
    OBVIOUS
  <2>2. position \in [Partitions -> Nat] /\ committed \in [Partitions -> Nat]
    OBVIOUS
  <2>3. handled \in [Requests -> Nat] /\ outcome \in [Requests -> {"none", "acked", "refused"}]
    OBVIOUS
  <2>4. \A p \in Partitions : Len(log[p]) = 0
    BY <1>1
  <2> QED BY <1>1, <1>4, <2>1, <2>2, <2>3, <2>4 DEF DeliveryType
<1>6. LogInv
  BY <1>1, <1>2, <1>3, FS_EmptySet DEF LogInv
<1>7. ReadInv
  BY <1>1 DEF ReadInv, AllRead
<1>8. CountInv
  <2> SUFFICES ASSUME NEW e \in Requests
               PROVE  handled[e] <= Cardinality(Copies(e)) * crashes + Cardinality(ReadBy(e))
    BY DEF CountInv
  <2>1. Copies(e) = {} /\ ReadBy(e) = {}
    BY <1>3 DEF ReadBy, ReadCopies
  <2>2. Cardinality(Copies(e)) = 0 /\ Cardinality(ReadBy(e)) = 0
    BY <2>1, FS_EmptySet
  <2> QED BY <1>1, <2>2
<1>9. OneKeyIsInOrder
  BY <1>1 DEF OneKeyIsInOrder
<1> QED BY <1>5, <1>6, <1>7, <1>8, <1>9, ContainerStart DEF EventIInv, DeliveryInv

LEMMA EventStep ==
  ASSUME EventIInv, [Next]_vars
  PROVE  EventIInv'
<1> USE DEF EventIInv, DeliveryInv
<1>1. ContainerIInv'
  BY ContainerStepInv
<1>2. \/ SendStep
      \/ ConsumerStep \/ Commit \/ CrashConsumer \/ StopConsumer
      \/ UNCHANGED <<logVars, consumerVars>>
  BY DEF Next, ProcessStep, ConsumerStep, vars
<1>3. troubles \in Nat /\ troubles' \in Nat /\ troubles' >= troubles
  BY MoveIs, StartVarsIs, Typing
<1>4. DeliveryType'
  BY <1>2, <1>3, DeliveryTypeStep
<1>5. LogInv'
  BY <1>2, LogInvStep
<1>6. ReadInv'
  BY <1>2, ReadStep
<1>7. OneKeyIsInOrder'
  BY <1>2, OrderStep
<1>8. CountInv'
  BY <1>2, <1>5, CountStep
<1> QED BY <1>1, <1>4, <1>5, <1>6, <1>7, <1>8

\* The invariant of the process and of the delivery holds in every
\* reachable state.
LEMMA EventInvariance == Spec => []EventIInv
<1>1. Init => EventIInv
  BY EventStart
<1>2. EventIInv /\ [Next]_vars => EventIInv'
  BY EventStep
<1> QED BY <1>1, <1>2, PTL DEF Spec

\* The variables keep their types, and the consumer's offsets stay in the log.
THEOREM EventTypes == Spec => []TypeOK
<1>1. EventIInv => TypeOK
  <2> SUFFICES ASSUME EventIInv PROVE TypeOK
    OBVIOUS
  <2>1. DeliveryType /\ ContainerTypeOK /\ CallType
    BY DEF EventIInv, DeliveryInv, ContainerIInv, ContainerType
  <2>2. consumer.hand = Nothing \/ consumer.hand.offset \in Offsets(consumer.hand.partition)
    BY <2>1, HandIs
  <2>3. \A p \in Partitions : position[p] \in 0..Len(log[p]) /\ committed[p] \in 0..Len(log[p])
    BY <2>1, CopiesAre DEF DeliveryType
  <2> QED BY <2>1, <2>2, <2>3 DEF TypeOK, DeliveryType, CallType, Messages
<1> QED BY <1>1, EventInvariance, PTL

\* Between the log and the handlers nothing is lost but what a consumer had
\* in hand when it ended (EventConsumer.consume and stop).
THEOREM NothingIsSkipped == Spec => []CommittedIsAccounted
<1>1. EventIInv => CommittedIsAccounted
  BY DEF EventIInv, DeliveryInv, ReadInv, AllRead, CommittedIsAccounted
<1> QED BY <1>1, EventInvariance, PTL

\* A handler sees an event once for each of its copies and, again, for each
\* crash of the consumer (enable_auto_commit, EventConsumer.stop).
THEOREM RepeatsAreBounded == Spec => []RepeatsAreExplained
<1>1. EventIInv => RepeatsAreExplained
  <2> SUFFICES ASSUME EventIInv, NEW e \in Requests
               PROVE  handled[e] <= Cardinality(Copies(e)) * (1 + crashes)
    BY DEF RepeatsAreExplained
  <2>1. /\ IsFiniteSet(Copies(e)) /\ crashes \in Nat /\ handled[e] \in Nat
        /\ handled[e] <= Cardinality(Copies(e)) * crashes + Cardinality(ReadBy(e))
    <3>1. DeliveryType /\ LogInv /\ CountInv /\ troubles \in Nat
      BY DEF EventIInv, DeliveryInv, ContainerIInv, ContainerType, ContainerTypeOK
    <3> QED BY <3>1 DEF DeliveryType, LogInv, CountInv
  <2>2. ReadBy(e) \subseteq Copies(e)
    BY DEF ReadBy, ReadCopies
  <2>3. /\ Cardinality(ReadBy(e)) <= Cardinality(Copies(e))
        /\ Cardinality(ReadBy(e)) \in Nat /\ Cardinality(Copies(e)) \in Nat
    BY <2>1, <2>2, FS_Subset, FS_CardinalityType
  <2> DEFINE n == Cardinality(Copies(e))
  <2>4. n * (1 + crashes) = n * crashes + n /\ n * crashes \in Nat
    <3>1. n \in Nat /\ crashes \in Nat
      BY <2>1, <2>3
    <3> HIDE DEF n
    <3>2. n * (crashes + 1) = n * crashes + n /\ n * crashes \in Nat
      BY <3>1, Products
    <3>3. 1 + crashes = crashes + 1
      BY <3>1
    <3> QED BY <3>2, <3>3
  <2> QED BY <2>1, <2>3, <2>4
<1> QED BY <1>1, EventInvariance, PTL

\* Events of one partition are first handled in the order in which they were
\* published, through repetitions and restarts (EventProducer.publish).
THEOREM PartitionsKeepOrder == Spec => []OneKeyIsInOrder
<1>1. EventIInv => OneKeyIsInOrder
  BY DEF EventIInv, DeliveryInv
<1> QED BY <1>1, EventInvariance, PTL
=============================================================================
