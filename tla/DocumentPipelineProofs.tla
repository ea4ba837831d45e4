----------------------- MODULE DocumentPipelineProofs -----------------------
(***************************************************************************)
(* Proofs about DocumentPipeline, for any documents, workers, DELETE       *)
(* requests, chunk bound and set of faults: its invariants (IInv first,    *)
(* for types and tasks; then FullInv, for what is stored and announced),   *)
(* and that it implements DocumentLifecycle.                               *)
(***************************************************************************)
EXTENDS DocumentPipeline, TLAPS

\* A worker or request has a document exactly while it does something.
Holding ==
  /\ \A w \in Workers : wk[w].at # "idle" <=> wk[w].doc \in Docs
  /\ \A q \in Deletes : del[q].at # "idle" <=> del[q].doc \in Docs

\* No task exists before the upload queues the first one.
NotYetQueued ==
  \A d \in Docs : up[d] \in {"idle", "stored", "committed", "rejected", "created"}
                    => ~Outstanding(d)

\* What is chunked was wiped, and the loop over the chunks is within them.
InLoop ==
  \A w \in Workers : /\ wk[w].at = "insert" => chunks[wk[w].doc] = 0
                     /\ wk[w].at = "add" => wk[w].i < wk[w].n

IInv == TypeOK /\ Holding /\ OneTaskPerDocument /\ NotYetQueued /\ InLoop


LEMMA TypeInit == Init => TypeOK
<1> SUFFICES ASSUME Init PROVE TypeOK
  OBVIOUS
<1> USE MaxChunksAssumption DEF Init
<1>1. RowType /\ TextType /\ ChunkType /\ StoreType
  BY DEF RowType, TextType, ChunkType, StoreType
<1>2. VectorType /\ QueueType /\ EventType
  BY DEF VectorType, QueueType, EventType, NoVectors
<1>3. UploadType /\ DeleteType
  BY DEF UploadType, DeleteType, UploadSteps, DeleteSteps, NoRequest
<1>4. WorkerType /\ ServiceType
  BY DEF WorkerType, ServiceType, WorkerSteps, Idle
<1> QED BY <1>1, <1>2, <1>3, <1>4 DEF TypeOK

\* Publishing known events keeps the type of the log.
LEMMA EmitType ==
  ASSUME EventType, NEW d \in Docs, NEW evs \in SUBSET EventTypes, Emit(d, evs)
  PROVE  EventType'
<1>1. PICK sent \in SUBSET evs : events' = [events EXCEPT ![d] = @ \cup sent]
  BY DEF Emit
<1>2. events[d] \cup sent \in SUBSET EventTypes
  BY DEF EventType
<1> QED BY <1>1, <1>2 DEF EventType

\* One more message.
LEMMA EnqueueType ==
  ASSUME QueueType, NEW d \in Docs, NEW s \in Stages, Enqueue(d, s)
  PROVE  QueueType'
BY DEF QueueType, Enqueue

LEMMA TypeUpload ==
  ASSUME TypeOK, NEW d \in Docs,
         \/ UploadStore(d) \/ UploadCommit(d) \/ UploadEnqueue(d) \/ UploadFinish(d)
         \/ UploadFails(d) \/ CreateDocument(d) \/ Share(d)
  PROVE  TypeOK'
<1> USE DEF database, stores, api, worker, TypeOK
<1>1. RowType'
  BY DEF RowType, Statuses, UploadStore, UploadCommit, UploadEnqueue, UploadFinish,
         UploadFails, CreateDocument, Share
<1>2. TextType' /\ ChunkType' /\ StoreType'
  BY DEF TextType, ChunkType, StoreType, UploadStore, UploadCommit, UploadEnqueue,
         UploadFinish, UploadFails, CreateDocument, Share
<1>3. VectorType' /\ DeleteType' /\ WorkerType' /\ ServiceType'
  BY DEF VectorType, DeleteType, WorkerType, ServiceType, UploadStore, UploadCommit,
         UploadEnqueue, UploadFinish, UploadFails, CreateDocument, Share
<1>4. QueueType'
  <2>1. CASE UploadEnqueue(d)
    BY <2>1, EnqueueType DEF UploadEnqueue, Stages
  <2> QED BY <2>1 DEF QueueType, UploadStore, UploadCommit, UploadFinish, UploadFails,
                      CreateDocument, Share
<1>5. EventType'
  <2>1. CASE UploadFinish(d)
    BY <2>1, EmitType DEF UploadFinish, EventType, EventTypes
  <2> QED BY <2>1 DEF EventType, UploadStore, UploadCommit, UploadEnqueue, UploadFails,
                      CreateDocument, Share
<1>6. UploadType'
  BY DEF UploadType, UploadSteps, UploadStore, UploadCommit, UploadEnqueue, UploadFinish,
         UploadFails, CreateDocument, Share
<1> QED BY <1>1, <1>2, <1>3, <1>4, <1>5, <1>6

LEMMA TypeDelete ==
  ASSUME TypeOK, Holding, NEW q \in Deletes,
         \/ \E d \in Docs : DeleteBegin(q, d)
         \/ DeleteVectors(q) \/ DeleteStorage(q) \/ DeleteLoad(q) \/ DeleteCommit(q)
         \/ DeletePublish(q) \/ DeleteFails(q)
  PROVE  TypeOK'
<1> USE DEF database, stores, api, worker, TypeOK
<1>0. del[q].at # "idle" => del[q].doc \in Docs
  BY DEF Holding
<1>1. RowType' /\ TextType' /\ ChunkType'
  BY <1>0, MaxChunksAssumption
     DEF RowType, TextType, ChunkType, Statuses, DeleteBegin, DeleteVectors, DeleteStorage,
         DeleteLoad, DeleteCommit, DeletePublish, DeleteFails, DeleteStep
<1>2. StoreType' /\ QueueType' /\ WorkerType' /\ ServiceType' /\ UploadType'
  BY DEF StoreType, QueueType, WorkerType, ServiceType, UploadType, DeleteBegin,
         DeleteVectors, DeleteStorage, DeleteLoad, DeleteCommit, DeletePublish, DeleteFails
<1>3. VectorType'
  BY DEF VectorType, NoVectors, DeleteBegin, DeleteVectors, DeleteStorage, DeleteLoad,
         DeleteCommit, DeletePublish, DeleteFails
<1>4. EventType'
  <2>1. CASE DeletePublish(q)
    BY <1>0, <2>1, EmitType DEF DeletePublish, DeleteStep, EventTypes
  <2> QED BY <2>1 DEF EventType, DeleteBegin, DeleteVectors, DeleteStorage, DeleteLoad,
                      DeleteCommit, DeleteFails
<1>5. DeleteType'
  <2>1. ASSUME NEW d \in Docs, DeleteBegin(q, d)
        PROVE  DeleteType'
    BY <2>1, MaxChunksAssumption DEF DeleteType, DeleteSteps, DeleteBegin
  <2>2. CASE DeleteLoad(q)
    BY <1>0, <2>2 DEF DeleteType, DeleteSteps, DeleteLoad, ChunkType
  <2>3. CASE DeleteVectors(q) \/ DeleteStorage(q)
    BY <2>3 DEF DeleteType, DeleteSteps, DeleteStep, DeleteVectors, DeleteStorage
  <2>4. CASE DeleteCommit(q) \/ DeletePublish(q) \/ DeleteFails(q)
    BY <2>4 DEF DeleteType, DeleteSteps, DeleteStep, DeleteCommit, DeletePublish, DeleteFails
  <2> QED BY <2>1, <2>2, <2>3, <2>4
<1> QED BY <1>1, <1>2, <1>3, <1>4, <1>5

LEMMA EmbedAddType ==
  ASSUME TypeOK, Holding, InLoop, NEW w \in Workers, EmbedAdd(w)
  PROVE  WorkerType' /\ VectorType'
<1> DEFINE k == wk[w].i + 1
<1>1. /\ wk[w].at = "add"
      /\ wk[w].doc \in Docs
      /\ k \in 0..MaxChunks
  BY MaxChunksAssumption DEF EmbedAdd, At, Holding, InLoop, TypeOK, WorkerType
<1> HIDE DEF k
<1>2. CASE /\ vectors' = [vectors EXCEPT ![wk[w].doc][k] = @ + 1]
           /\ wk' = [wk EXCEPT ![w].i = k,
                               ![w].at = IF k = wk[w].n THEN "embedded" ELSE "add"]
  <2>1. WorkerType'
    <3>1. PICK to \in WorkerSteps : wk' = [wk EXCEPT ![w].i = k, ![w].at = to]
      BY <1>2 DEF WorkerSteps, EmbedSteps
    <3> QED BY <1>1, <3>1 DEF TypeOK, WorkerType
  <2>2. VectorType'
    <3>1. k \in Positions => vectors[wk[w].doc][k] + 1 \in Nat
      BY <1>1 DEF TypeOK, VectorType
    <3> QED BY <1>1, <1>2, <3>1 DEF TypeOK, VectorType
  <2> QED BY <2>1, <2>2
<1>3. CASE Goto(w, "failure") /\ UNCHANGED vectors
  BY <1>3 DEF Goto, TypeOK, WorkerType, VectorType, WorkerSteps
<1> QED BY <1>2, <1>3 DEF EmbedAdd, k

LEMMA TypeWorker ==
  ASSUME TypeOK, Holding, InLoop, NEW w \in Workers, WorkerStep(w) \/ WorkerCrash(w)
  PROVE  TypeOK'
<1> USE DEF database, stores, api, TypeOK
<1>0. /\ wk[w].at # "idle" => wk[w].doc \in Docs
      /\ wk[w].n \in 0..MaxChunks
  BY DEF Holding, WorkerType
<1>1. RowType'
  BY <1>0 DEF RowType, Statuses, At, MarkCompleted, MarkFails, WorkerStep, WorkerCrash, Take,
         ProcessFetch, ProcessDownload, ProcessSave, ProcessMark, ProcessChain, ChunkFetch,
         ChunkBuild, ChunkInsert, ChunkFinish, EmbedInit, EmbedFetch, EmbedAdd, EmbedFinish,
         OnFailure
<1>2. TextType'
  BY <1>0 DEF TextType, At, WorkerStep, WorkerCrash, Take,
         ProcessFetch, ProcessDownload, ProcessSave, ProcessMark, ProcessChain, ChunkFetch,
         ChunkBuild, ChunkInsert, ChunkFinish, EmbedInit, EmbedFetch, EmbedAdd, EmbedFinish,
         OnFailure
<1>3. ChunkType'
  <2>1. CASE ChunkInsert(w)
    BY <1>0, <2>1, MaxChunksAssumption DEF ChunkType, ChunkInsert, At, InLoop
  <2>2. CASE ChunkBuild(w)
    BY <1>0, <2>2, MaxChunksAssumption DEF ChunkType, ChunkBuild, At
  <2> QED BY <2>1, <2>2 DEF ChunkType, WorkerStep, WorkerCrash, Take,
         ProcessFetch, ProcessDownload, ProcessSave, ProcessMark, ProcessChain, ChunkFetch,
         ChunkFinish, EmbedInit, EmbedFetch, EmbedAdd, EmbedFinish, OnFailure
<1>4. StoreType'
  BY <1>0 DEF StoreType, At, WorkerStep, WorkerCrash, Take,
         ProcessFetch, ProcessDownload, ProcessSave, ProcessMark, ProcessChain, ChunkFetch,
         ChunkBuild, ChunkInsert, ChunkFinish, EmbedInit, EmbedFetch, EmbedAdd, EmbedFinish,
         OnFailure
<1>5. VectorType'
  BY EmbedAddType DEF VectorType, WorkerStep, WorkerCrash, Take,
         ProcessFetch, ProcessDownload, ProcessSave, ProcessMark, ProcessChain, ChunkFetch,
         ChunkBuild, ChunkInsert, ChunkFinish, EmbedInit, EmbedFetch, EmbedFinish, OnFailure
<1>6. UploadType' /\ DeleteType'
  BY DEF UploadType, DeleteType, WorkerStep, WorkerCrash, Take,
         ProcessFetch, ProcessDownload, ProcessSave, ProcessMark, ProcessChain, ChunkFetch,
         ChunkBuild, ChunkInsert, ChunkFinish, EmbedInit, EmbedFetch, EmbedAdd, EmbedFinish,
         OnFailure
<1>7. ServiceType'
  BY DEF ServiceType, InitServices, WorkerStep, WorkerCrash, Take,
         ProcessFetch, ProcessDownload, ProcessSave, ProcessMark, ProcessChain, ChunkFetch,
         ChunkBuild, ChunkInsert, ChunkFinish, EmbedInit, EmbedFetch, EmbedAdd, EmbedFinish,
         OnFailure
<1>8. QueueType'
  <2>1. ASSUME NEW d \in Docs, NEW s \in Stages, Take(w, d, s)
        PROVE  QueueType'
    BY <2>1 DEF QueueType, Take
  <2>2. ASSUME NEW ev, NEW s \in Stages, wk[w].at # "idle", ChainTo(w, ev, s)
        PROVE  QueueType'
    BY <1>0, <2>2, EnqueueType DEF QueueType, ChainTo
  <2>3. CASE ProcessChain(w) \/ ChunkFinish(w)
    BY <2>2, <2>3 DEF ProcessChain, ChunkFinish, At, Stages, QueueType
  <2> QED BY <2>1, <2>3 DEF QueueType, WorkerStep, WorkerCrash,
         ProcessFetch, ProcessDownload, ProcessSave, ProcessMark, ChunkFetch,
         ChunkBuild, ChunkInsert, EmbedInit, EmbedFetch, EmbedAdd, EmbedFinish, OnFailure
<1>9. EventType'
  <2>1. ASSUME NEW evs \in SUBSET EventTypes, wk[w].at # "idle", WorkerEmit(w, evs)
        PROVE  EventType'
    BY <1>0, <2>1, EmitType DEF WorkerEmit
  <2>2. CASE ProcessFetch(w)
    BY <2>1, <2>2 DEF ProcessFetch, Fetch, At, EventTypes, EventType
  <2>3. CASE ProcessMark(w)
    BY <2>1, <2>3 DEF ProcessMark, At, EventTypes, EventType
  <2>4. CASE ProcessChain(w) \/ ChunkFinish(w)
    BY <2>1, <2>4 DEF ProcessChain, ChunkFinish, ChainTo, At, EventTypes, EventType
  <2>5. CASE ChunkBuild(w) \/ EmbedFinish(w)
    BY <2>1, <2>5 DEF ChunkBuild, EmbedFinish, At, EventTypes, EventType
  <2> QED BY <2>2, <2>3, <2>4, <2>5 DEF EventType, WorkerStep, WorkerCrash, Take,
         ProcessDownload, ProcessSave, ChunkFetch, ChunkInsert, EmbedInit, EmbedFetch,
         EmbedAdd, OnFailure
<1>10. WorkerType'
  <2> USE DEF WorkerType
  <2>1. ASSUME NEW step \in WorkerSteps, Goto(w, step)
        PROVE  WorkerType'
    BY <2>1 DEF Goto
  <2>2. ASSUME Done(w)
        PROVE  WorkerType'
    BY <2>2, MaxChunksAssumption DEF Done, Idle, WorkerSteps
  <2>3. ASSUME NEW d \in Docs, NEW s \in Stages, Take(w, d, s)
        PROVE  WorkerType'
    <3>1. s \in WorkerSteps
      BY DEF WorkerSteps, Stages, ProcessSteps, ChunkSteps, EmbedSteps
    <3>2. wk' = [wk EXCEPT ![w].at = s, ![w].doc = d]
      BY <2>3 DEF Take
    <3> QED BY <3>1, <3>2
  <2> USE DEF WorkerSteps, ProcessSteps, ChunkSteps, EmbedSteps
  <2>4. CASE ProcessFetch(w)
    BY <1>0, <2>1, <2>4 DEF ProcessFetch, Fetch, FetchFails, At, RowType
  <2>5. CASE ProcessDownload(w)
    BY <2>1, <2>5 DEF ProcessDownload
  <2>6. CASE ProcessSave(w)
    BY <2>1, <2>6 DEF ProcessSave
  <2>7. CASE ProcessMark(w) \/ ChunkBuild(w) \/ ChunkInsert(w)
    BY <2>1, <2>7 DEF ProcessMark, ChunkBuild, ChunkInsert
  <2>8. CASE ProcessChain(w) \/ ChunkFinish(w) \/ EmbedFinish(w)
    BY <2>1, <2>2, <2>8 DEF ProcessChain, ChunkFinish, EmbedFinish, ChainTo, MarkFails
  <2>9. CASE ChunkFetch(w)
    BY <1>0, <2>1, <2>9 DEF ChunkFetch, FetchFails, At, RowType, TextType
  <2>10. CASE EmbedInit(w)
    BY <2>1, <2>10 DEF EmbedInit
  <2>11. CASE EmbedFetch(w)
    BY <1>0, <2>1, <2>2, <2>11, MaxChunksAssumption
       DEF EmbedFetch, FetchFails, At, RowType, ChunkType
  <2>12. CASE OnFailure(w) \/ WorkerCrash(w)
    BY <2>2, <2>12 DEF OnFailure, WorkerCrash
  <2> QED BY <2>3, <2>4, <2>5, <2>6, <2>7, <2>8, <2>9, <2>10, <2>11, <2>12, EmbedAddType
             DEF WorkerStep
<1> QED BY <1>1, <1>2, <1>3, <1>4, <1>5, <1>6, <1>7, <1>8, <1>9, <1>10

LEMMA TypeStep == TypeOK /\ Holding /\ InLoop /\ [Next]_vars => TypeOK'
<1> SUFFICES ASSUME TypeOK, Holding, InLoop, [Next]_vars
             PROVE  TypeOK'
  OBVIOUS
<1>1. CASE UNCHANGED vars
  BY <1>1 DEF vars, database, stores, api, worker, TypeOK, RowType, TextType, ChunkType,
              StoreType, VectorType, QueueType, EventType, UploadType, DeleteType,
              WorkerType, ServiceType
<1>2. CASE Next
  BY <1>2, TypeUpload, TypeDelete, TypeWorker DEF Next
<1> QED BY <1>1, <1>2
-----------------------------------------------------------------------------
(***************************************************************************)
(* What a step may do to the tasks: leave them where they are, end one,    *)
(* end one and queue the next, take one, or start the first one of an      *)
(* upload.                                                                 *)
(***************************************************************************)
Stays == queue' = queue /\ \A v \in Workers : wk'[v].doc = wk[v].doc

Freed(w) == \A v \in Workers : wk'[v].doc = IF v = w THEN NoDoc ELSE wk[v].doc

Leaves(w) == queue' = queue /\ Freed(w)

Chains(w, s) == wk[w].doc \in Docs /\ Enqueue(wk[w].doc, s) /\ Freed(w)

Takes(w, d, s) ==
  /\ wk[w].doc = NoDoc
  /\ queue[d][s] > 0
  /\ queue' = [queue EXCEPT ![d][s] = @ - 1]
  /\ \A v \in Workers : wk'[v].doc = IF v = w THEN d ELSE wk[v].doc

Starts(d) ==
  /\ up[d] = "committed"
  /\ up'[d] = "queued"
  /\ Enqueue(d, "process")
  /\ \A v \in Workers : wk'[v].doc = wk[v].doc

Moves ==
  \/ Stays
  \/ \E w \in Workers : Leaves(w)
  \/ \E w \in Workers, s \in Stages : Chains(w, s)
  \/ \E w \in Workers, d \in Docs, s \in Stages : Takes(w, d, s)
  \/ \E d \in Docs : Starts(d)

LEMMA WorkerMoves ==
  ASSUME TypeOK, Holding, NEW w \in Workers, WorkerStep(w) \/ WorkerCrash(w)
  PROVE  Moves
<1> USE DEF TypeOK, WorkerType
<1>1. ASSUME NEW step, Goto(w, step), queue' = queue
      PROVE  Stays
  BY <1>1 DEF Goto, Stays
<1>2. ASSUME Done(w)
      PROVE  Freed(w)
  BY <1>2 DEF Done, Idle, Freed
<1>3. ASSUME NEW d \in Docs, NEW s \in Stages, Take(w, d, s)
      PROVE  Takes(w, d, s)
  BY <1>3 DEF Take, Takes, At, Holding
<1>4. ASSUME NEW ev, NEW s \in Stages, wk[w].at # "idle", ChainTo(w, ev, s)
      PROVE  Moves
  BY <1>1, <1>2, <1>4 DEF ChainTo, Moves, Chains, Holding
<1>5. CASE ProcessChain(w) \/ ChunkFinish(w)
  BY <1>1, <1>4, <1>5 DEF ProcessChain, ChunkFinish, At, Stages, MarkFails, Moves
<1>6. CASE ProcessFetch(w) \/ ProcessMark(w) \/ ChunkBuild(w) \/ ChunkInsert(w) \/ EmbedInit(w)
  BY <1>1, <1>6 DEF ProcessFetch, Fetch, FetchFails, ProcessMark, ChunkBuild, ChunkInsert,
                    EmbedInit, Moves, Stays
<1>7. CASE ProcessDownload(w) \/ ProcessSave(w) \/ ChunkFetch(w) \/ EmbedAdd(w)
  BY <1>1, <1>7 DEF ProcessDownload, ProcessSave, ChunkFetch, FetchFails, EmbedAdd, Moves, Stays
<1>8. CASE EmbedFetch(w) \/ EmbedFinish(w) \/ OnFailure(w) \/ WorkerCrash(w)
  BY <1>1, <1>2, <1>8 DEF EmbedFetch, FetchFails, EmbedFinish, MarkFails, OnFailure,
                          WorkerCrash, Moves, Leaves, Stays
<1> QED BY <1>3, <1>5, <1>6, <1>7, <1>8 DEF WorkerStep, Moves

LEMMA MovesStep == TypeOK /\ Holding /\ [Next]_vars => Moves
<1> SUFFICES ASSUME TypeOK, Holding, [Next]_vars
             PROVE  Moves
  OBVIOUS
<1> USE DEF Moves
<1>1. CASE UNCHANGED vars
  BY <1>1 DEF vars, worker, Stays
<1>2. ASSUME NEW d \in Docs, UploadEnqueue(d)
      PROVE  Starts(d)
  BY <1>2 DEF UploadEnqueue, Starts, worker, TypeOK, UploadType
<1>3. ASSUME NEW d \in Docs,
             \/ UploadStore(d) \/ UploadCommit(d) \/ UploadFinish(d)
             \/ UploadFails(d) \/ CreateDocument(d) \/ Share(d)
      PROVE  Stays
  BY <1>3 DEF Stays, worker, UploadStore, UploadCommit, UploadFinish, UploadFails,
              CreateDocument, Share
<1>4. ASSUME NEW q \in Deletes,
             \/ \E d \in Docs : DeleteBegin(q, d)
             \/ DeleteVectors(q) \/ DeleteStorage(q) \/ DeleteLoad(q) \/ DeleteCommit(q)
             \/ DeletePublish(q) \/ DeleteFails(q)
      PROVE  Stays
  BY <1>4 DEF Stays, worker, DeleteBegin, DeleteVectors, DeleteStorage, DeleteLoad,
              DeleteCommit, DeletePublish, DeleteFails
<1> QED BY <1>1, <1>2, <1>3, <1>4, WorkerMoves DEF Next

LEMMA OneTaskStep ==
  ASSUME TypeOK, Holding, OneTaskPerDocument, NotYetQueued, Moves
  PROVE  OneTaskPerDocument'
<1> USE NoDocAssumption DEF OneTaskPerDocument, TypeOK, QueueType, WorkerType
<1>1. CASE Stays
  BY <1>1 DEF Stays
<1>2. ASSUME NEW w \in Workers, Leaves(w)
      PROVE  OneTaskPerDocument'
  <2>1. queue' = queue
    BY <1>2 DEF Leaves
  <2>2. \A v \in Workers : wk'[v].doc = IF v = w THEN NoDoc ELSE wk[v].doc
    BY <1>2 DEF Leaves, Freed
  <2>3. \A v \in Workers, d \in Docs : wk'[v].doc = d => wk[v].doc = d
    BY <2>2
  <2> QED BY <2>1, <2>3
<1>3. ASSUME NEW w \in Workers, NEW s \in Stages, Chains(w, s)
      PROVE  OneTaskPerDocument'
  <2> DEFINE d == wk[w].doc
  <2>1. d \in Docs /\ \A t \in Stages : queue[d][t] = 0
    BY <1>3 DEF Chains
  <2>2. \A e \in Docs, t \in Stages :
          queue'[e][t] = IF e = d /\ t = s THEN 1 ELSE queue[e][t]
    BY <1>3, <2>1 DEF Chains, Enqueue
  <2>3. \A v \in Workers : wk'[v].doc = IF v = w THEN NoDoc ELSE wk[v].doc
    BY <1>3 DEF Chains, Freed
  <2> HIDE DEF d
  <2>4. \A e \in Docs, t \in Stages : queue'[e][t] > 0 =>
          queue[e][t] > 0 \/ (e = d /\ t = s)
    BY <2>2
  <2>5. \A v \in Workers : wk'[v].doc # d
    BY <2>1, <2>3 DEF d
  <2>6. \A e \in Docs, t \in Stages : queue'[e][t] <= 1
    BY <2>2
  <2>7. \A e \in Docs, t, u \in Stages : queue'[e][t] > 0 /\ queue'[e][u] > 0 => t = u
    BY <2>1, <2>2, <2>4
  <2>8. \A e \in Docs, u, v \in Workers : wk'[u].doc = e /\ wk'[v].doc = e => u = v
    BY <2>3
  <2>9. \A e \in Docs, t \in Stages, v \in Workers : queue'[e][t] > 0 => wk'[v].doc # e
    BY <2>3, <2>4, <2>5
  <2> QED BY <2>6, <2>7, <2>8, <2>9
<1>4. ASSUME NEW w \in Workers, NEW d \in Docs, NEW s \in Stages, Takes(w, d, s)
      PROVE  OneTaskPerDocument'
  BY <1>4 DEF Takes
<1>5. ASSUME NEW d \in Docs, Starts(d)
      PROVE  OneTaskPerDocument'
  BY <1>5 DEF Starts, Enqueue, NotYetQueued, Outstanding, Stages
<1> QED BY <1>1, <1>2, <1>3, <1>4, <1>5 DEF Moves

\* Only a document whose upload starts gets its first task.
LEMMA OutstandingStep ==
  ASSUME TypeOK, Holding, Moves, NEW d \in Docs, ~Outstanding(d), ~Starts(d)
  PROVE  ~Outstanding(d)'
<1> USE NoDocAssumption DEF Outstanding, TypeOK, QueueType, WorkerType
<1>1. CASE Stays
  BY <1>1 DEF Stays
<1>2. ASSUME NEW w \in Workers, Leaves(w)
      PROVE  ~Outstanding(d)'
  BY <1>2 DEF Leaves, Freed
<1>3. ASSUME NEW w \in Workers, NEW s \in Stages, Chains(w, s)
      PROVE  ~Outstanding(d)'
  BY <1>3 DEF Chains, Enqueue, Freed
<1>4. ASSUME NEW w \in Workers, NEW e \in Docs, NEW s \in Stages, Takes(w, e, s)
      PROVE  ~Outstanding(d)'
  BY <1>4 DEF Takes
<1>5. ASSUME NEW e \in Docs, Starts(e)
      PROVE  ~Outstanding(d)'
  BY <1>5 DEF Starts, Enqueue
<1> QED BY <1>1, <1>2, <1>3, <1>4, <1>5 DEF Moves

\* An upload that has not queued its task has not got past that point.
LEMMA UploadStep ==
  ASSUME TypeOK, [Next]_vars, NEW d \in Docs,
         up'[d] \in {"idle", "stored", "committed", "rejected", "created"}
  PROVE  up[d] \in {"idle", "stored", "committed", "rejected", "created"}
<1> USE DEF TypeOK, UploadType
<1>1. CASE UNCHANGED vars
  BY <1>1 DEF vars, api
<1>2. ASSUME NEW e \in Docs,
             \/ UploadStore(e) \/ UploadCommit(e) \/ UploadEnqueue(e) \/ UploadFinish(e)
             \/ UploadFails(e) \/ CreateDocument(e) \/ Share(e)
      PROVE  up[d] \in {"idle", "stored", "committed", "rejected", "created"}
  BY <1>2 DEF api, UploadStore, UploadCommit, UploadEnqueue, UploadFinish, UploadFails,
              CreateDocument, Share, UploadSteps
<1>3. ASSUME NEW q \in Deletes,
             \/ \E e \in Docs : DeleteBegin(q, e)
             \/ DeleteVectors(q) \/ DeleteStorage(q) \/ DeleteLoad(q) \/ DeleteCommit(q)
             \/ DeletePublish(q) \/ DeleteFails(q)
      PROVE  up' = up
  BY <1>3 DEF DeleteBegin, DeleteVectors, DeleteStorage, DeleteLoad, DeleteCommit,
              DeletePublish, DeleteFails
<1>4. ASSUME NEW w \in Workers, WorkerStep(w) \/ WorkerCrash(w)
      PROVE  up' = up
  BY <1>4 DEF api, WorkerStep, WorkerCrash, Take, ProcessFetch, ProcessDownload, ProcessSave,
         ProcessMark, ProcessChain, ChunkFetch, ChunkBuild, ChunkInsert, ChunkFinish,
         EmbedInit, EmbedFetch, EmbedAdd, EmbedFinish, OnFailure
<1> QED BY <1>1, <1>2, <1>3, <1>4 DEF Next

LEMMA NotYetQueuedStep ==
  TypeOK /\ Holding /\ NotYetQueued /\ [Next]_vars => NotYetQueued'
<1> SUFFICES ASSUME TypeOK, Holding, NotYetQueued, [Next]_vars, NEW d \in Docs,
                    up'[d] \in {"idle", "stored", "committed", "rejected", "created"}
             PROVE  ~Outstanding(d)'
  BY DEF NotYetQueued
<1>1. ~Outstanding(d)
  BY UploadStep DEF NotYetQueued
<1>2. ~Starts(d)
  BY DEF Starts
<1> QED BY <1>1, <1>2, MovesStep, OutstandingStep

LEMMA HoldingStep == TypeOK /\ Holding /\ [Next]_vars => Holding'
<1> SUFFICES ASSUME TypeOK, Holding, [Next]_vars
             PROVE  Holding'
  OBVIOUS
<1> USE NoDocAssumption DEF Holding, TypeOK, WorkerType, DeleteType
<1>1. CASE UNCHANGED vars
  BY <1>1 DEF vars, api, worker
<1>2. ASSUME NEW d \in Docs,
             \/ UploadStore(d) \/ UploadCommit(d) \/ UploadEnqueue(d) \/ UploadFinish(d)
             \/ UploadFails(d) \/ CreateDocument(d) \/ Share(d)
      PROVE  del' = del /\ wk' = wk
  BY <1>2 DEF api, worker, UploadStore, UploadCommit, UploadEnqueue, UploadFinish,
              UploadFails, CreateDocument, Share
<1>3. ASSUME NEW q \in Deletes,
             \/ \E d \in Docs : DeleteBegin(q, d)
             \/ DeleteVectors(q) \/ DeleteStorage(q) \/ DeleteLoad(q) \/ DeleteCommit(q)
             \/ DeletePublish(q) \/ DeleteFails(q)
      PROVE  Holding'
  BY <1>3 DEF worker, DeleteBegin, DeleteVectors, DeleteStorage, DeleteLoad, DeleteCommit,
              DeletePublish, DeleteFails, DeleteStep
<1>4. ASSUME NEW w \in Workers, WorkerStep(w) \/ WorkerCrash(w)
      PROVE  Holding'
  <2>1. del' = del
    BY <1>4 DEF api, WorkerStep, WorkerCrash, Take, ProcessFetch, ProcessDownload,
         ProcessSave, ProcessMark, ProcessChain, ChunkFetch, ChunkBuild, ChunkInsert,
         ChunkFinish, EmbedInit, EmbedFetch, EmbedAdd, EmbedFinish, OnFailure
  <2>2. ASSUME NEW step, step # "idle", wk[w].at # "idle", Goto(w, step)
        PROVE  Holding'
    BY <2>1, <2>2 DEF Goto
  <2>3. ASSUME Done(w)
        PROVE  Holding'
    BY <2>1, <2>3 DEF Done, Idle
  <2>4. ASSUME NEW d \in Docs, NEW s \in Stages, Take(w, d, s)
        PROVE  Holding'
    BY <2>1, <2>4 DEF Take, Stages
  <2>5. CASE ProcessChain(w) \/ ChunkFinish(w) \/ EmbedFinish(w) \/ OnFailure(w) \/ WorkerCrash(w)
    BY <2>2, <2>3, <2>5 DEF ProcessChain, ChunkFinish, EmbedFinish, ChainTo, MarkFails,
                            OnFailure, WorkerCrash, At
  <2>6. CASE ProcessFetch(w) \/ ProcessMark(w) \/ ChunkBuild(w) \/ ChunkInsert(w) \/ EmbedInit(w)
    BY <2>1, <2>2, <2>6 DEF ProcessFetch, Fetch, FetchFails, ProcessMark, ChunkBuild,
                            ChunkInsert, EmbedInit, At
  <2>7. CASE ProcessDownload(w) \/ ProcessSave(w) \/ ChunkFetch(w) \/ EmbedAdd(w)
    BY <2>1, <2>2, <2>7 DEF ProcessDownload, ProcessSave, ChunkFetch, FetchFails, EmbedAdd, At
  <2>8. CASE EmbedFetch(w)
    BY <2>1, <2>2, <2>3, <2>8 DEF EmbedFetch, FetchFails, At
  <2> QED BY <1>4, <2>4, <2>5, <2>6, <2>7, <2>8 DEF WorkerStep
<1> QED BY <1>1, <1>2, <1>3, <1>4 DEF Next

LEMMA InLoopStep ==
  TypeOK /\ Holding /\ OneTaskPerDocument /\ InLoop /\ [Next]_vars => InLoop'
<1> SUFFICES ASSUME TypeOK, Holding, OneTaskPerDocument, InLoop, [Next]_vars
             PROVE  InLoop'
  OBVIOUS
<1> USE MaxChunksAssumption DEF InLoop, TypeOK, WorkerType, ChunkType
<1>1. CASE UNCHANGED vars
  BY <1>1 DEF vars, database, worker
<1>2. ASSUME NEW d \in Docs,
             \/ UploadStore(d) \/ UploadCommit(d) \/ UploadEnqueue(d) \/ UploadFinish(d)
             \/ UploadFails(d) \/ CreateDocument(d) \/ Share(d)
      PROVE  chunks' = chunks /\ wk' = wk
  BY <1>2 DEF database, worker, UploadStore, UploadCommit, UploadEnqueue, UploadFinish,
              UploadFails, CreateDocument, Share
<1>3. ASSUME NEW q \in Deletes,
             \/ \E d \in Docs : DeleteBegin(q, d)
             \/ DeleteVectors(q) \/ DeleteStorage(q) \/ DeleteLoad(q) \/ DeleteCommit(q)
             \/ DeletePublish(q) \/ DeleteFails(q)
      PROVE  InLoop'
  <2>1. wk' = wk /\ \A d \in Docs : chunks'[d] \in {chunks[d], 0}
    BY <1>3 DEF database, worker, DeleteBegin, DeleteVectors, DeleteStorage, DeleteLoad,
                DeleteCommit, DeletePublish, DeleteFails
  <2> QED BY <2>1 DEF Holding
<1>4. ASSUME NEW w \in Workers, WorkerStep(w) \/ WorkerCrash(w)
      PROVE  InLoop'
  <2>1. ASSUME NEW step, step \notin {"insert", "add"}, chunks' = chunks, Goto(w, step)
        PROVE  InLoop'
    BY <2>1 DEF Goto
  <2>2. ASSUME chunks' = chunks, Done(w)
        PROVE  InLoop'
    BY <2>2 DEF Done, Idle
  <2>3. ASSUME NEW d \in Docs, NEW s \in Stages, Take(w, d, s)
        PROVE  InLoop'
    BY <2>3 DEF Take, Stages, database
  <2>4. CASE ProcessChain(w) \/ ChunkFinish(w) \/ EmbedFinish(w) \/ OnFailure(w) \/ WorkerCrash(w)
    BY <2>1, <2>2, <2>4 DEF ProcessChain, ChunkFinish, EmbedFinish, ChainTo, MarkFails,
                            OnFailure, WorkerCrash, database
  <2>5. CASE ProcessFetch(w) \/ ProcessMark(w) \/ EmbedInit(w)
    BY <2>1, <2>5 DEF ProcessFetch, Fetch, FetchFails, ProcessMark, EmbedInit, database
  <2>6. CASE ProcessDownload(w) \/ ProcessSave(w) \/ ChunkFetch(w)
    BY <2>1, <2>6 DEF ProcessDownload, ProcessSave, ChunkFetch, FetchFails, database
  <2>7. CASE EmbedFetch(w)
    BY <2>1, <2>2, <2>7 DEF EmbedFetch, FetchFails, At, Holding
  <2>8. CASE EmbedAdd(w)
    <3> DEFINE k == wk[w].i + 1
    <3>1. k <= wk[w].n /\ chunks' = chunks
      BY <2>8 DEF EmbedAdd, At, database
    <3>2. CASE wk' = [wk EXCEPT ![w].i = k,
                                ![w].at = IF k = wk[w].n THEN "embedded" ELSE "add"]
      <4>1. PICK to \in {"embedded", "add"} :
              /\ wk' = [wk EXCEPT ![w].i = k, ![w].at = to]
              /\ to = "add" => k # wk[w].n
        BY <3>2
      <4>2. wk'[w].at = to /\ wk'[w].i = k /\ wk'[w].n = wk[w].n
        BY <4>1
      <4>3. \A v \in Workers : v # w => wk'[v] = wk[v]
        BY <4>1
      <4> QED BY <3>1, <4>1, <4>2, <4>3
    <3> QED BY <2>1, <2>8, <3>1, <3>2 DEF EmbedAdd
  <2>9. CASE ChunkBuild(w) \/ ChunkInsert(w)
    <3>1. /\ wk[w].doc \in Docs
          /\ \A v \in Workers : v # w => wk'[v] = wk[v] /\ wk[v].doc # wk[w].doc
          /\ wk'[w].doc = wk[w].doc /\ wk'[w].at # "add"
      BY <2>9 DEF ChunkBuild, ChunkInsert, At, Goto, Holding, OneTaskPerDocument
    <3>2. \A d \in Docs : d # wk[w].doc => chunks'[d] = chunks[d]
      BY <2>9 DEF ChunkBuild, ChunkInsert
    <3>3. wk'[w].at = "insert" => chunks'[wk[w].doc] = 0
      BY <2>9, <3>1 DEF ChunkBuild, ChunkInsert, Goto
    <3> QED BY <3>1, <3>2, <3>3 DEF Holding
  <2> QED BY <1>4, <2>3, <2>4, <2>5, <2>6, <2>7, <2>8, <2>9 DEF WorkerStep
<1> QED BY <1>1, <1>2, <1>3, <1>4 DEF Next
-----------------------------------------------------------------------------
LEMMA InvInit == Init => IInv
<1> SUFFICES ASSUME Init
             PROVE  Holding /\ OneTaskPerDocument /\ NotYetQueued /\ InLoop
  BY TypeInit DEF IInv
<1> QED BY NoDocAssumption
        DEF Init, Idle, NoRequest, Holding, OneTaskPerDocument, NotYetQueued, Outstanding, InLoop

LEMMA InvStep == IInv /\ [Next]_vars => IInv'
BY TypeStep, HoldingStep, MovesStep, OneTaskStep, NotYetQueuedStep, InLoopStep DEF IInv

LEMMA Invariance == Spec => []IInv
BY InvInit, InvStep, PTL DEF Spec

\* Every variable keeps its type: above all, the rows of chunks never exceed
\* the text they were cut from and the loop of embed_chunks stays inside them.
THEOREM TypeCorrect == Spec => []TypeOK
BY Invariance, PTL DEF IInv

\* The upload handler, the broker and the three tasks keep at most one task per
\* document, queued or running, whatever fails.
THEOREM OneTask == Spec => []OneTaskPerDocument
BY Invariance, PTL DEF IInv
-----------------------------------------------------------------------------
(***************************************************************************)
(* What is true of each document at every step, beyond IInv: where its     *)
(* status, its chunks and vectors, its events and its object stand, given  *)
(* where its request and its task are.                                     *)
(***************************************************************************)
\* The request has not queued a task (and, once "rejected" or "created", never will).
NoTaskYet(d) == up[d] \in {"idle", "stored", "committed", "rejected", "created"}

\* Where a task is before its document's text is saved, and after.
Early  == {"process", "download", "save", "mark"}
Late   == {"chain", "chunk", "build", "insert", "chunked", "embed", "fetch", "add", "embedded"}
Loaded == {"build", "insert", "chunked", "add", "embedded"}

\* The status follows the task: "pending" until the text is saved, "completed"
\* from then on, and gone at any time.
StatusFollows(d) ==
  /\ up[d] \in {"idle", "stored", "rejected"} => row[d] = "absent"
  /\ up[d] \in {"committed", "created"} => row[d] \in {"pending", "absent"}
  /\ queue[d]["process"] > 0 => row[d] \in {"pending", "absent"}
  /\ queue[d]["chunk"] > 0 \/ queue[d]["embed"] > 0 => row[d] \in {"completed", "absent"}
  /\ \A w \in Workers :
       wk[w].doc = d =>
         /\ wk[w].at \in Early => row[d] \in {"pending", "absent"}
         /\ wk[w].at \in Late => row[d] \in {"completed", "absent"}
         /\ wk[w].at \in Loaded => wk[w].seen = "completed"

\* Points of d: one at each of the first n positions.
VectorsUpTo(d, n) == \A k \in Positions : vectors[d][k] = IF k <= n THEN 1 ELSE 0

\* What the task of worker w has done for d so far.
TaskDid(w, d) ==
  LET at == wk[w].at IN
  /\ at \notin {"add", "embedded", "failure"} => vectors[d] = NoVectors
  /\ at \in {"build", "insert"} => wk[w].n = text[d]
  /\ at \in {"chunked", "embed", "fetch", "add", "embedded"} => chunks[d] = text[d]
  /\ at = "add" => wk[w].n = chunks[d] /\ VectorsUpTo(d, wk[w].i)
  /\ at = "embedded" => VectorsUpTo(d, chunks[d])

\* A document nobody deletes: its row stays, each task finds what the one
\* before it left, and what they leave in the end is the whole index.
IndexFollows(d) ==
  /\ row[d] = "absent" => up[d] \in {"idle", "stored", "rejected"}
  /\ NoTaskYet(d) => vectors[d] = NoVectors
  /\ \A s \in Stages : queue[d][s] > 0 => vectors[d] = NoVectors
  /\ queue[d]["embed"] > 0 => chunks[d] = text[d]
  /\ \A w \in Workers : wk[w].doc = d => TaskDid(w, d)
  /\ row[d] = "completed" /\ ~Outstanding(d) /\ d \notin lost => Indexed(d)

\* "completed" is announced when the chain is over, and nothing follows it.
CompletedFollows(d) ==
  "completed" \in events[d] =>
    /\ ~NoTaskYet(d) /\ ~Outstanding(d)
    /\ DeleteAsked(d) \/ (row[d] = "completed" /\ Indexed(d))

\* "failed" is announced by a task that has only its failure handler left.
FailedFollows(d) ==
  "failed" \in events[d] =>
    /\ "completed" \notin events[d]
    /\ ~NoTaskYet(d)
    /\ \A s \in Stages : queue[d][s] = 0
    /\ \A w \in Workers : wk[w].doc = d => wk[w].at = "failure"
    /\ row[d] \in {"failed", "absent"} \/ Outstanding(d) \/ d \in lost

\* An object is removed only on behalf of a DELETE.
FileFollows(d) ==
  (up[d] = "stored" \/ (row[d] # "absent" /\ up[d] # "created")) /\ ~DeleteAsked(d)
    => d \in file

DocumentInv ==
  \A d \in Docs : /\ StatusFollows(d)
                  /\ ~DeleteAsked(d) => IndexFollows(d)
                  /\ CompletedFollows(d)
                  /\ FailedFollows(d)
                  /\ FileFollows(d)
-----------------------------------------------------------------------------
(***************************************************************************)
(* Which steps concern a document at all.                                  *)
(***************************************************************************)
\* What a step may leave alone: what is stored about d, and also its tasks.
Untouched(d) ==
  /\ row'[d] = row[d] /\ text'[d] = text[d] /\ chunks'[d] = chunks[d]
  /\ vectors'[d] = vectors[d]
  /\ d \in file' <=> d \in file
  /\ d \in lost' <=> d \in lost
  /\ events'[d] = events[d]
  /\ up'[d] = up[d]

Quiet(d) ==
  /\ Untouched(d)
  /\ queue'[d] = queue[d]
  /\ \A w \in Workers : wk[w].doc = d \/ wk'[w].doc = d => wk'[w] = wk[w]

UploadAction(d) ==
  \/ UploadStore(d) \/ UploadCommit(d) \/ UploadEnqueue(d) \/ UploadFinish(d)
  \/ UploadFails(d) \/ CreateDocument(d)

DeleteAction(q) ==
  \/ DeleteVectors(q) \/ DeleteStorage(q) \/ DeleteLoad(q) \/ DeleteCommit(q)
  \/ DeletePublish(q) \/ DeleteFails(q)

LEMMA UploadFrame ==
  ASSUME TypeOK, NEW d \in Docs, NEW e \in Docs, UploadAction(e), d # e
  PROVE  Quiet(d)
<1> USE DEF TypeOK, RowType, StoreType, UploadType, QueueType, EventType
<1>1. UNCHANGED <<text, chunks, vectors, lost, wk>>
  BY DEF UploadAction, UploadStore, UploadCommit, UploadEnqueue, UploadFinish, UploadFails,
         CreateDocument, database, stores, worker
<1>2. row'[d] = row[d] /\ up'[d] = up[d] /\ (d \in file' <=> d \in file)
  BY DEF UploadAction, UploadStore, UploadCommit, UploadEnqueue, UploadFinish, UploadFails,
         CreateDocument, database, stores
<1>3. queue'[d] = queue[d] /\ events'[d] = events[d]
  BY DEF UploadAction, UploadStore, UploadCommit, UploadEnqueue, UploadFinish, UploadFails,
         CreateDocument, Enqueue, Emit
<1> QED BY <1>1, <1>2, <1>3 DEF Quiet, Untouched

LEMMA DeleteFrame ==
  ASSUME TypeOK, Holding, NEW d \in Docs, NEW q \in Deletes, DeleteAction(q), del[q].doc # d
  PROVE  Quiet(d)
<1> USE DEF TypeOK, RowType, TextType, ChunkType, StoreType, EventType
<1>1. UNCHANGED <<queue, wk, lost, up>>
  BY DEF DeleteAction, DeleteVectors, DeleteStorage, DeleteLoad, DeleteCommit, DeletePublish,
         DeleteFails, worker
<1>2. row'[d] = row[d] /\ text'[d] = text[d] /\ chunks'[d] = chunks[d]
  BY DEF DeleteAction, DeleteVectors, DeleteStorage, DeleteLoad, DeleteCommit, DeletePublish,
         DeleteFails, database
<1>3. vectors'[d] = vectors[d] /\ (d \in file' <=> d \in file)
  BY DEF DeleteAction, DeleteVectors, DeleteStorage, DeleteLoad, DeleteCommit, DeletePublish,
         DeleteFails, stores, VectorType
<1>4. events'[d] = events[d]
  BY DEF DeleteAction, DeleteVectors, DeleteStorage, DeleteLoad, DeleteCommit, DeletePublish,
         DeleteFails, Emit
<1> QED BY <1>1, <1>2, <1>3, <1>4 DEF Quiet, Untouched

\* A worker changes its own entry only, and no request and no object.
LEMMA WorkerOwn ==
  ASSUME TypeOK, NEW w \in Workers, WorkerStep(w) \/ WorkerCrash(w)
  PROVE  /\ up' = up /\ del' = del /\ file' = file
         /\ \A v \in Workers : v # w => wk'[v] = wk[v]
<1> USE DEF TypeOK, WorkerType
<1>1. up' = up /\ del' = del /\ file' = file
  BY DEF WorkerStep, WorkerCrash, Take, ProcessFetch, ProcessDownload, ProcessSave,
         ProcessMark, ProcessChain, ChunkFetch, ChunkBuild, ChunkInsert, ChunkFinish,
         EmbedInit, EmbedFetch, EmbedAdd, EmbedFinish, OnFailure, api, stores
<1>2. ASSUME NEW x, wk' = [wk EXCEPT ![w] = x]
      PROVE  \A v \in Workers : v # w => wk'[v] = wk[v]
  BY <1>2
<1>3. \E x : wk' = [wk EXCEPT ![w] = x]
  <2>1. CASE WorkerCrash(w) \/ OnFailure(w) \/ ProcessMark(w) \/ ProcessChain(w) \/ ChunkFinish(w)
             \/ EmbedFinish(w)
    BY <2>1 DEF WorkerCrash, OnFailure, ProcessMark, ProcessChain, ChunkFinish, EmbedFinish,
                ChainTo, MarkFails, Goto, Done
  <2>2. CASE ProcessFetch(w) \/ ProcessDownload(w) \/ ProcessSave(w) \/ ChunkFetch(w)
    BY <2>2 DEF ProcessFetch, ProcessDownload, ProcessSave, ChunkFetch, Fetch, FetchFails, Goto
  <2>3. CASE ChunkBuild(w) \/ ChunkInsert(w) \/ EmbedInit(w) \/ EmbedFetch(w) \/ EmbedAdd(w)
    BY <2>3 DEF ChunkBuild, ChunkInsert, EmbedInit, EmbedFetch, EmbedAdd, FetchFails, Goto, Done
  <2>4. ASSUME NEW d \in Docs, NEW s \in Stages, Take(w, d, s)
        PROVE  \E x : wk' = [wk EXCEPT ![w] = x]
    BY <2>4 DEF Take
  <2> QED BY <2>1, <2>2, <2>3, <2>4 DEF WorkerStep
<1> QED BY <1>1, <1>2, <1>3

LEMMA WorkerFrame ==
  ASSUME TypeOK, Holding, NEW d \in Docs, NEW w \in Workers, WorkerStep(w) \/ WorkerCrash(w),
         wk[w].doc # d
  PROVE  Quiet(d) \/ \E s \in Stages : Take(w, d, s)
<1> SUFFICES ASSUME \A s \in Stages : ~Take(w, d, s)
             PROVE  Quiet(d)
  OBVIOUS
<1> USE DEF TypeOK
<1>0. wk[w].at # "idle" => wk[w].doc \in Docs
  BY DEF Holding
<1>1. up' = up /\ file' = file /\ \A v \in Workers : v # w => wk'[v] = wk[v]
  BY WorkerOwn
<1>2. row'[d] = row[d] /\ text'[d] = text[d]
  BY <1>0 DEF RowType, TextType, At, MarkCompleted, MarkFails, WorkerStep, WorkerCrash, Take,
         ProcessFetch, ProcessDownload, ProcessSave, ProcessMark, ProcessChain, ChunkFetch,
         ChunkBuild, ChunkInsert, ChunkFinish, EmbedInit, EmbedFetch, EmbedAdd, EmbedFinish,
         OnFailure, database
<1>3. chunks'[d] = chunks[d]
  BY <1>0 DEF ChunkType, At, WorkerStep, WorkerCrash, Take,
         ProcessFetch, ProcessDownload, ProcessSave, ProcessMark, ProcessChain, ChunkFetch,
         ChunkBuild, ChunkInsert, ChunkFinish, EmbedInit, EmbedFetch, EmbedAdd, EmbedFinish,
         OnFailure, database
<1>4. vectors'[d] = vectors[d]
  BY <1>0 DEF VectorType, At, WorkerStep, WorkerCrash, Take,
         ProcessFetch, ProcessDownload, ProcessSave, ProcessMark, ProcessChain, ChunkFetch,
         ChunkBuild, ChunkInsert, ChunkFinish, EmbedInit, EmbedFetch, EmbedAdd, EmbedFinish,
         OnFailure, stores
<1>5. d \in lost' <=> d \in lost
  BY <1>0 DEF StoreType, At, WorkerStep, WorkerCrash, Take,
         ProcessFetch, ProcessDownload, ProcessSave, ProcessMark, ProcessChain, ChunkFetch,
         ChunkBuild, ChunkInsert, ChunkFinish, EmbedInit, EmbedFetch, EmbedAdd, EmbedFinish,
         OnFailure
<1>6. events'[d] = events[d]
  <2>1. ASSUME NEW evs, wk[w].at # "idle", WorkerEmit(w, evs)
        PROVE  events'[d] = events[d]
    BY <1>0, <2>1 DEF WorkerEmit, Emit, EventType
  <2>2. CASE ProcessFetch(w) \/ ProcessMark(w) \/ ProcessChain(w) \/ ChunkFinish(w)
    BY <2>1, <2>2 DEF ProcessFetch, Fetch, ProcessMark, ProcessChain, ChunkFinish, ChainTo, At
  <2>3. CASE ChunkBuild(w) \/ EmbedFinish(w)
    BY <2>1, <2>3 DEF ChunkBuild, EmbedFinish, At
  <2> QED BY <2>2, <2>3 DEF WorkerStep, WorkerCrash, Take, ProcessDownload, ProcessSave,
             ChunkFetch, ChunkInsert, EmbedInit, EmbedFetch, EmbedAdd, OnFailure
<1>7. queue'[d] = queue[d]
  <2>1. ASSUME NEW e \in Docs, NEW s \in Stages, Take(w, e, s)
        PROVE  queue'[d] = queue[d]
    BY <2>1 DEF Take, QueueType
  <2>2. ASSUME NEW ev, NEW s \in Stages, wk[w].at # "idle", ChainTo(w, ev, s)
        PROVE  queue'[d] = queue[d]
    BY <1>0, <2>2 DEF ChainTo, Enqueue, QueueType
  <2>3. CASE ProcessChain(w) \/ ChunkFinish(w)
    BY <2>2, <2>3 DEF ProcessChain, ChunkFinish, At, Stages
  <2> QED BY <2>1, <2>3 DEF WorkerStep, WorkerCrash, ProcessFetch, ProcessDownload,
             ProcessSave, ProcessMark, ChunkFetch, ChunkBuild, ChunkInsert, EmbedInit,
             EmbedFetch, EmbedAdd, EmbedFinish, OnFailure
<1>8. wk'[w].doc # d
  <2> USE DEF WorkerType
  <2>1. ASSUME NEW step, Goto(w, step)
        PROVE  wk'[w].doc # d
    BY <2>1 DEF Goto
  <2>2. ASSUME Done(w)
        PROVE  wk'[w].doc # d
    BY <2>2, NoDocAssumption DEF Done, Idle
  <2>3. ASSUME NEW e \in Docs, NEW s \in Stages, Take(w, e, s)
        PROVE  wk'[w].doc # d
    BY <2>3 DEF Take
  <2>4. CASE WorkerCrash(w) \/ OnFailure(w) \/ ProcessMark(w) \/ ProcessChain(w)
             \/ ChunkFinish(w) \/ EmbedFinish(w)
    BY <2>1, <2>2, <2>4 DEF WorkerCrash, OnFailure, ProcessMark, ProcessChain, ChunkFinish,
                EmbedFinish, ChainTo, MarkFails
  <2>5. CASE ProcessFetch(w) \/ ProcessDownload(w) \/ ProcessSave(w) \/ ChunkFetch(w)
    BY <2>1, <2>5 DEF ProcessFetch, ProcessDownload, ProcessSave, ChunkFetch, Fetch, FetchFails
  <2>6. CASE ChunkBuild(w) \/ ChunkInsert(w) \/ EmbedInit(w) \/ EmbedFetch(w) \/ EmbedAdd(w)
    BY <2>1, <2>2, <2>6 DEF ChunkBuild, ChunkInsert, EmbedInit, EmbedFetch, EmbedAdd, FetchFails
  <2> QED BY <2>3, <2>4, <2>5, <2>6 DEF WorkerStep
<1> QED BY <1>1, <1>2, <1>3, <1>4, <1>5, <1>6, <1>7, <1>8 DEF Quiet, Untouched

\* What a step can mean for one document.
LEMMA StepAbout ==
  ASSUME TypeOK, Holding, [Next]_vars, NEW d \in Docs
  PROVE  \/ Quiet(d)
         \/ UploadAction(d)
         \/ \E q \in Deletes : del[q].doc = d /\ DeleteAction(q)
         \/ \E w \in Workers, s \in Stages : Take(w, d, s)
         \/ \E w \in Workers : wk[w].doc = d /\ (WorkerStep(w) \/ WorkerCrash(w))
<1>1. CASE UNCHANGED vars
  BY <1>1 DEF vars, database, stores, api, worker, Quiet, Untouched
<1>2. ASSUME NEW e \in Docs, Share(e)
      PROVE  Quiet(d)
  BY <1>2 DEF Share, stores, api, worker, Quiet, Untouched
<1>3. ASSUME NEW e \in Docs, NEW q \in Deletes, DeleteBegin(q, e)
      PROVE  Quiet(d)
  BY <1>3 DEF DeleteBegin, database, stores, worker, Quiet, Untouched
<1> QED BY <1>1, <1>2, <1>3, UploadFrame, DeleteFrame, WorkerFrame
        DEF Next, UploadAction, DeleteAction

\* Once somebody asked for the delete of a document, that remains so.
LEMMA AskedStays ==
  ASSUME TypeOK, Holding, [Next]_vars, NEW d \in Docs, DeleteAsked(d)
  PROVE  DeleteAsked(d)'
<1> USE DEF DeleteAsked, Holding, TypeOK, DeleteType
<1>1. CASE UNCHANGED vars
  BY <1>1 DEF vars, api
<1>2. ASSUME NEW e \in Docs, UploadAction(e) \/ Share(e)
      PROVE  del' = del
  BY <1>2 DEF UploadAction, UploadStore, UploadCommit, UploadEnqueue, UploadFinish,
              UploadFails, CreateDocument, Share, api
<1>3. ASSUME NEW q \in Deletes, NEW e \in Docs, DeleteBegin(q, e)
      PROVE  DeleteAsked(d)'
  BY <1>3 DEF DeleteBegin
<1>4. ASSUME NEW q \in Deletes, DeleteAction(q)
      PROVE  \A p \in Deletes : del'[p].doc = del[p].doc
  BY <1>4 DEF DeleteAction, DeleteVectors, DeleteStorage, DeleteLoad, DeleteCommit,
              DeletePublish, DeleteFails, DeleteStep
<1>5. ASSUME NEW w \in Workers, WorkerStep(w) \/ WorkerCrash(w)
      PROVE  del' = del
  BY <1>5, WorkerOwn
<1> QED BY <1>1, <1>2, <1>3, <1>4, <1>5 DEF Next, UploadAction, DeleteAction
-----------------------------------------------------------------------------
(***************************************************************************)
(* The steps that only pass a document by, and those of its upload.        *)
(***************************************************************************)
LEMMA QuietStep ==
  ASSUME TypeOK, NEW d \in Docs, Quiet(d), DeleteAsked(d) => DeleteAsked(d)'
  PROVE  /\ StatusFollows(d) => StatusFollows(d)'
         /\ ~DeleteAsked(d)' /\ IndexFollows(d) => IndexFollows(d)'
         /\ CompletedFollows(d) => CompletedFollows(d)'
         /\ FailedFollows(d) => FailedFollows(d)'
         /\ FileFollows(d) => FileFollows(d)'
<1>1. Untouched(d) /\ queue'[d] = queue[d]
  BY DEF Quiet
<1>2. \A w \in Workers : wk[w].doc = d \/ wk'[w].doc = d => wk'[w] = wk[w]
  BY DEF Quiet
<1>3. /\ Outstanding(d)' <=> Outstanding(d)
      /\ NoTaskYet(d)' <=> NoTaskYet(d)
      /\ Indexed(d)' <=> Indexed(d)
  <2>1. Outstanding(d)' <=> Outstanding(d)
    BY <1>1, <1>2 DEF Outstanding
  <2>2. (NoTaskYet(d)' <=> NoTaskYet(d)) /\ (Indexed(d)' <=> Indexed(d))
    BY <1>1 DEF NoTaskYet, Indexed, Untouched
  <2> QED BY <2>1, <2>2
<1>4. StatusFollows(d) => StatusFollows(d)'
  BY <1>1, <1>2 DEF StatusFollows, Untouched
<1>5. IndexFollows(d) => IndexFollows(d)'
  <2> HAVE IndexFollows(d)
  <2>1. \A w \in Workers : wk'[w].doc = d => TaskDid(w, d)'
    BY <1>1, <1>2 DEF IndexFollows, TaskDid, VectorsUpTo, Untouched
  <2> QED BY <1>1, <1>2, <1>3, <2>1 DEF IndexFollows, Untouched
<1>6. (CompletedFollows(d) => CompletedFollows(d)') /\ (FileFollows(d) => FileFollows(d)')
  BY <1>1, <1>3 DEF CompletedFollows, FileFollows, Untouched
<1>7. FailedFollows(d) => FailedFollows(d)'
  BY <1>1, <1>2, <1>3 DEF FailedFollows, Untouched
<1> QED BY <1>4, <1>5, <1>6, <1>7

LEMMA UploadInvStep ==
  ASSUME TypeOK, NotYetQueued, NEW d \in Docs, UploadAction(d),
         StatusFollows(d), ~DeleteAsked(d) => IndexFollows(d),
         CompletedFollows(d), FailedFollows(d), FileFollows(d)
  PROVE  /\ StatusFollows(d)'
         /\ ~DeleteAsked(d)' => IndexFollows(d)'
         /\ CompletedFollows(d)'
         /\ FailedFollows(d)'
         /\ FileFollows(d)'
<1> USE DEF TypeOK, RowType, StoreType, UploadType, QueueType, EventType, UploadSteps
<1>1. UNCHANGED <<text, chunks, vectors, lost, del, wk>>
  BY DEF UploadAction, UploadStore, UploadCommit, UploadEnqueue, UploadFinish, UploadFails,
         CreateDocument, database, stores, worker
<1>2. DeleteAsked(d)' <=> DeleteAsked(d)
  BY <1>1 DEF DeleteAsked
<1>3. /\ \/ up[d] = "idle" /\ up'[d] = "stored" /\ row'[d] = row[d] /\ d \in file'
         \/ up[d] = "stored" /\ up'[d] = "committed" /\ row'[d] = "pending" /\ file' = file
         \/ up[d] = "idle" /\ up'[d] = "created" /\ row'[d] = "pending" /\ file' = file
         \/ up[d] = "stored" /\ up'[d] = "rejected" /\ row'[d] = row[d] /\ file' = file
         \/ up[d] = "committed" /\ up'[d] \in {"queued", "error"} /\ row'[d] = row[d] /\ file' = file
         \/ up[d] = "queued" /\ up'[d] \in {"done", "error"} /\ row'[d] = row[d] /\ file' = file
  BY DEF UploadAction, UploadStore, UploadCommit, UploadEnqueue, UploadFinish, UploadFails,
         CreateDocument, database, stores
<1>4. events'[d] \subseteq events[d] \cup {"uploaded"}
  <2>1. CASE UploadFinish(d)
    <3>1. CASE Emit(d, {"uploaded"})
      BY <3>1 DEF Emit
    <3> QED BY <2>1, <3>1 DEF UploadFinish
  <2> QED BY <2>1 DEF UploadAction, UploadStore, UploadCommit, UploadEnqueue, UploadFails,
                      CreateDocument
<1>5. \/ queue'[d] = queue[d]
      \/ /\ up[d] = "committed" /\ up'[d] = "queued"
         /\ \A s \in Stages : queue'[d][s] = IF s = "process" THEN queue[d][s] + 1 ELSE queue[d][s]
  BY DEF UploadAction, UploadStore, UploadCommit, UploadEnqueue, UploadFinish, UploadFails,
         CreateDocument, Enqueue, Stages
<1>6. NoTaskYet(d) => \A s \in Stages : queue[d][s] = 0
  BY DEF NotYetQueued, NoTaskYet, Outstanding
<1>7. NoTaskYet(d) => \A w \in Workers : wk[w].doc # d
  BY DEF NotYetQueued, NoTaskYet, Outstanding
<1>8. NoTaskYet(d)' => NoTaskYet(d)
  BY <1>3 DEF NoTaskYet
<1>9. StatusFollows(d)'
  BY <1>1, <1>3, <1>5, <1>6, <1>7 DEF StatusFollows, NoTaskYet, Stages
<1>10. ASSUME IndexFollows(d)
       PROVE  IndexFollows(d)'
  <2>1. (row[d] = "absent" => up[d] \in {"idle", "stored", "rejected"})'
    BY <1>3, <1>10 DEF IndexFollows
  <2>2. /\ NoTaskYet(d)' => vectors'[d] = NoVectors
        /\ \A s \in Stages : queue'[d][s] > 0 => vectors'[d] = NoVectors
        /\ queue'[d]["embed"] > 0 => chunks'[d] = text'[d]
    BY <1>1, <1>5, <1>8, <1>10 DEF IndexFollows, NoTaskYet, Stages
  <2>3. \A w \in Workers : wk'[w].doc = d => TaskDid(w, d)'
    BY <1>1, <1>10 DEF IndexFollows, TaskDid, VectorsUpTo
  <2>4. (row[d] = "completed" /\ ~Outstanding(d) /\ d \notin lost => Indexed(d))'
    <3> SUFFICES ASSUME row'[d] = "completed", ~Outstanding(d)', d \notin lost'
                 PROVE  Indexed(d)'
      OBVIOUS
    <3>1. row[d] = "completed"
      BY <1>3
    <3>2. ~Outstanding(d)
      BY <1>1, <1>5 DEF Outstanding, Stages
    <3> QED BY <1>1, <1>10, <3>1, <3>2 DEF IndexFollows, Indexed
  <2> QED BY <2>1, <2>2, <2>3, <2>4 DEF IndexFollows
<1>11. ASSUME ~NoTaskYet(d)
       PROVE  /\ ~NoTaskYet(d)' /\ row'[d] = row[d] /\ queue'[d] = queue[d]
              /\ Outstanding(d)' <=> Outstanding(d)
  <2>1. ~NoTaskYet(d)' /\ row'[d] = row[d] /\ queue'[d] = queue[d]
    BY <1>3, <1>5, <1>11 DEF NoTaskYet
  <2> QED BY <1>1, <2>1 DEF Outstanding
<1>12. ("completed" \in events'[d] => "completed" \in events[d])
       /\ ("failed" \in events'[d] => "failed" \in events[d])
  BY <1>4
<1>13. CompletedFollows(d)' /\ FailedFollows(d)'
  BY <1>1, <1>2, <1>11, <1>12 DEF CompletedFollows, FailedFollows, Indexed
<1>14. FileFollows(d)'
  BY <1>2, <1>3 DEF FileFollows, StatusFollows
<1> QED BY <1>2, <1>9, <1>10, <1>13, <1>14
-----------------------------------------------------------------------------
(***************************************************************************)
(* The steps of the worker that has the document's task.                   *)
(***************************************************************************)
\* What is common to all steps of a worker w that has a document d.
Own(w, d) ==
  /\ \A s \in Stages : queue[d][s] = 0
  /\ \A v \in Workers : wk[v].doc = d \/ wk'[v].doc = d => v = w
  /\ up'[d] = up[d] /\ ~NoTaskYet(d)
  /\ row'[d] = "absent" <=> row[d] = "absent"
  /\ "completed" \notin events[d]
  /\ wk[w].at # "failure" => "failed" \notin events[d]

LEMMA OwnStep ==
  ASSUME TypeOK, Holding, OneTaskPerDocument, NotYetQueued, NEW d \in Docs,
         CompletedFollows(d), FailedFollows(d),
         NEW w \in Workers, wk[w].doc = d, WorkerStep(w) \/ WorkerCrash(w)
  PROVE  Own(w, d)
<1>1. Outstanding(d) /\ ~NoTaskYet(d)
  BY DEF Outstanding, NotYetQueued, NoTaskYet
<1>2. \A s \in Stages : queue[d][s] = 0
  BY DEF OneTaskPerDocument, TypeOK, QueueType
<1>3. \A v \in Workers : wk[v].doc = d \/ wk'[v].doc = d => v = w
  BY WorkerOwn DEF OneTaskPerDocument
<1>4. up'[d] = up[d]
  BY WorkerOwn
<1>5. row'[d] = "absent" <=> row[d] = "absent"
  BY DEF MarkCompleted, MarkFails, WorkerStep, WorkerCrash, Take,
         ProcessFetch, ProcessDownload, ProcessSave, ProcessMark, ProcessChain, ChunkFetch,
         ChunkBuild, ChunkInsert, ChunkFinish, EmbedInit, EmbedFetch, EmbedAdd, EmbedFinish,
         OnFailure, database, TypeOK, RowType
<1>6. "completed" \notin events[d] /\ (wk[w].at # "failure" => "failed" \notin events[d])
  BY <1>1 DEF CompletedFollows, FailedFollows
<1> QED BY <1>1, <1>2, <1>3, <1>4, <1>5, <1>6 DEF Own

\* What w's step makes of the task: it goes on, ends, or chains the next one.
GoesOn(w, d, step) == queue' = queue /\ wk'[w].doc = d /\ wk'[w].at = step
Ends(w)       == queue' = queue /\ wk'[w] = Idle
PassesOn(w, d, s) ==
  /\ \A t \in Stages : queue'[d][t] = IF t = s THEN 1 ELSE 0
  /\ wk'[w] = Idle

LEMMA GotoGoesOn ==
  ASSUME TypeOK, NEW w \in Workers, NEW step, Goto(w, step), queue' = queue
  PROVE  GoesOn(w, wk[w].doc, step) /\ wk'[w].n = wk[w].n /\ wk'[w].i = wk[w].i
         /\ wk'[w].seen = wk[w].seen
BY DEF Goto, GoesOn, TypeOK, WorkerType

LEMMA DoneEnds ==
  ASSUME TypeOK, NEW w \in Workers, Done(w)
  PROVE  wk'[w] = Idle
BY DEF Done, TypeOK, WorkerType

LEMMA ChainPassesOn ==
  ASSUME TypeOK, NEW d \in Docs, NEW w \in Workers, wk[w].doc = d,
         \A s \in Stages : queue[d][s] = 0,
         NEW s \in Stages, NEW ev, ChainTo(w, ev, s)
  PROVE  PassesOn(w, d, s) \/ GoesOn(w, d, "failure")
<1>1. CASE Done(w) /\ Enqueue(d, s)
  BY <1>1, DoneEnds DEF Enqueue, PassesOn, TypeOK, QueueType
<1>2. CASE Goto(w, "failure") /\ UNCHANGED queue
  BY <1>2, GotoGoesOn
<1> QED BY <1>1, <1>2 DEF ChainTo

\* Publishing adds nothing but what it is given.
LEMMA EmitAdds ==
  ASSUME TypeOK, NEW w \in Workers, wk[w].doc \in Docs, NEW evs, WorkerEmit(w, evs)
  PROVE  events'[wk[w].doc] \subseteq events[wk[w].doc] \cup evs
BY DEF WorkerEmit, Emit, TypeOK, EventType

\* The status after a step of w, by where it leaves the task.
LEMMA StatusEnds ==
  ASSUME NEW d \in Docs, NEW w \in Workers, Own(w, d), Ends(w) \/ GoesOn(w, d, "failure")
  PROVE  StatusFollows(d)'
BY NoDocAssumption
   DEF StatusFollows, Own, Early, Late, Loaded, Ends, GoesOn, Idle, NoTaskYet, Stages

LEMMA StatusPasses ==
  ASSUME NEW d \in Docs, NEW w \in Workers, Own(w, d), row'[d] \in {"completed", "absent"},
         NEW s \in {"chunk", "embed"}, PassesOn(w, d, s)
  PROVE  StatusFollows(d)'
BY NoDocAssumption
   DEF StatusFollows, Own, Early, Late, Loaded, PassesOn, Idle, NoTaskYet, Stages

LEMMA StatusGoesOn ==
  ASSUME NEW d \in Docs, NEW w \in Workers, Own(w, d), NEW step, GoesOn(w, d, step),
         \/ step \in Early /\ row'[d] \in {"pending", "absent"}
         \/ step \in Late /\ row'[d] \in {"completed", "absent"},
         step \in Loaded => wk'[w].seen = "completed"
  PROVE  StatusFollows(d)'
BY DEF StatusFollows, Own, Early, Late, Loaded, GoesOn, NoTaskYet, Stages

LEMMA WorkerStatusStep ==
  ASSUME TypeOK, Holding, NEW d \in Docs, StatusFollows(d), NEW w \in Workers,
         wk[w].doc = d, Own(w, d),
         WorkerStep(w) \/ WorkerCrash(w)
  PROVE  StatusFollows(d)'
<1> USE DEF TypeOK, RowType, WorkerType
<1>1. /\ wk[w].at \in Early => row[d] \in {"pending", "absent"}
      /\ wk[w].at \in Late => row[d] \in {"completed", "absent"}
      /\ wk[w].at \in Loaded => wk[w].seen = "completed"
  BY DEF StatusFollows
<1>2. ASSUME Goto(w, "failure"), queue' = queue
      PROVE  StatusFollows(d)'
  BY <1>2, GotoGoesOn, StatusEnds
<1>3. ASSUME Done(w), queue' = queue
      PROVE  StatusFollows(d)'
  BY <1>3, DoneEnds, StatusEnds DEF Ends
<1>4. ASSUME NEW step, Goto(w, step), queue' = queue, row'[d] = row[d],
             \/ wk[w].at \in Early /\ step \in Early
             \/ wk[w].at \in Late /\ step \in Late,
             step \in Loaded => wk[w].at \in Loaded
      PROVE  StatusFollows(d)'
  BY <1>1, <1>4, GotoGoesOn, StatusGoesOn
<1>5. ASSUME NEW s \in Stages, s \in {"chunk", "embed"}, NEW ev, ChainTo(w, ev, s), wk[w].at \in Late,
             row'[d] \in {"completed", "absent"}
      PROVE  StatusFollows(d)'
  BY <1>5, ChainPassesOn, StatusPasses, StatusEnds DEF Own
<1>6. CASE ProcessFetch(w)
  BY <1>1, <1>2, <1>6, StatusGoesOn
     DEF ProcessFetch, Fetch, FetchFails, GoesOn, At, Early, Loaded, database
<1>7. CASE ProcessDownload(w)
  BY <1>1, <1>4, <1>7, StatusGoesOn DEF ProcessDownload, GoesOn, At, Early, Loaded, database
<1>8. CASE ProcessSave(w)
  <2>1. CASE row'[d] = "completed" /\ Goto(w, "chain")
    BY <1>8, <2>1, GotoGoesOn, StatusGoesOn DEF ProcessSave, Late, Loaded
  <2>2. CASE wk' = [wk EXCEPT ![w].at = "mark", ![w].expired = TRUE] /\ row' = row
    BY <1>1, <1>8, <2>2, StatusGoesOn DEF ProcessSave, GoesOn, At, Early, Loaded
  <2> QED BY <1>8, <2>1, <2>2 DEF ProcessSave
<1>9. CASE ProcessMark(w) \/ OnFailure(w) \/ WorkerCrash(w)
  BY <1>2, <1>3, <1>9 DEF ProcessMark, OnFailure, WorkerCrash
<1>10. CASE ProcessChain(w)
  BY <1>1, <1>5, <1>10 DEF ProcessChain, At, Late, Stages, database
<1>11. CASE ChunkFetch(w)
  BY <1>1, <1>2, <1>11, StatusGoesOn
     DEF ChunkFetch, FetchFails, GoesOn, At, Late, Loaded, database
<1>12. CASE ChunkBuild(w) \/ ChunkInsert(w)
  BY <1>2, <1>4, <1>12 DEF ChunkBuild, ChunkInsert, At, Late, Loaded
<1>13. CASE ChunkFinish(w)
  BY <1>1, <1>2, <1>5, <1>13 DEF ChunkFinish, MarkCompleted, MarkFails, At, Late, Loaded, Stages
<1>14. CASE EmbedInit(w)
  BY <1>2, <1>4, <1>14 DEF EmbedInit, At, Late, Loaded, database
<1>15. CASE EmbedFetch(w)
  BY <1>1, <1>2, <1>3, <1>15, StatusGoesOn
     DEF EmbedFetch, FetchFails, GoesOn, At, Late, Loaded
<1>16. CASE EmbedAdd(w)
  <2>1. row'[d] = row[d] /\ queue' = queue /\ wk[w].at = "add"
    BY <1>16 DEF EmbedAdd, At, database
  <2>2. CASE Goto(w, "failure")
    BY <1>2, <2>1, <2>2
  <2>3. ASSUME NEW k, NEW to \in {"embedded", "add"}, wk' = [wk EXCEPT ![w].i = k, ![w].at = to]
        PROVE  StatusFollows(d)'
    BY <1>1, <2>1, <2>3, StatusGoesOn DEF GoesOn, Late, Loaded
  <2> QED BY <1>16, <2>2, <2>3 DEF EmbedAdd
<1>17. CASE EmbedFinish(w)
  BY <1>2, <1>3, <1>17 DEF EmbedFinish, MarkFails
<1>18. ASSUME NEW e \in Docs, NEW s \in Stages, Take(w, e, s)
       PROVE  FALSE
  BY <1>18 DEF Take, At, Holding
<1> QED BY <1>6, <1>7, <1>8, <1>9, <1>10, <1>11, <1>12, <1>13, <1>14, <1>15, <1>16, <1>17, <1>18
        DEF WorkerStep

\* The index after a step of w, by where it leaves the task.
LEMMA IndexEnds ==
  ASSUME NEW d \in Docs, NEW w \in Workers, Own(w, d), IndexFollows(d), Ends(w),
         row'[d] = "completed" => d \in lost' \/ Indexed(d)'
  PROVE  IndexFollows(d)'
<1>1. NoTaskYet(d)' <=> NoTaskYet(d)
  BY DEF Own, NoTaskYet
<1>2. \A v \in Workers : wk'[v].doc # d
  BY NoDocAssumption DEF Own, Ends, Idle
<1>3. \A s \in Stages : ~(queue'[d][s] > 0)
  BY DEF Own, Ends
<1> QED BY <1>1, <1>2, <1>3 DEF IndexFollows, Own, Stages

LEMMA IndexPasses ==
  ASSUME NEW d \in Docs, NEW w \in Workers, Own(w, d), IndexFollows(d),
         NEW s \in Stages, PassesOn(w, d, s),
         vectors'[d] = NoVectors, s = "embed" => chunks'[d] = text'[d]
  PROVE  IndexFollows(d)'
<1>1. NoTaskYet(d)' <=> NoTaskYet(d)
  BY DEF Own, NoTaskYet
<1>2. \A v \in Workers : wk'[v].doc # d
  BY NoDocAssumption DEF Own, PassesOn, Idle
<1>3. \A t \in Stages : queue'[d][t] > 0 => t = s
  BY DEF PassesOn
<1>4. Outstanding(d)'
  BY DEF Outstanding, PassesOn
<1> QED BY <1>1, <1>2, <1>3, <1>4 DEF IndexFollows, Own, Stages

LEMMA IndexGoesOn ==
  ASSUME NEW d \in Docs, NEW w \in Workers, Own(w, d), IndexFollows(d),
         NEW step, GoesOn(w, d, step), TaskDid(w, d)'
  PROVE  IndexFollows(d)'
<1>1. NoTaskYet(d)' <=> NoTaskYet(d)
  BY DEF Own, NoTaskYet
<1>2. \A v \in Workers : wk'[v].doc = d => TaskDid(v, d)'
  BY DEF Own
<1>3. \A s \in Stages : ~(queue'[d][s] > 0)
  BY DEF Own, GoesOn
<1>4. Outstanding(d)'
  BY DEF Outstanding, GoesOn
<1> QED BY <1>1, <1>2, <1>3, <1>4 DEF IndexFollows, Own, Stages

LEMMA EmbedAddIndex ==
  ASSUME TypeOK, Holding, InLoop, NEW d \in Docs, IndexFollows(d), NEW w \in Workers,
         wk[w].doc = d, Own(w, d), EmbedAdd(w)
  PROVE  IndexFollows(d)'
<1> DEFINE k == wk[w].i + 1
<1>1. /\ wk[w].at = "add" /\ wk[w].n = chunks[d] /\ VectorsUpTo(d, wk[w].i)
      /\ chunks[d] = text[d]
  BY DEF EmbedAdd, At, IndexFollows, TaskDid
<1>2. k \in Positions /\ wk[w].i \in Nat /\ k <= chunks[d]
  BY <1>1, MaxChunksAssumption DEF InLoop, TypeOK, WorkerType, Positions
<1>3. queue' = queue /\ chunks' = chunks /\ text' = text
  BY DEF EmbedAdd, database
<1>4. CASE Goto(w, "failure")
  <2>1. GoesOn(w, d, "failure")
    BY <1>3, <1>4, GotoGoesOn
  <2> QED BY <2>1, IndexGoesOn DEF TaskDid, GoesOn
<1>5. CASE /\ vectors' = [vectors EXCEPT ![d][k] = @ + 1]
           /\ wk' = [wk EXCEPT ![w].i = k,
                               ![w].at = IF k = wk[w].n THEN "embedded" ELSE "add"]
  <2>1. PICK to : /\ to = IF k = wk[w].n THEN "embedded" ELSE "add"
                  /\ wk' = [wk EXCEPT ![w].i = k, ![w].at = to]
    BY <1>5
  <2>2. wk'[w].i = k /\ wk'[w].at = to /\ wk'[w].n = wk[w].n /\ wk'[w].doc = d
    BY <2>1 DEF TypeOK, WorkerType
  <2>3. vectors'[d] = [vectors[d] EXCEPT ![k] = @ + 1]
    BY <1>5 DEF TypeOK, VectorType
  <2> HIDE DEF k
  <2>4. \A j \in Positions : vectors'[d][j] = IF j = k THEN vectors[d][j] + 1 ELSE vectors[d][j]
    BY <1>2, <2>3 DEF TypeOK, VectorType
  <2>5. \A j \in Positions : vectors'[d][j] = IF j <= k THEN 1 ELSE 0
    BY <1>1, <1>2, <2>4 DEF VectorsUpTo, Positions, k
  <2>6. TaskDid(w, d)'
    BY <1>1, <1>3, <2>1, <2>2, <2>5 DEF TaskDid, VectorsUpTo
  <2> QED BY <1>3, <2>2, <2>6, IndexGoesOn DEF GoesOn
<1> QED BY <1>4, <1>5 DEF EmbedAdd

LEMMA WorkerIndexStep ==
  ASSUME TypeOK, Holding, InLoop, NEW d \in Docs, StatusFollows(d), IndexFollows(d),
         NEW w \in Workers, wk[w].doc = d, Own(w, d), WorkerStep(w) \/ WorkerCrash(w)
  PROVE  IndexFollows(d)'
<1> USE DEF TypeOK, RowType, WorkerType
<1>1. TaskDid(w, d) /\ row[d] # "absent"
  BY DEF IndexFollows, Own, NoTaskYet
<1>2. ASSUME Goto(w, "failure"), queue' = queue
      PROVE  IndexFollows(d)'
  BY <1>2, GotoGoesOn, IndexGoesOn DEF GoesOn, TaskDid
<1>3. ASSUME NEW step, GoesOn(w, d, step), vectors'[d] = vectors[d],
             wk[w].at \notin {"add", "embedded", "failure"},
             step \in {"download", "save", "mark", "chain"}
      PROVE  IndexFollows(d)'
  BY <1>1, <1>3, IndexGoesOn DEF GoesOn, TaskDid
<1>4. CASE ProcessFetch(w)
  BY <1>2, <1>3, <1>4 DEF ProcessFetch, Fetch, FetchFails, GoesOn, At, stores
<1>5. CASE ProcessDownload(w)
  BY <1>3, <1>5, GotoGoesOn DEF ProcessDownload, GoesOn, At, stores
<1>6. CASE ProcessSave(w)
  BY <1>3, <1>6, GotoGoesOn DEF ProcessSave, GoesOn, At, stores
<1>7. CASE ProcessMark(w)
  BY <1>2, <1>7 DEF ProcessMark
<1>8. CASE ProcessChain(w)
  <2>1. vectors'[d] = NoVectors
    BY <1>1, <1>8 DEF ProcessChain, At, TaskDid, stores
  <2>2. PassesOn(w, d, "chunk") \/ GoesOn(w, d, "failure")
    BY <1>8, ChainPassesOn DEF ProcessChain, Own, Stages
  <2> QED BY <2>1, <2>2, IndexPasses, IndexGoesOn DEF Stages, TaskDid, GoesOn
<1>9. CASE ChunkFetch(w)
  <2>1. CASE FetchFails(w, "chunk")
    BY <1>2, <1>9, <2>1 DEF ChunkFetch, FetchFails
  <2>2. CASE wk' = [wk EXCEPT ![w].at = "build", ![w].seen = row[d], ![w].n = text[d]]
    <3>1. GoesOn(w, d, "build") /\ wk'[w].n = text[d]
      BY <1>9, <2>2 DEF ChunkFetch, GoesOn
    <3>2. vectors'[d] = NoVectors /\ text'[d] = text[d]
      BY <1>1, <1>9 DEF ChunkFetch, FetchFails, At, TaskDid, stores, database
    <3> QED BY <3>1, <3>2, IndexGoesOn DEF TaskDid, GoesOn
  <2> QED BY <1>9, <2>1, <2>2 DEF ChunkFetch
<1>10. CASE ChunkBuild(w)
  <2>1. CASE Goto(w, "insert")
    <3>1. GoesOn(w, d, "insert") /\ wk'[w].n = wk[w].n
      BY <1>10, <2>1, GotoGoesOn DEF ChunkBuild
    <3>2. vectors'[d] = NoVectors /\ text'[d] = text[d] /\ wk[w].n = text[d]
      BY <1>1, <1>10 DEF ChunkBuild, At, TaskDid, stores
    <3> QED BY <3>1, <3>2, IndexGoesOn DEF TaskDid, GoesOn
  <2> QED BY <1>2, <1>10, <2>1 DEF ChunkBuild
<1>11. CASE ChunkInsert(w)
  <2>1. CASE chunks' = [chunks EXCEPT ![d] = @ + wk[w].n] /\ Goto(w, "chunked")
    <3>1. GoesOn(w, d, "chunked")
      BY <1>11, <2>1, GotoGoesOn DEF ChunkInsert
    <3>2. vectors'[d] = NoVectors /\ text'[d] = text[d] /\ wk[w].n = text[d] /\ chunks[d] = 0
      BY <1>1, <1>11 DEF ChunkInsert, At, TaskDid, stores, InLoop
    <3>3. chunks'[d] = text[d]
      BY <2>1, <3>2, MaxChunksAssumption DEF ChunkType, TextType
    <3> QED BY <3>1, <3>2, <3>3, IndexGoesOn DEF TaskDid, GoesOn
  <2> QED BY <1>2, <1>11, <2>1 DEF ChunkInsert
<1>12. CASE ChunkFinish(w)
  <2>1. vectors'[d] = NoVectors /\ chunks'[d] = text'[d]
    BY <1>1, <1>12 DEF ChunkFinish, At, TaskDid, stores
  <2>2. ASSUME NEW ev, ChainTo(w, ev, "embed")
        PROVE  IndexFollows(d)'
    <3>1. PassesOn(w, d, "embed") \/ GoesOn(w, d, "failure")
      BY <2>2, ChainPassesOn DEF Own, Stages
    <3> QED BY <2>1, <3>1, IndexPasses, IndexGoesOn DEF Stages, TaskDid, GoesOn
  <2> QED BY <1>2, <1>12, <2>2 DEF ChunkFinish, MarkFails
<1>13. CASE EmbedInit(w)
  <2>1. CASE Goto(w, "fetch")
    <3>1. GoesOn(w, d, "fetch")
      BY <1>13, <2>1, GotoGoesOn DEF EmbedInit
    <3>2. vectors'[d] = NoVectors /\ text'[d] = text[d] /\ chunks'[d] = text[d]
      BY <1>1, <1>13 DEF EmbedInit, At, TaskDid, stores, database
    <3> QED BY <3>1, <3>2, IndexGoesOn DEF TaskDid, GoesOn
  <2> QED BY <1>2, <1>13, <2>1 DEF EmbedInit
<1>14. CASE EmbedFetch(w)
  <2>1. vectors'[d] = NoVectors /\ text'[d] = text[d] /\ chunks'[d] = text[d]
        /\ chunks[d] = text[d] /\ queue' = queue
    BY <1>1, <1>14 DEF EmbedFetch, FetchFails, At, TaskDid, stores
  <2>2. CASE /\ wk' = [wk EXCEPT ![w].at = "add", ![w].seen = row[d],
                                 ![w].n = chunks[d], ![w].i = 0]
    <3>1. GoesOn(w, d, "add") /\ wk'[w].n = chunks[d] /\ wk'[w].i = 0
      BY <2>1, <2>2 DEF GoesOn
    <3>2. \A k \in Positions : vectors'[d][k] = IF k <= 0 THEN 1 ELSE 0
      BY <2>1 DEF NoVectors, Positions
    <3> QED BY <2>1, <3>1, <3>2, IndexGoesOn DEF TaskDid, GoesOn, VectorsUpTo
  <2>3. CASE chunks[d] = 0 /\ Done(w)
    <3>1. Ends(w)
      BY <2>1, <2>3, DoneEnds DEF Ends
    <3>2. Indexed(d)'
      BY <2>1, <2>3 DEF Indexed, NoVectors, Positions
    <3> QED BY <3>1, <3>2, IndexEnds
  <2> QED BY <1>2, <1>14, <2>1, <2>2, <2>3 DEF EmbedFetch, FetchFails
<1>15. CASE EmbedFinish(w)
  <2>1. CASE Done(w)
    <3>1. Ends(w)
      BY <1>15, <2>1, DoneEnds DEF Ends, EmbedFinish
    <3>2. Indexed(d)'
      BY <1>1, <1>15 DEF EmbedFinish, At, TaskDid, VectorsUpTo, Indexed, stores
    <3> QED BY <3>1, <3>2, IndexEnds
  <2> QED BY <1>2, <1>15, <2>1 DEF EmbedFinish, MarkFails
<1>16. CASE OnFailure(w) \/ WorkerCrash(w)
  <2>1. Ends(w)
    BY <1>16, DoneEnds DEF Ends, OnFailure, WorkerCrash
  <2>2. row'[d] = "completed" => d \in lost'
    BY <1>1, <1>16 DEF OnFailure, WorkerCrash
  <2> QED BY <2>1, <2>2, IndexEnds
<1>17. ASSUME NEW e \in Docs, NEW s \in Stages, Take(w, e, s)
       PROVE  FALSE
  BY <1>17 DEF Take, At, Holding
<1> QED BY <1>4, <1>5, <1>6, <1>7, <1>8, <1>9, <1>10, <1>11, <1>12, <1>13, <1>14, <1>15, <1>16,
           <1>17, EmbedAddIndex DEF WorkerStep

\* Only EmbedFinish announces success, and only on the way to "failure" does a
\* task announce a failure.
LEMMA WorkerEventStep ==
  ASSUME TypeOK, Holding, NEW d \in Docs, StatusFollows(d),
         FailedFollows(d), NEW w \in Workers, wk[w].doc = d, Own(w, d),
         WorkerStep(w) \/ WorkerCrash(w),
         ~DeleteAsked(d) => IndexFollows(d) /\ IndexFollows(d)', DeleteAsked(d)' <=> DeleteAsked(d)
  PROVE  CompletedFollows(d)' /\ FailedFollows(d)'
<1> USE DEF TypeOK, EventType, Own
<1>0. ~NoTaskYet(d)'
  BY DEF NoTaskYet
<1>1. CASE events'[d] \subseteq events[d] \cup {"started", "processed", "chunked"}
           /\ wk[w].at # "failure"
  BY <1>1 DEF CompletedFollows, FailedFollows
<1>2. CASE events'[d] \subseteq events[d] \cup {"failed"} /\ GoesOn(w, d, "failure")
           /\ wk[w].at # "failure"
  <2>1. "completed" \notin events'[d]
    BY <1>2
  <2>2. Outstanding(d)'
    BY <1>2 DEF GoesOn, Outstanding
  <2>3. (\A s \in Stages : queue'[d][s] = 0)
        /\ \A v \in Workers : wk'[v].doc = d => wk'[v].at = "failure"
    BY <1>2 DEF GoesOn
  <2> QED BY <1>0, <2>1, <2>2, <2>3 DEF CompletedFollows, FailedFollows
<1>3. CASE EmbedFinish(w)
  <2>1. wk[w].at = "embedded" /\ wk[w].seen = "completed"
    BY <1>3 DEF EmbedFinish, At, StatusFollows, Loaded
  <2>2. CASE events' = events
    BY <1>1, <2>1, <2>2
  <2>3. CASE WorkerEmit(w, {"embedded", "completed"}) /\ Done(w)
    <3>1. "failed" \notin events'[d]
      BY <2>1, <2>3, EmitAdds
    <3>2. Ends(w)
      BY <1>3, <2>3, DoneEnds DEF Ends, EmbedFinish
    <3>3. ~Outstanding(d)'
      BY <3>2, NoDocAssumption DEF Ends, Idle, Outstanding
    <3>4. ASSUME ~DeleteAsked(d)
          PROVE  row'[d] = "completed" /\ Indexed(d)'
      <4>1. row[d] = "completed"
        BY <2>1, <3>4 DEF StatusFollows, Late, IndexFollows, NoTaskYet, RowType
      <4>2. row' = row /\ UNCHANGED <<chunks, text, vectors>>
        BY <1>3, <2>1 DEF EmbedFinish, MarkCompleted, MarkFails, stores
      <4>3. chunks[d] = text[d] /\ VectorsUpTo(d, chunks[d])
        BY <2>1, <3>4 DEF IndexFollows, TaskDid
      <4> QED BY <4>1, <4>2, <4>3 DEF Indexed, VectorsUpTo
    <3> QED BY <1>0, <3>1, <3>3, <3>4 DEF CompletedFollows, FailedFollows
  <2> QED BY <1>3, <2>2, <2>3 DEF EmbedFinish
<1>4. CASE OnFailure(w) \/ WorkerCrash(w)
  <2>1. events' = events /\ Ends(w)
    BY <1>4, DoneEnds DEF OnFailure, WorkerCrash, Ends
  <2>2. /\ \A s \in Stages : queue'[d][s] = 0
        /\ \A v \in Workers : wk'[v].doc # d
    BY <2>1, NoDocAssumption DEF Ends, Idle
  <2>3. row'[d] \in {"failed", "absent"} \/ d \in lost'
    BY <1>4 DEF OnFailure, WorkerCrash, RowType
  <2> QED BY <1>0, <2>1, <2>2, <2>3 DEF CompletedFollows, FailedFollows
<1>5. CASE ProcessFetch(w) \/ ProcessChain(w) \/ ChunkFinish(w)
  <2>1. ASSUME NEW ev \in {"started", "processed", "chunked"}, WorkerEmit(w, {ev})
        PROVE  events'[d] \subseteq events[d] \cup {"started", "processed", "chunked"}
    BY <2>1, EmitAdds
  <2>2. wk[w].at # "failure"
    BY <1>5 DEF ProcessFetch, Fetch, FetchFails, ProcessChain, ChunkFinish, At
  <2>3. events'[d] \subseteq events[d] \cup {"started", "processed", "chunked"}
    <3>1. CASE ProcessFetch(w)
      BY <2>1, <3>1 DEF ProcessFetch
    <3>2. CASE ProcessChain(w)
      BY <2>1, <3>2 DEF ProcessChain, ChainTo
    <3>3. CASE ChunkFinish(w)
      BY <2>1, <3>3 DEF ChunkFinish, ChainTo
    <3> QED BY <1>5, <3>1, <3>2, <3>3
  <2> QED BY <1>1, <2>2, <2>3
<1>6. CASE ProcessMark(w) \/ ChunkBuild(w)
  <2>1. wk[w].at # "failure" /\ queue' = queue
    BY <1>6 DEF ProcessMark, ChunkBuild, At
  <2>2. CASE events' = events
    BY <1>1, <2>1, <2>2
  <2>3. ASSUME NEW evs \in SUBSET {"failed"}, WorkerEmit(w, evs), Goto(w, "failure")
        PROVE  CompletedFollows(d)' /\ FailedFollows(d)'
    BY <1>2, <2>1, <2>3, EmitAdds, GotoGoesOn
  <2> QED BY <1>6, <2>2, <2>3 DEF ProcessMark, ChunkBuild
<1>7. CASE ProcessDownload(w) \/ ProcessSave(w) \/ ChunkFetch(w) \/ ChunkInsert(w) \/ EmbedInit(w)
           \/ EmbedFetch(w) \/ EmbedAdd(w)
  BY <1>1, <1>7 DEF ProcessDownload, ProcessSave, ChunkFetch, FetchFails, ChunkInsert, EmbedInit,
                    EmbedFetch, EmbedAdd, At
<1>8. ASSUME NEW e \in Docs, NEW s \in Stages, Take(w, e, s)
      PROVE  FALSE
  BY <1>8 DEF Take, At, Holding
<1> QED BY <1>3, <1>4, <1>5, <1>6, <1>7, <1>8 DEF WorkerStep

LEMMA WorkerInvStep ==
  ASSUME TypeOK, Holding, OneTaskPerDocument, NotYetQueued, InLoop, NEW d \in Docs,
         NEW w \in Workers, wk[w].doc = d, WorkerStep(w) \/ WorkerCrash(w),
         StatusFollows(d), ~DeleteAsked(d) => IndexFollows(d),
         CompletedFollows(d), FailedFollows(d), FileFollows(d)
  PROVE  /\ StatusFollows(d)'
         /\ ~DeleteAsked(d)' => IndexFollows(d)'
         /\ CompletedFollows(d)'
         /\ FailedFollows(d)'
         /\ FileFollows(d)'
<1>1. Own(w, d)
  BY OwnStep
<1>2. DeleteAsked(d)' <=> DeleteAsked(d)
  BY WorkerOwn DEF DeleteAsked
<1>3. StatusFollows(d)'
  BY <1>1, WorkerStatusStep
<1>4. ~DeleteAsked(d)' => IndexFollows(d)'
  BY <1>1, <1>2, WorkerIndexStep
<1>5. CompletedFollows(d)' /\ FailedFollows(d)'
  BY <1>1, <1>2, <1>4, WorkerEventStep
<1>6. FileFollows(d)'
  BY <1>1, <1>2, WorkerOwn DEF FileFollows, Own
<1> QED BY <1>3, <1>4, <1>5, <1>6

LEMMA TakeInvStep ==
  ASSUME TypeOK, Holding, OneTaskPerDocument, NotYetQueued, NEW d \in Docs,
         NEW w \in Workers, NEW s \in Stages, Take(w, d, s),
         StatusFollows(d), ~DeleteAsked(d) => IndexFollows(d),
         CompletedFollows(d), FailedFollows(d), FileFollows(d)
  PROVE  /\ StatusFollows(d)'
         /\ ~DeleteAsked(d)' => IndexFollows(d)'
         /\ CompletedFollows(d)'
         /\ FailedFollows(d)'
         /\ FileFollows(d)'
<1>1. UNCHANGED <<row, text, chunks, vectors, file, events, up, del, lost>>
  BY DEF Take, database, stores, api
<1>2. /\ queue[d][s] > 0 /\ Outstanding(d) /\ ~NoTaskYet(d)
      /\ \A t \in Stages : queue'[d][t] = 0
      /\ \A t \in Stages : queue[d][t] > 0 => t = s
  BY DEF Take, Outstanding, NotYetQueued, NoTaskYet, OneTaskPerDocument, TypeOK, QueueType
<1>3. /\ wk'[w].doc = d /\ wk'[w].at = s
      /\ \A v \in Workers : wk'[v].doc = d => v = w
  BY <1>2 DEF Take, TypeOK, WorkerType, OneTaskPerDocument
<1>4. Outstanding(d)' /\ ~NoTaskYet(d)' /\ (DeleteAsked(d)' <=> DeleteAsked(d))
  BY <1>1, <1>2, <1>3 DEF Outstanding, NoTaskYet, DeleteAsked
<1>5. StatusFollows(d)'
  <2>1. /\ row'[d] = row[d] /\ up'[d] = up[d]
        /\ s = "process" => row[d] \in {"pending", "absent"}
        /\ s \in {"chunk", "embed"} => row[d] \in {"completed", "absent"}
    BY <1>1, <1>2 DEF StatusFollows
  <2> QED BY <1>2, <1>3, <2>1 DEF StatusFollows, NoTaskYet, Early, Late, Loaded, Stages
<1>6. ASSUME IndexFollows(d)
      PROVE  IndexFollows(d)'
  <2>1. vectors[d] = NoVectors /\ (s = "embed" => chunks[d] = text[d])
    BY <1>2, <1>6 DEF IndexFollows
  <2>2. \A v \in Workers : wk'[v].doc = d => TaskDid(v, d)'
    BY <1>1, <1>3, <2>1 DEF TaskDid, Stages
  <2> QED BY <1>1, <1>2, <1>4, <1>6, <2>1, <2>2 DEF IndexFollows, Stages
<1>7. CompletedFollows(d)' /\ FailedFollows(d)' /\ FileFollows(d)'
  BY <1>1, <1>2, <1>4 DEF CompletedFollows, FailedFollows, FileFollows
<1> QED BY <1>4, <1>5, <1>6, <1>7

LEMMA DeleteInvStep ==
  ASSUME TypeOK, NEW d \in Docs, NEW q \in Deletes, del[q].doc = d, DeleteAction(q),
         DeleteAsked(d)', StatusFollows(d), CompletedFollows(d), FailedFollows(d)
  PROVE  StatusFollows(d)' /\ CompletedFollows(d)' /\ FailedFollows(d)' /\ FileFollows(d)'
<1> USE DEF TypeOK, RowType, EventType, DeleteAction
<1>1. UNCHANGED <<queue, up, wk, lost>>
  BY DEF DeleteVectors, DeleteStorage, DeleteLoad, DeleteCommit, DeletePublish, DeleteFails, worker
<1>2. row'[d] \in {row[d], "absent"}
  BY DEF DeleteVectors, DeleteStorage, DeleteLoad, DeleteCommit, DeletePublish, DeleteFails,
         database
<1>3. events'[d] \subseteq events[d] \cup {"deleted"}
  BY DEF DeleteVectors, DeleteStorage, DeleteLoad, DeleteCommit, DeletePublish, DeleteFails, Emit
<1>4. DeleteAsked(d)
  BY DEF DeleteAsked
<1>5. (Outstanding(d)' <=> Outstanding(d)) /\ (NoTaskYet(d)' <=> NoTaskYet(d))
  BY <1>1 DEF Outstanding, NoTaskYet
<1>6. StatusFollows(d)'
  BY <1>1, <1>2 DEF StatusFollows
<1>7. CompletedFollows(d)' /\ FailedFollows(d)'
  BY <1>1, <1>2, <1>3, <1>5 DEF CompletedFollows, FailedFollows
<1> QED BY <1>6, <1>7 DEF FileFollows

LEMMA DocumentInvStep == IInv /\ DocumentInv /\ [Next]_vars => DocumentInv'
<1> SUFFICES ASSUME IInv, DocumentInv, [Next]_vars, NEW d \in Docs
             PROVE  /\ StatusFollows(d)'
                    /\ ~DeleteAsked(d)' => IndexFollows(d)'
                    /\ CompletedFollows(d)'
                    /\ FailedFollows(d)'
                    /\ FileFollows(d)'
  BY DEF DocumentInv
<1> USE DEF IInv
<1>1. /\ StatusFollows(d) /\ CompletedFollows(d) /\ FailedFollows(d) /\ FileFollows(d)
      /\ ~DeleteAsked(d) => IndexFollows(d)
  BY DEF DocumentInv
<1>2. DeleteAsked(d) => DeleteAsked(d)'
  BY AskedStays
<1>3. CASE Quiet(d)
  BY <1>1, <1>2, <1>3, QuietStep
<1>4. CASE UploadAction(d)
  BY <1>1, <1>4, UploadInvStep
<1>5. ASSUME NEW q \in Deletes, del[q].doc = d, DeleteAction(q)
      PROVE  /\ StatusFollows(d)' /\ CompletedFollows(d)' /\ FailedFollows(d)' /\ FileFollows(d)'
             /\ DeleteAsked(d)'
  <2>1. DeleteAsked(d)
    BY <1>5 DEF DeleteAsked
  <2> QED BY <1>1, <1>2, <1>5, <2>1, DeleteInvStep
<1>6. ASSUME NEW w \in Workers, NEW s \in Stages, Take(w, d, s)
      PROVE  /\ StatusFollows(d)' /\ CompletedFollows(d)' /\ FailedFollows(d)' /\ FileFollows(d)'
             /\ ~DeleteAsked(d)' => IndexFollows(d)'
  BY <1>1, <1>6, TakeInvStep
<1>7. ASSUME NEW w \in Workers, wk[w].doc = d, WorkerStep(w) \/ WorkerCrash(w)
      PROVE  /\ StatusFollows(d)' /\ CompletedFollows(d)' /\ FailedFollows(d)' /\ FileFollows(d)'
             /\ ~DeleteAsked(d)' => IndexFollows(d)'
  BY <1>1, <1>7, WorkerInvStep
<1> QED BY <1>3, <1>4, <1>5, <1>6, <1>7, StepAbout

LEMMA DocumentInvInit == Init => DocumentInv
<1> SUFFICES ASSUME Init, NEW d \in Docs
             PROVE  /\ StatusFollows(d) /\ IndexFollows(d)
                    /\ CompletedFollows(d) /\ FailedFollows(d) /\ FileFollows(d)
  BY DEF DocumentInv
<1>1. /\ row[d] = "absent" /\ up[d] = "idle" /\ events[d] = {} /\ vectors[d] = NoVectors
      /\ \A s \in Stages : queue[d][s] = 0
      /\ \A w \in Workers : wk[w].doc # d
  BY NoDocAssumption DEF Init, Idle
<1>2. IndexFollows(d)
  BY <1>1 DEF IndexFollows, Stages
<1> QED BY <1>1, <1>2 DEF StatusFollows, CompletedFollows, FailedFollows, FileFollows, Stages
-----------------------------------------------------------------------------
(***************************************************************************)
(* Deletes of documents at rest.                                           *)
(***************************************************************************)
\* The request is over and no task exists: nothing is stored for d any more.
AtRest(d) == up[d] \in {"done", "error", "created"} /\ ~Outstanding(d)

\* What a DELETE that found its document at rest has removed so far.
QuietFollows(q) ==
  del[q].clean =>
    LET d == del[q].doc IN
    /\ d \in Docs
    /\ AtRest(d)
    /\ del[q].at \in {"storage", "load", "commit", "event", "done"} => vectors[d] = NoVectors
    /\ del[q].at \in {"load", "commit", "event", "done"} => d \notin file
    /\ del[q].at \in {"event", "done"} => row[d] = "absent" /\ chunks[d] = 0

\* At rest, a document can only lose what is stored about it.
LEMMA RestStays ==
  ASSUME TypeOK, Holding, [Next]_vars, NEW d \in Docs, AtRest(d)
  PROVE  /\ AtRest(d)'
         /\ vectors[d] = NoVectors => vectors'[d] = NoVectors
         /\ d \notin file => d \notin file'
         /\ row[d] = "absent" /\ chunks[d] = 0 => row'[d] = "absent" /\ chunks'[d] = 0
<1> USE DEF TypeOK
<1>1. CASE Quiet(d)
  <2>1. \A w \in Workers : wk[w].doc # d /\ wk'[w].doc # d
    BY <1>1 DEF Quiet, AtRest, Outstanding
  <2> QED BY <1>1, <2>1 DEF Quiet, Untouched, AtRest, Outstanding
<1>2. ASSUME UploadAction(d)
      PROVE  FALSE
  BY <1>2 DEF UploadAction, UploadStore, UploadCommit, UploadEnqueue, UploadFinish, UploadFails,
              CreateDocument, AtRest
<1>3. ASSUME NEW q \in Deletes, del[q].doc = d, DeleteAction(q)
      PROVE  /\ UNCHANGED <<queue, wk, up>>
             /\ vectors'[d] \in {vectors[d], NoVectors}
             /\ file' \subseteq file
             /\ row'[d] \in {row[d], "absent"}
             /\ chunks'[d] \in {chunks[d], 0}
  <2>1. UNCHANGED <<queue, wk, up>>
    BY <1>3 DEF DeleteAction, DeleteVectors, DeleteStorage, DeleteLoad, DeleteCommit,
                DeletePublish, DeleteFails, worker
  <2>2. vectors'[d] \in {vectors[d], NoVectors} /\ file' \subseteq file
    BY <1>3 DEF DeleteAction, DeleteVectors, DeleteStorage, DeleteLoad, DeleteCommit,
                DeletePublish, DeleteFails, stores, VectorType
  <2>3. row'[d] \in {row[d], "absent"} /\ chunks'[d] \in {chunks[d], 0}
    BY <1>3 DEF DeleteAction, DeleteVectors, DeleteStorage, DeleteLoad, DeleteCommit,
                DeletePublish, DeleteFails, database, RowType, ChunkType
  <2> QED BY <2>1, <2>2, <2>3
<1>4. ASSUME NEW q \in Deletes, del[q].doc = d, DeleteAction(q)
      PROVE  AtRest(d)'
  BY <1>3, <1>4 DEF AtRest, Outstanding
<1>5. ASSUME NEW w \in Workers,
             wk[w].doc = d \/ \E s \in Stages : Take(w, d, s)
      PROVE  FALSE
  BY <1>5 DEF Take, AtRest, Outstanding
<1> QED BY <1>1, <1>2, <1>3, <1>4, <1>5, StepAbout

\* A step changes the entry of at most one DELETE request.
LEMMA RequestStep ==
  ASSUME TypeOK, [Next]_vars, NEW q \in Deletes
  PROVE  del'[q] = del[q] \/ DeleteAction(q) \/ \E e \in Docs : DeleteBegin(q, e)
<1> USE DEF TypeOK, DeleteType
<1>1. CASE UNCHANGED vars
  BY <1>1 DEF vars, api
<1>2. ASSUME NEW e \in Docs, UploadAction(e) \/ Share(e)
      PROVE  del' = del
  BY <1>2 DEF UploadAction, UploadStore, UploadCommit, UploadEnqueue, UploadFinish,
              UploadFails, CreateDocument, Share, api
<1>3. ASSUME NEW p \in Deletes, p # q, DeleteAction(p) \/ \E e \in Docs : DeleteBegin(p, e)
      PROVE  del'[q] = del[q]
  BY <1>3 DEF DeleteBegin, DeleteAction, DeleteVectors, DeleteStorage, DeleteLoad, DeleteCommit,
              DeletePublish, DeleteFails, DeleteStep
<1>4. ASSUME NEW w \in Workers, WorkerStep(w) \/ WorkerCrash(w)
      PROVE  del' = del
  BY <1>4, WorkerOwn
<1> QED BY <1>1, <1>2, <1>3, <1>4 DEF Next, UploadAction, DeleteAction

LEMMA QuietFollowsStep ==
  ASSUME TypeOK, Holding, [Next]_vars, NEW q \in Deletes, QuietFollows(q)
  PROVE  QuietFollows(q)'
<1> USE DEF TypeOK, DeleteType
<1>1. CASE del'[q] = del[q]
  <2> SUFFICES ASSUME del[q].clean
               PROVE  QuietFollows(q)'
    BY <1>1 DEF QuietFollows
  <2> QED BY <1>1, RestStays DEF QuietFollows
<1>2. ASSUME NEW e \in Docs, DeleteBegin(q, e)
      PROVE  QuietFollows(q)'
  <2>1. /\ del'[q].at = "vectors" /\ del'[q].doc = e
        /\ del'[q].clean = (up[e] \in {"done", "error", "created"} /\ ~Outstanding(e))
    BY <1>2 DEF DeleteBegin
  <2>2. del'[q].clean => AtRest(e)'
    BY <2>1, RestStays DEF AtRest
  <2> QED BY <2>1, <2>2 DEF QuietFollows
<1>3. CASE DeleteAction(q)
  <2> SUFFICES ASSUME del'[q].clean
               PROVE  QuietFollows(q)'
    BY DEF QuietFollows
  <2>0. del'[q].doc = del[q].doc /\ del[q].clean
    BY <1>3 DEF DeleteAction, DeleteVectors, DeleteStorage, DeleteLoad, DeleteCommit,
                DeletePublish, DeleteFails, DeleteStep
  <2>1. PICK d \in Docs : d = del[q].doc /\ d = del'[q].doc /\ del[q].clean
    BY <2>0 DEF QuietFollows
  <2>2. AtRest(d)'
    BY <2>1, RestStays DEF QuietFollows
  <2>3. \/ del[q].at = "vectors" /\ del'[q].at = "storage" /\ vectors'[d] = NoVectors
        \/ del[q].at = "storage" /\ del'[q].at = "load" /\ d \notin file'
        \/ del[q].at = "load" /\ del'[q].at = "commit"
        \/ del[q].at = "commit" /\ del'[q].at = "event" /\ row'[d] = "absent" /\ chunks'[d] = 0
        \/ del[q].at = "event" /\ del'[q].at = "done"
        \/ del'[q].at = "error"
    <3>1. CASE DeleteVectors(q)
      BY <2>1, <3>1 DEF DeleteVectors, DeleteStep, VectorType
    <3>2. CASE DeleteStorage(q)
      BY <2>1, <3>2 DEF DeleteStorage, DeleteStep
    <3>3. CASE DeleteCommit(q)
      BY <2>1, <3>3 DEF DeleteCommit, DeleteStep, RowType, ChunkType
    <3>4. CASE DeleteLoad(q) \/ DeletePublish(q) \/ DeleteFails(q)
      BY <3>4 DEF DeleteLoad, DeletePublish, DeleteFails, DeleteStep
    <3> QED BY <1>3, <3>1, <3>2, <3>3, <3>4 DEF DeleteAction
  <2>4. /\ vectors[d] = NoVectors => vectors'[d] = NoVectors
        /\ d \notin file => d \notin file'
        /\ row[d] = "absent" /\ chunks[d] = 0 => row'[d] = "absent" /\ chunks'[d] = 0
    BY <2>1, RestStays DEF QuietFollows
  <2>5. /\ del[q].at \in {"storage", "load", "commit", "event", "done"} => vectors[d] = NoVectors
        /\ del[q].at \in {"load", "commit", "event", "done"} => d \notin file
        /\ del[q].at \in {"event", "done"} => row[d] = "absent" /\ chunks[d] = 0
    BY <2>1 DEF QuietFollows
  <2>6. del'[q].at \in {"storage", "load", "commit", "event", "done"} => vectors'[d] = NoVectors
    BY <2>3, <2>4, <2>5
  <2>7. del'[q].at \in {"load", "commit", "event", "done"} => d \notin file'
    BY <2>3, <2>4, <2>5
  <2>8. del'[q].at \in {"event", "done"} => row'[d] = "absent" /\ chunks'[d] = 0
    BY <2>3, <2>4, <2>5
  <2> QED BY <2>1, <2>2, <2>6, <2>7, <2>8 DEF QuietFollows
<1> QED BY <1>1, <1>2, <1>3, RequestStep
-----------------------------------------------------------------------------
(***************************************************************************)
(* The theorems about each document.                                       *)
(***************************************************************************)
FullInv == IInv /\ DocumentInv /\ \A q \in Deletes : QuietFollows(q)

LEMMA FullInvariance == Spec => []FullInv
<1>1. Init => \A q \in Deletes : QuietFollows(q)
  BY DEF Init, NoRequest, QuietFollows
<1>2. Init => FullInv
  BY <1>1, InvInit, DocumentInvInit DEF FullInv
<1>3. FullInv /\ [Next]_vars => FullInv'
  BY InvStep, DocumentInvStep, QuietFollowsStep DEF FullInv, IInv
<1> QED BY <1>2, <1>3, PTL DEF Spec

\* An uploaded document has its object from before its row exists until somebody
\* asks for its delete, whichever calls fail.
THEOREM FileBeforeRow == Spec => []RowHasFile
<1>1. FullInv => RowHasFile
  BY DEF FullInv, DocumentInv, FileFollows, RowHasFile
<1> QED BY <1>1, FullInvariance, PTL

\* A finished document that shows "completed" is indexed chunk by chunk, exactly
\* once, unless a worker died or could not record a failure, or it was deleted.
THEOREM CompletedIsIndexed == Spec => []SettledIsIndexed
<1>1. FullInv => SettledIsIndexed
  BY DEF FullInv, DocumentInv, IndexFollows, SettledIsIndexed
<1> QED BY <1>1, FullInvariance, PTL

\* document.completed is published only of a document that is fully indexed and
\* stays so, even if workers die, until somebody deletes it.
THEOREM AnnouncedIsTrue == Spec => []CompletedEventIsTrue
<1>1. FullInv => CompletedEventIsTrue
  BY DEF FullInv, DocumentInv, CompletedFollows, CompletedEventIsTrue
<1> QED BY <1>1, FullInvariance, PTL

\* No document gets both outcome events, and the status agrees with a failure
\* that was announced once the task is over.
THEOREM OneOutcome == Spec => []OutcomeEventsAgree
<1>1. FullInv => OutcomeEventsAgree
  BY DEF FullInv, DocumentInv, FailedFollows, OutcomeEventsAgree
<1> QED BY <1>1, FullInvariance, PTL

\* A DELETE that found its document at rest and whose clean-ups succeeded leaves
\* no row, chunk, object or vector behind.
THEOREM QuietDelete == Spec => []QuietDeleteIsClean
<1>1. FullInv => QuietDeleteIsClean
  BY DEF FullInv, QuietFollows, QuietDeleteIsClean
<1> QED BY <1>1, FullInvariance, PTL
-----------------------------------------------------------------------------
(***************************************************************************)
(* The refinement: what a step may do to the status a client sees and to   *)
(* whether the document is worked on, as DocumentLifecycle allows it.      *)
(***************************************************************************)
Shown(d) == IF row[d] = "absent" /\ up[d] \notin {"idle", "stored", "rejected"}
              THEN "deleted" ELSE row[d]

Shows(d, s) == Shown(d)' = s

LifecycleStep(d) ==
  \/ Shows(d, Shown(d)) /\ (Outstanding(d)' <=> Outstanding(d))
  \/ Shown(d) = "absent" /\ ~Outstanding(d) /\ Shows(d, "pending") /\ ~Outstanding(d)'
  \/ /\ Shown(d) \in {"pending", "deleted"} /\ ~Outstanding(d)
     /\ Shows(d, Shown(d)) /\ Outstanding(d)'
  \/ Shown(d) = "pending" /\ Outstanding(d) /\ Shows(d, "completed") /\ Outstanding(d)'
  \/ Shown(d) \in {"pending", "completed"} /\ Outstanding(d) /\ Shows(d, "failed")
  \/ Outstanding(d) /\ Shows(d, Shown(d)) /\ ~Outstanding(d)'
  \/ /\ Shown(d) \in {"pending", "completed", "failed"}
     /\ Shows(d, "deleted") /\ (Outstanding(d)' <=> Outstanding(d))

LEMMA QuietShown ==
  ASSUME NEW d \in Docs, Quiet(d)
  PROVE  Shows(d, Shown(d)) /\ (Outstanding(d)' <=> Outstanding(d))
BY DEF Quiet, Untouched, Shown, Shows, Outstanding

LEMMA UploadShown ==
  ASSUME TypeOK, NotYetQueued, NEW d \in Docs, StatusFollows(d), UploadAction(d)
  PROVE  LifecycleStep(d)
<1> USE DEF TypeOK, RowType, UploadType, QueueType, Statuses, UploadSteps, Shows
<1>1. wk' = wk
  BY DEF UploadAction, UploadStore, UploadCommit, UploadEnqueue, UploadFinish, UploadFails,
         CreateDocument, worker
<1>2. CASE UploadEnqueue(d)
  <2>1. /\ up[d] = "committed" /\ up'[d] = "queued" /\ row'[d] = row[d]
        /\ queue'[d]["process"] > 0
    BY <1>2 DEF UploadEnqueue, database, Enqueue, Stages
  <2>2. ~Outstanding(d) /\ Outstanding(d)'
    BY <2>1 DEF NotYetQueued, Outstanding, Stages
  <2>3. Shown(d) \in {"pending", "deleted"} /\ Shown(d)' = Shown(d)
    BY <2>1 DEF StatusFollows, Shown
  <2> QED BY <2>2, <2>3 DEF LifecycleStep
<1>3. CASE UploadCommit(d) \/ CreateDocument(d)
  <2>1. /\ up[d] \in {"idle", "stored"} /\ up'[d] \in {"committed", "created"}
        /\ row'[d] = "pending" /\ queue' = queue
    BY <1>3 DEF UploadCommit, CreateDocument
  <2>2. ~Outstanding(d) /\ ~Outstanding(d)'
    BY <1>1, <2>1 DEF NotYetQueued, Outstanding
  <2>3. Shown(d) = "absent" /\ Shown(d)' = "pending"
    BY <2>1 DEF StatusFollows, Shown
  <2> QED BY <2>2, <2>3 DEF LifecycleStep
<1>4. CASE UploadStore(d) \/ UploadFinish(d) \/ UploadFails(d)
  <2>1. queue' = queue /\ row' = row
    BY <1>4 DEF UploadStore, UploadFinish, UploadFails, database
  <2>2. up[d] \in {"idle", "stored", "rejected"} <=> up'[d] \in {"idle", "stored", "rejected"}
    BY <1>4 DEF UploadStore, UploadFinish, UploadFails
  <2>3. Outstanding(d)' <=> Outstanding(d)
    BY <1>1, <2>1 DEF Outstanding
  <2>4. Shown(d)' = Shown(d)
    BY <2>1, <2>2 DEF Shown
  <2> QED BY <2>3, <2>4 DEF LifecycleStep
<1> QED BY <1>2, <1>3, <1>4 DEF UploadAction

LEMMA DeleteShown ==
  ASSUME TypeOK, NEW d \in Docs, StatusFollows(d),
         NEW q \in Deletes, del[q].doc = d, DeleteAction(q)
  PROVE  LifecycleStep(d)
<1> USE DEF TypeOK, RowType, Statuses, Shows
<1>1. UNCHANGED <<queue, up, wk>>
  BY DEF DeleteAction, DeleteVectors, DeleteStorage, DeleteLoad, DeleteCommit, DeletePublish,
         DeleteFails, worker
<1>2. row'[d] \in {row[d], "absent"}
  BY DEF DeleteAction, DeleteVectors, DeleteStorage, DeleteLoad, DeleteCommit, DeletePublish,
         DeleteFails, database
<1>3. Outstanding(d)' <=> Outstanding(d)
  BY <1>1 DEF Outstanding
<1>4. Shown(d)' = Shown(d) \/ (Shown(d) \in {"pending", "completed", "failed"}
                               /\ Shown(d)' = "deleted")
  BY <1>1, <1>2 DEF Shown, StatusFollows
<1> QED BY <1>3, <1>4 DEF LifecycleStep

\* What a worker may write to the row of its document.
LEMMA WorkerRow ==
  ASSUME TypeOK, Holding, NEW d \in Docs, StatusFollows(d), NEW w \in Workers, wk[w].doc = d,
         Own(w, d), WorkerStep(w) \/ WorkerCrash(w)
  PROVE  \/ row'[d] = row[d]
         \/ row[d] = "pending" /\ row'[d] = "completed" /\ Outstanding(d)'
         \/ row[d] \in {"pending", "completed"} /\ row'[d] = "failed"
<1> USE DEF TypeOK, RowType, Statuses
<1>1. /\ wk[w].at \in Early => row[d] \in {"pending", "absent"}
      /\ wk[w].at \in Late => row[d] \in {"completed", "absent"}
      /\ wk[w].at \in Loaded => wk[w].seen = "completed"
  BY DEF StatusFollows
<1>2. CASE ProcessSave(w)
  <2>1. CASE row'[d] = "completed" /\ row[d] # "absent" /\ Goto(w, "chain")
    <3>1. Outstanding(d)'
      BY <1>2, <2>1, GotoGoesOn DEF ProcessSave, GoesOn, Outstanding
    <3> QED BY <1>1, <1>2, <2>1, <3>1 DEF ProcessSave, At, Early
  <2> QED BY <1>2, <2>1 DEF ProcessSave
<1>3. CASE ProcessMark(w) \/ OnFailure(w)
  BY <1>3 DEF ProcessMark, OnFailure, WorkerEmit
<1>4. CASE ChunkFinish(w) \/ EmbedFinish(w) \/ EmbedFetch(w)
  BY <1>1, <1>4 DEF ChunkFinish, EmbedFinish, EmbedFetch, MarkCompleted, MarkFails, FetchFails,
                    At, Late, Loaded
<1>5. CASE ProcessFetch(w) \/ ProcessDownload(w) \/ ProcessChain(w) \/ ChunkFetch(w)
           \/ ChunkBuild(w) \/ ChunkInsert(w) \/ EmbedInit(w) \/ EmbedAdd(w) \/ WorkerCrash(w)
  BY <1>5 DEF ProcessFetch, ProcessDownload, ProcessChain, ChunkFetch, ChunkBuild, ChunkInsert,
              EmbedInit, EmbedAdd, WorkerCrash, database
<1>6. ASSUME NEW e \in Docs, NEW s \in Stages, Take(w, e, s)
      PROVE  FALSE
  BY <1>6 DEF Take, At, Holding
<1> QED BY <1>2, <1>3, <1>4, <1>5, <1>6 DEF WorkerStep

LEMMA WorkerShown ==
  ASSUME TypeOK, Holding, NEW d \in Docs, StatusFollows(d), NEW w \in Workers, wk[w].doc = d,
         Own(w, d), WorkerStep(w) \/ WorkerCrash(w)
  PROVE  LifecycleStep(d)
<1>1. Outstanding(d)
  BY DEF Outstanding
<1>2. up[d] \notin {"idle", "stored", "rejected"} /\ up'[d] = up[d]
  BY DEF Own, NoTaskYet
<1>3. \/ Shown(d)' = Shown(d)
      \/ Shown(d) = "pending" /\ Shown(d)' = "completed" /\ Outstanding(d)'
      \/ Shown(d) \in {"pending", "completed"} /\ Shown(d)' = "failed"
  BY <1>2, WorkerRow DEF Shown
<1> QED BY <1>1, <1>3 DEF LifecycleStep, Shows

LEMMA TakeShown ==
  ASSUME TypeOK, NEW d \in Docs, NEW w \in Workers, NEW s \in Stages, Take(w, d, s)
  PROVE  LifecycleStep(d)
<1>1. row' = row /\ up' = up /\ queue[d][s] > 0 /\ wk'[w].doc = d
  BY DEF Take, database, api, TypeOK, WorkerType
<1>2. Outstanding(d) /\ Outstanding(d)'
  BY <1>1 DEF Outstanding
<1> QED BY <1>1, <1>2 DEF LifecycleStep, Shows, Shown

LEMMA LifecycleStepOf ==
  ASSUME IInv, DocumentInv, [Next]_vars, NEW d \in Docs
  PROVE  LifecycleStep(d)
<1> USE DEF IInv
<1>1. StatusFollows(d) /\ CompletedFollows(d) /\ FailedFollows(d)
  BY DEF DocumentInv
<1>2. CASE Quiet(d)
  BY <1>2, QuietShown DEF LifecycleStep
<1>3. ASSUME NEW w \in Workers, wk[w].doc = d, WorkerStep(w) \/ WorkerCrash(w)
      PROVE  LifecycleStep(d)
  BY <1>1, <1>3, OwnStep, WorkerShown
<1> QED BY <1>1, <1>2, <1>3, StepAbout, UploadShown, DeleteShown, TakeShown

\* A step is about one document: it leaves every other one alone.
LEMMA OneDocument ==
  ASSUME TypeOK, Holding, [Next]_vars
  PROVE  \/ \A d \in Docs : Quiet(d)
         \/ \E e \in Docs : \A d \in Docs : d # e => Quiet(d)
<1>1. CASE UNCHANGED vars
  BY <1>1 DEF vars, database, stores, api, worker, Quiet, Untouched
<1>2. ASSUME NEW e \in Docs, Share(e)
      PROVE  \A d \in Docs : Quiet(d)
  BY <1>2 DEF Share, stores, api, worker, Quiet, Untouched
<1>3. ASSUME NEW e \in Docs, UploadAction(e)
      PROVE  \A d \in Docs : d # e => Quiet(d)
  BY <1>3, UploadFrame
<1>4. ASSUME NEW e \in Docs, NEW q \in Deletes, DeleteBegin(q, e)
      PROVE  \A d \in Docs : Quiet(d)
  BY <1>4 DEF DeleteBegin, database, stores, worker, Quiet, Untouched
<1>5. ASSUME NEW q \in Deletes, DeleteAction(q)
      PROVE  del[q].doc \in Docs /\ \A d \in Docs : d # del[q].doc => Quiet(d)
  <2>1. del[q].at # "idle"
    BY <1>5 DEF DeleteAction, DeleteVectors, DeleteStorage, DeleteLoad, DeleteCommit,
                DeletePublish, DeleteFails, DeleteStep
  <2> QED BY <1>5, <2>1, DeleteFrame DEF Holding
<1>6. ASSUME NEW w \in Workers, WorkerStep(w) \/ WorkerCrash(w)
      PROVE  \/ \A d \in Docs : Quiet(d)
             \/ \E e \in Docs : \A d \in Docs : d # e => Quiet(d)
  <2>1. CASE wk[w].doc \in Docs
    <3>1. \A d \in Docs, s \in Stages : ~Take(w, d, s)
      BY <2>1 DEF Take, At, Holding
    <3> QED BY <1>6, <2>1, <3>1, WorkerFrame
  <2>2. CASE wk[w].doc \notin Docs
    <3>1. \A d, e \in Docs, s, t \in Stages : Take(w, d, s) /\ Take(w, e, t) => d = e
      BY DEF Take, TypeOK, WorkerType
    <3> QED BY <1>6, <2>2, <3>1, WorkerFrame
  <2> QED BY <2>1, <2>2
<1> QED BY <1>1, <1>2, <1>3, <1>4, <1>5, <1>6 DEF Next, UploadAction, DeleteAction

LEMMA LifecycleRefines ==
  IInv /\ DocumentInv /\ [Next]_vars => [Lifecycle!Next]_<<ShownStatus, BeingWorkedOn>>
<1> SUFFICES ASSUME IInv, DocumentInv, [Next]_vars
             PROVE  [Lifecycle!Next]_<<ShownStatus, BeingWorkedOn>>
  OBVIOUS
<1>1. /\ ShownStatus = [d \in Docs |-> Shown(d)]
      /\ ShownStatus' = [d \in Docs |-> Shown(d)']
      /\ BeingWorkedOn = [d \in Docs |-> Outstanding(d)]
      /\ BeingWorkedOn' = [d \in Docs |-> Outstanding(d)']
  BY DEF ShownStatus, Shown, BeingWorkedOn
<1>2. \A d \in Docs : Outstanding(d) \in BOOLEAN /\ Outstanding(d)' \in BOOLEAN
  BY DEF Outstanding
<1>3. ASSUME NEW d \in Docs, Quiet(d)
      PROVE  Shown(d)' = Shown(d) /\ Outstanding(d)' = Outstanding(d)
  BY <1>2, <1>3, QuietShown DEF Shows
<1>4. CASE \A d \in Docs : Quiet(d)
  <2>1. ShownStatus' = ShownStatus /\ BeingWorkedOn' = BeingWorkedOn
    BY <1>1, <1>3, <1>4
  <2> QED BY <2>1
<1>5. ASSUME NEW e \in Docs, \A d \in Docs : d # e => Quiet(d)
      PROVE  [Lifecycle!Next]_<<ShownStatus, BeingWorkedOn>>
  <2>1. /\ ShownStatus' = [ShownStatus EXCEPT ![e] = Shown(e)']
        /\ BeingWorkedOn' = [BeingWorkedOn EXCEPT ![e] = Outstanding(e)']
    BY <1>1, <1>3, <1>5
  <2>2. ShownStatus[e] = Shown(e) /\ BeingWorkedOn[e] = Outstanding(e)
    BY <1>1
  <2>3. LifecycleStep(e)
    BY LifecycleStepOf
  <2>4. Lifecycle!Become(e, Shown(e)', Outstanding(e)')
    BY <2>1 DEF Lifecycle!Become
  <2>5. CASE Shown(e)' = Shown(e) /\ Outstanding(e)' = Outstanding(e)
    <3>1. ShownStatus' = ShownStatus /\ BeingWorkedOn' = BeingWorkedOn
      BY <1>1, <2>1, <2>5
    <3> QED BY <3>1
  <2>6. CASE Lifecycle!Submit(e) \/ Lifecycle!Start(e) \/ Lifecycle!Extract(e) \/ Lifecycle!Fail(e)
             \/ Lifecycle!Stop(e) \/ Lifecycle!Delete(e)
    BY <2>6 DEF Lifecycle!Next
  <2>7. CASE Outstanding(e)
    <3>1. CASE Outstanding(e)'
      BY <1>2, <2>2, <2>3, <2>4, <2>5, <2>6, <2>7, <3>1
         DEF LifecycleStep, Shows, Lifecycle!Extract, Lifecycle!Fail, Lifecycle!Delete
    <3>2. CASE ~Outstanding(e)'
      BY <1>2, <2>2, <2>3, <2>4, <2>5, <2>6, <2>7, <3>2
         DEF LifecycleStep, Shows, Lifecycle!Fail, Lifecycle!Stop
    <3> QED BY <3>1, <3>2
  <2>8. CASE ~Outstanding(e)
    <3>1. CASE Outstanding(e)'
      BY <1>2, <2>2, <2>3, <2>4, <2>5, <2>6, <2>8, <3>1
         DEF LifecycleStep, Shows, Lifecycle!Start
    <3>2. CASE ~Outstanding(e)'
      BY <1>2, <2>2, <2>3, <2>4, <2>5, <2>6, <2>8, <3>2
         DEF LifecycleStep, Shows, Lifecycle!Submit, Lifecycle!Delete
    <3> QED BY <3>1, <3>2
  <2> QED BY <2>7, <2>8
<1> QED BY <1>4, <1>5, OneDocument DEF IInv

LEMMA LifecycleInit == Init => Lifecycle!Init
<1> SUFFICES ASSUME Init
             PROVE  Lifecycle!Init
  OBVIOUS
<1>1. \A d \in Docs : Shown(d) = "absent"
  BY DEF Init, Shown
<1>2. \A d \in Docs : ~Outstanding(d)
  <2>1. \A d \in Docs, s \in Stages : ~(queue[d][s] > 0)
    <3>1. \A d \in Docs, s \in Stages : queue[d][s] = 0
      BY DEF Init
    <3> QED BY <3>1
  <2>2. \A d \in Docs, w \in Workers : wk[w].doc # d
    BY NoDocAssumption DEF Init, Idle
  <2> QED BY <2>1, <2>2 DEF Outstanding
<1>3. \A d \in Docs : Outstanding(d) = FALSE
  BY <1>2 DEF Outstanding
<1> QED BY <1>1, <1>3 DEF Lifecycle!Init, ShownStatus, BeingWorkedOn, Shown

\* The pipeline implements DocumentLifecycle: a document is submitted once and
\* worked on once, its status moves forward only, and only while a task for it
\* is queued or running (or a DELETE takes it away).
THEOREM LifecycleImplemented == Spec => ImplementsLifecycle
<1>1. Spec => [](IInv /\ DocumentInv)
  BY FullInvariance, PTL DEF FullInv
<1> QED BY <1>1, LifecycleInit, LifecycleRefines, PTL DEF Spec, ImplementsLifecycle, Lifecycle!Spec
=============================================================================
