-------------------------- MODULE DocumentPipeline --------------------------
(***************************************************************************)
(* The life of a document: the upload, share and delete handlers of        *)
(* app/routes/documents.py and the Celery chain process_document ->        *)
(* chunk_document -> embed_chunks of app/tasks, over PostgreSQL, MinIO,    *)
(* Qdrant, the Redis broker and Kafka.  Every step below ends at the call  *)
(* to a service (or the commit) whose effect others can see; any number of *)
(* requests and workers interleave between the steps.                      *)
(*                                                                         *)
(* A publish never raises (producer.py 120-128), so it belongs to the step *)
(* it follows.  A task is over when it chains the next one: what is left   *)
(* of it returns a value and logs.                                         *)
(***************************************************************************)
EXTENDS Naturals

CONSTANTS
  Docs,       \* documents that requests may create
  Workers,    \* Celery worker processes
  Deletes,    \* DELETE requests
  MaxChunks,  \* bound: chunks the longest text is cut into
  Faults,     \* the kinds of failure that may happen
  NoDoc       \* "no document"

FaultKinds == {"storage",   \* a MinIO call fails
               "index",     \* the embedding model or a Qdrant call fails
               "database",  \* a commit or a query fails
               "broker",    \* Redis refuses a task
               "kafka",     \* an event is dropped
               "content",   \* the file cannot be extracted or tokenized
               "request",   \* an API process dies, or its request fails
               "crash"}     \* a worker process is killed

ASSUME FaultsAssumption == Faults \subseteq FaultKinds
ASSUME MaxChunksAssumption == MaxChunks \in Nat
ASSUME NoDocAssumption == NoDoc \notin Docs

VARIABLES
  row,      \* documents.status, "absent" when there is no row
  text,     \* documents.content, as the number of chunks it makes (0: none)
  chunks,   \* rows of chunks for each document
  shared,   \* documents with a row in shorturls
  file,     \* documents whose object is in the bucket
  vectors,  \* points in Qdrant for each document and position
  queue,    \* messages in the broker for each document and task
  events,   \* events published about each document
  up,       \* where the request that creates the document is
  del,      \* where each DELETE request is
  wk,       \* what each worker is doing
  svc,      \* the fields of Services each worker process has set
  lost      \* history: documents whose task ended with nothing recorded

database == <<row, text, chunks, shared>>
stores   == <<file, vectors>>
api      == <<up, del>>
worker   == <<wk, svc, lost>>
vars     == <<database, stores, queue, events, api, worker>>

Stages    == {"process", "chunk", "embed"}
Statuses  == {"pending", "completed", "failed"}
Positions == 1..MaxChunks
NoVectors == [i \in Positions |-> 0]
EventTypes == {"uploaded", "started", "processed", "chunked", "embedded",
               "completed", "failed", "deleted"}

UploadSteps == {"idle", "stored", "committed", "queued", "done",
                "rejected", "error", "created"}
DeleteSteps == {"idle", "vectors", "storage", "load", "commit", "event",
                "done", "error"}
ProcessSteps == {"process", "download", "save", "mark", "chain"}
ChunkSteps   == {"chunk", "build", "insert", "chunked"}
EmbedSteps   == {"embed", "fetch", "add", "embedded"}
WorkerSteps  == ProcessSteps \cup ChunkSteps \cup EmbedSteps \cup {"failure", "idle"}

Idle == [at |-> "idle", doc |-> NoDoc, n |-> 0, i |-> 0,
         seen |-> "absent", expired |-> FALSE]

NoRequest == [at |-> "idle", doc |-> NoDoc, n |-> 0, clean |-> FALSE]

RowType    == row \in [Docs -> Statuses \cup {"absent"}]
TextType   == text \in [Docs -> 0..MaxChunks]
ChunkType  == chunks \in [Docs -> 0..MaxChunks]
StoreType  == /\ shared \subseteq Docs
              /\ file \subseteq Docs
              /\ lost \subseteq Docs
VectorType == vectors \in [Docs -> [Positions -> Nat]]
QueueType  == queue \in [Docs -> [Stages -> Nat]]
EventType  == events \in [Docs -> SUBSET EventTypes]
UploadType == up \in [Docs -> UploadSteps]
DeleteType == del \in [Deletes -> [at: DeleteSteps, doc: Docs \cup {NoDoc},
                                   n: 0..MaxChunks, clean: BOOLEAN]]
WorkerType == wk \in [Workers -> [at: WorkerSteps, doc: Docs \cup {NoDoc},
                                  n: 0..MaxChunks, i: 0..MaxChunks,
                                  seen: Statuses \cup {"absent"}, expired: BOOLEAN]]
ServiceType == svc \in [Workers -> SUBSET {"events", "storage", "index"}]

TypeOK ==
  /\ RowType /\ TextType /\ ChunkType
  /\ StoreType /\ VectorType /\ QueueType /\ EventType
  /\ UploadType /\ DeleteType
  /\ WorkerType /\ ServiceType

Init ==
  /\ row = [d \in Docs |-> "absent"]
  /\ text = [d \in Docs |-> 0]
  /\ chunks = [d \in Docs |-> 0]
  /\ shared = {}
  /\ file = {}
  /\ vectors = [d \in Docs |-> NoVectors]
  /\ queue = [d \in Docs |-> [s \in Stages |-> 0]]
  /\ events = [d \in Docs |-> {}]
  /\ up = [d \in Docs |-> "idle"]
  /\ del = [q \in Deletes |-> NoRequest]
  /\ wk = [w \in Workers |-> Idle]
  /\ svc = [w \in Workers |-> {}]
  /\ lost = {}

\* Some task for d is queued or has steps left.
Outstanding(d) ==
  \/ \E s \in Stages : queue[d][s] > 0
  \/ \E w \in Workers : wk[w].doc = d

\* Publishing some of evs about d; all of them unless Kafka drops some.
Emit(d, evs) ==
  \E sent \in SUBSET evs :
    /\ sent = evs \/ "kafka" \in Faults
    /\ events' = [events EXCEPT ![d] = @ \cup sent]

\* A worker publishes only once services.init() has set services.events.
WorkerEmit(w, evs) ==
  Emit(wk[w].doc, IF "events" \in svc[w] THEN evs ELSE {})

Enqueue(d, s) == queue' = [queue EXCEPT ![d][s] = @ + 1]
-----------------------------------------------------------------------------
(***************************************************************************)
(* POST /documents/upload, POST /documents and POST /documents/{id}/share  *)
(***************************************************************************)
UploadStore(d) ==
  /\ up[d] = "idle"
  /\ up' = [up EXCEPT ![d] = "stored"]
  /\ file' = file \cup {d}
  /\ UNCHANGED <<database, vectors, queue, events, del, worker>>

\* Mutant: the row is written without waiting for the object.
UploadCommitFirst(d) ==
  /\ up[d] \in {"idle", "stored"}
  /\ up' = [up EXCEPT ![d] = "committed"]
  /\ row' = [row EXCEPT ![d] = "pending"]
  /\ UNCHANGED <<text, chunks, shared, stores, queue, events, del, worker>>

UploadCommit(d) ==
  /\ up[d] = "stored"
  /\ up' = [up EXCEPT ![d] = "committed"]
  /\ row' = [row EXCEPT ![d] = "pending"]
  /\ UNCHANGED <<text, chunks, shared, stores, queue, events, del, worker>>

\* Mutant: a task that was sent is sent again.
UploadEnqueueTwice(d) ==
  /\ up[d] = "committed"
  /\ queue[d]["process"] < 2
  /\ \/ UNCHANGED up
     \/ up' = [up EXCEPT ![d] = "queued"]
  /\ Enqueue(d, "process")
  /\ UNCHANGED <<database, stores, events, del, worker>>

\* Mutant: the task is not sent.
UploadEnqueueForgets(d) ==
  /\ up[d] = "committed"
  /\ up' = [up EXCEPT ![d] = "queued"]
  /\ UNCHANGED <<database, stores, queue, events, del, worker>>

UploadEnqueue(d) ==
  /\ up[d] = "committed"
  /\ up' = [up EXCEPT ![d] = "queued"]
  /\ Enqueue(d, "process")
  /\ UNCHANGED <<database, stores, events, del, worker>>

\* task_id is set by an UPDATE: on a row deleted meanwhile it raises.
UploadFinish(d) ==
  /\ up[d] = "queued"
  /\ \/ /\ row[d] # "absent"
        /\ up' = [up EXCEPT ![d] = "done"]
        /\ Emit(d, {"uploaded"})
     \/ /\ row[d] = "absent"
        /\ up' = [up EXCEPT ![d] = "error"]
        /\ UNCHANGED events
  /\ UNCHANGED <<database, stores, queue, del, worker>>

\* A service fails or the API process dies: the rollback has nothing to undo.
UploadFails(d) ==
  /\ "request" \in Faults
  /\ up[d] \in {"stored", "committed", "queued"}
  /\ up' = [up EXCEPT ![d] = IF @ = "stored" THEN "rejected" ELSE "error"]
  /\ UNCHANGED <<database, stores, queue, events, del, worker>>

\* The deprecated endpoint: a pending row with no file and no task.
CreateDocument(d) ==
  /\ up[d] = "idle"
  /\ up' = [up EXCEPT ![d] = "created"]
  /\ row' = [row EXCEPT ![d] = "pending"]
  /\ UNCHANGED <<text, chunks, shared, stores, queue, events, del, worker>>

Share(d) ==
  /\ row[d] # "absent"
  /\ d \notin shared
  /\ shared' = shared \cup {d}
  /\ UNCHANGED <<row, text, chunks, stores, queue, events, api, worker>>
-----------------------------------------------------------------------------
(***************************************************************************)
(* DELETE /documents/{id}                                                  *)
(***************************************************************************)
DeleteStep(q, from, to) ==
  /\ del[q].at = from
  /\ del' = [del EXCEPT ![q].at = to]

\* Mutant: a document that is not searchable needs no clean-up.
DeleteBeginSkips(q, d) ==
  /\ del[q].at = "idle"
  /\ row[d] # "absent"
  /\ del' = [del EXCEPT ![q] =
               [at |-> IF row[d] = "completed" THEN "vectors" ELSE "load",
                doc |-> d, n |-> 0,
                clean |-> up[d] \in {"done", "error", "created"}
                          /\ ~Outstanding(d)]]
  /\ UNCHANGED <<database, stores, queue, events, up, worker>>

\* `clean' records that nothing is at work on the document, nor will be,
\* and that no clean-up failed so far.
DeleteBegin(q, d) ==
  /\ del[q].at = "idle"
  /\ row[d] # "absent"
  /\ del' = [del EXCEPT ![q] =
               [at |-> "vectors", doc |-> d, n |-> 0,
                clean |-> up[d] \in {"done", "error", "created"}
                          /\ ~Outstanding(d)]]
  /\ UNCHANGED <<database, stores, queue, events, up, worker>>

\* A failed clean-up is logged and passed over.
DeleteVectors(q) ==
  /\ \/ /\ DeleteStep(q, "vectors", "storage")
        /\ vectors' = [vectors EXCEPT ![del[q].doc] = NoVectors]
     \/ /\ "index" \in Faults
        /\ del[q].at = "vectors"
        /\ del' = [del EXCEPT ![q].at = "storage", ![q].clean = FALSE]
        /\ UNCHANGED vectors
  /\ UNCHANGED <<database, file, queue, events, up, worker>>

DeleteStorage(q) ==
  /\ \/ /\ DeleteStep(q, "storage", "load")
        /\ file' = file \ {del[q].doc}
     \/ /\ "storage" \in Faults
        /\ del[q].at = "storage"
        /\ del' = [del EXCEPT ![q].at = "load", ![q].clean = FALSE]
        /\ UNCHANGED file
  /\ UNCHANGED <<database, vectors, queue, events, up, worker>>

\* session.delete loads the chunks the delete will cascade to.
DeleteLoad(q) ==
  /\ del[q].at = "load"
  /\ del' = [del EXCEPT ![q].at = "commit", ![q].n = chunks[del[q].doc]]
  /\ UNCHANGED <<database, stores, queue, events, up, worker>>

\* The row cannot go while a short URL (its document_id may not be NULL) or a
\* chunk that was not loaded refers to it.  Deleting a row that is already gone
\* only warns.
DeleteCommit(q) ==
  LET d == del[q].doc
      blocked == row[d] # "absent" /\ (d \in shared \/ chunks[d] > del[q].n)
  IN /\ del[q].at = "commit"
     /\ \/ /\ ~blocked
           /\ DeleteStep(q, "commit", "event")
           /\ row' = [row EXCEPT ![d] = "absent"]
           /\ chunks' = [chunks EXCEPT ![d] = 0]
           /\ text' = [text EXCEPT ![d] = 0]
        \/ /\ blocked
           /\ DeleteStep(q, "commit", "error")
           /\ UNCHANGED <<row, text, chunks>>
     /\ UNCHANGED <<shared, stores, queue, events, up, worker>>

DeletePublish(q) ==
  /\ DeleteStep(q, "event", "done")
  /\ Emit(del[q].doc, {"deleted"})
  /\ UNCHANGED <<database, stores, queue, up, worker>>

DeleteFails(q) ==
  /\ "request" \in Faults
  /\ del[q].at \in {"vectors", "storage", "load", "commit", "event"}
  /\ del' = [del EXCEPT ![q].at = "error"]
  /\ UNCHANGED <<database, stores, queue, events, up, worker>>
-----------------------------------------------------------------------------
(***************************************************************************)
(* The Celery workers                                                      *)
(***************************************************************************)
At(w, step) == wk[w].at = step
Goto(w, step) == wk' = [wk EXCEPT ![w].at = step]
Done(w) == wk' = [wk EXCEPT ![w] = Idle]

\* A query or an UPDATE of the row of w's document goes wrong.
RowFails(w) == row[wk[w].doc] = "absent" \/ "database" \in Faults

\* Messages are acknowledged when a worker takes them, and never come back.
Take(w, d, s) ==
  /\ At(w, "idle")
  /\ queue[d][s] > 0
  /\ queue' = [queue EXCEPT ![d][s] = @ - 1]
  /\ wk' = [wk EXCEPT ![w].at = s, ![w].doc = d]
  /\ UNCHANGED <<database, stores, events, api, svc, lost>>

\* services.init() sets events always, and storage and the index (embedding
\* model and vector store) when they can be reached.
InitServices(w) ==
  \E got \in SUBSET {"storage", "index"} :
    /\ "storage" \in got \/ "storage" \in Faults
    /\ "index" \in got \/ "index" \in Faults
    /\ svc' = [svc EXCEPT ![w] = @ \cup {"events"} \cup got]

\* The task's own session.get: the row must be there.
Fetch(w, from, to) ==
  /\ At(w, from)
  /\ row[wk[w].doc] # "absent"
  /\ wk' = [wk EXCEPT ![w].at = to, ![w].seen = row[wk[w].doc]]

FetchFails(w, from) ==
  /\ At(w, from)
  /\ RowFails(w)
  /\ Goto(w, "failure")

ProcessFetch(w) ==
  /\ \/ /\ Fetch(w, "process", "download")
        /\ WorkerEmit(w, {"started"})
     \/ /\ FetchFails(w, "process")
        /\ UNCHANGED events
  /\ UNCHANGED <<database, stores, queue, api, svc, lost>>

\* Download and extract.  Without a storage client, init() runs first and may
\* itself raise when the vector store is down.
ProcessDownload(w) ==
  /\ At(w, "download")
  /\ IF "storage" \in svc[w] THEN UNCHANGED svc ELSE InitServices(w)
  /\ \/ /\ "storage" \in svc'[w]
        /\ wk[w].doc \in file
        /\ \E n \in 0..MaxChunks :
             wk' = [wk EXCEPT ![w].at = "save", ![w].n = n]
     \/ /\ \/ wk[w].doc \notin file
           \/ {"storage", "content"} \cap Faults # {}
           \/ "storage" \notin svc[w] /\ "index" \notin svc'[w]
        /\ Goto(w, "mark")
  /\ UNCHANGED <<database, stores, queue, events, api, lost>>

\* A failed commit expires the loaded document.
ProcessSave(w) ==
  LET d == wk[w].doc IN
  /\ At(w, "save")
  /\ \/ /\ row[d] # "absent"
        /\ text' = [text EXCEPT ![d] = wk[w].n]
        /\ row' = [row EXCEPT ![d] = "completed"]
        /\ Goto(w, "chain")
     \/ /\ RowFails(w)
        /\ wk' = [wk EXCEPT ![w].at = "mark", ![w].expired = TRUE]
        /\ UNCHANGED <<row, text>>
  /\ UNCHANGED <<chunks, shared, stores, queue, events, api, svc, lost>>

\* The except branch.  Reading owner_id from an expired document raises, so
\* the event is not published then.
ProcessMark(w) ==
  LET d == wk[w].doc IN
  /\ At(w, "mark")
  /\ Goto(w, "failure")
  /\ \/ /\ row[d] # "absent"
        /\ row' = [row EXCEPT ![d] = "failed"]
        /\ WorkerEmit(w, IF wk[w].expired THEN {} ELSE {"failed"})
     \/ /\ RowFails(w)
        /\ UNCHANGED <<row, events>>
  /\ UNCHANGED <<text, chunks, shared, stores, queue, api, svc, lost>>

\* The end of a task that succeeded: its event, then the next task.
ChainTo(w, ev, s) ==
  /\ WorkerEmit(w, {ev})
  /\ \/ Done(w) /\ Enqueue(wk[w].doc, s)
     \/ /\ "broker" \in Faults
        /\ Goto(w, "failure")
        /\ UNCHANGED queue

ProcessChain(w) ==
  /\ At(w, "chain")
  /\ ChainTo(w, "processed", "chunk")
  /\ UNCHANGED <<database, stores, api, svc, lost>>

ChunkFetch(w) ==
  /\ \/ /\ At(w, "chunk")
        /\ row[wk[w].doc] # "absent"
        /\ wk' = [wk EXCEPT ![w].at = "build", ![w].seen = row[wk[w].doc],
                            ![w].n = text[wk[w].doc]]
     \/ FetchFails(w, "chunk")
  /\ UNCHANGED <<database, stores, queue, events, api, svc, lost>>

\* Mutant: a text that cannot be cut is reported, and the task returns.
ChunkBuildReturns(w) ==
  LET d == wk[w].doc IN
  /\ At(w, "build")
  /\ chunks' = [chunks EXCEPT ![d] = 0]
  /\ \/ Goto(w, "insert") /\ UNCHANGED events
     \/ "content" \in Faults /\ Done(w) /\ WorkerEmit(w, {"failed"})
  /\ UNCHANGED <<row, text, shared, stores, queue, api, svc, lost>>

\* The old chunks go, with a commit of their own; then the text is cut.  A
\* document loaded before is still readable when the cutting fails.
ChunkBuild(w) ==
  LET d == wk[w].doc IN
  /\ At(w, "build")
  /\ \/ /\ chunks' = [chunks EXCEPT ![d] = 0]
        /\ \/ Goto(w, "insert") /\ UNCHANGED events
           \/ /\ "content" \in Faults
              /\ Goto(w, "failure")
              /\ WorkerEmit(w, {"failed"})
     \/ /\ "database" \in Faults
        /\ Goto(w, "failure")
        /\ UNCHANGED <<chunks, events>>
  /\ UNCHANGED <<row, text, shared, stores, queue, api, svc, lost>>

\* Inserting chunks of a deleted document breaks the foreign key; inserting
\* none breaks nothing.
ChunkInsert(w) ==
  LET d == wk[w].doc IN
  /\ At(w, "insert")
  /\ \/ /\ row[d] # "absent" \/ wk[w].n = 0
        /\ chunks' = [chunks EXCEPT ![d] = @ + wk[w].n]
        /\ Goto(w, "chunked")
     \/ /\ (row[d] = "absent" /\ wk[w].n > 0) \/ "database" \in Faults
        /\ Goto(w, "failure")
        /\ UNCHANGED chunks
  /\ UNCHANGED <<row, text, shared, stores, queue, events, api, svc, lost>>

\* document.processing_status = COMPLETED; commit.  The UPDATE is sent only if
\* the status loaded was another one, and raises if the row is gone.
MarkCompleted(w) ==
  IF wk[w].seen = "completed"
    THEN UNCHANGED row
    ELSE /\ row[wk[w].doc] # "absent"
         /\ row' = [row EXCEPT ![wk[w].doc] = "completed"]

MarkFails(w) ==
  /\ "database" \in Faults \/ (wk[w].seen # "completed" /\ RowFails(w))
  /\ Goto(w, "failure")
  /\ UNCHANGED row

ChunkFinish(w) ==
  /\ At(w, "chunked")
  /\ \/ MarkCompleted(w) /\ ChainTo(w, "chunked", "embed")
     \/ MarkFails(w) /\ UNCHANGED <<queue, events>>
  /\ UNCHANGED <<text, chunks, shared, stores, api, svc, lost>>

\* Mutant: with the services unavailable the task returns.
EmbedInitReturns(w) ==
  /\ At(w, "embed")
  /\ InitServices(w)
  /\ IF "index" \in svc'[w] THEN Goto(w, "fetch") ELSE Done(w)
  /\ UNCHANGED <<database, stores, queue, events, api, lost>>

EmbedInit(w) ==
  /\ At(w, "embed")
  /\ InitServices(w)
  /\ Goto(w, IF "index" \in svc'[w] THEN "fetch" ELSE "failure")
  /\ UNCHANGED <<database, stores, queue, events, api, lost>>

\* With no chunks the task ends here, publishing nothing.
EmbedFetch(w) ==
  LET d == wk[w].doc IN
  /\ At(w, "fetch")
  /\ \/ /\ row[d] # "absent"
        /\ chunks[d] > 0
        /\ wk' = [wk EXCEPT ![w].at = "add", ![w].seen = row[d],
                            ![w].n = chunks[d], ![w].i = 0]
        /\ UNCHANGED row
     \/ /\ row[d] # "absent"
        /\ chunks[d] = 0
        /\ row' = [row EXCEPT ![d] = "completed"]
        /\ Done(w)
     \/ FetchFails(w, "fetch") /\ UNCHANGED row
  /\ UNCHANGED <<text, chunks, shared, stores, queue, events, api, svc, lost>>

\* Mutants: the loop ends one chunk early, or one late.
AddUntil(w, last) ==
  LET k == wk[w].i + 1 IN
  /\ At(w, "add")
  /\ vectors' = [vectors EXCEPT ![wk[w].doc][k] = @ + 1]
  /\ wk' = [wk EXCEPT ![w].i = k, ![w].at = IF k >= last THEN "embedded" ELSE "add"]
  /\ UNCHANGED <<database, file, queue, events, api, svc, lost>>

EmbedAddTooFew(w) == AddUntil(w, wk[w].n - 1)
EmbedAddTooMany(w) == AddUntil(w, wk[w].n + 1)

\* One point per chunk, each under a new random id.
EmbedAdd(w) ==
  LET k == wk[w].i + 1 IN
  /\ At(w, "add")
  /\ \/ /\ vectors' = [vectors EXCEPT ![wk[w].doc][k] = @ + 1]
        /\ wk' = [wk EXCEPT ![w].i = k,
                            ![w].at = IF k = wk[w].n THEN "embedded" ELSE "add"]
     \/ /\ "index" \in Faults
        /\ Goto(w, "failure")
        /\ UNCHANGED vectors
  /\ UNCHANGED <<database, file, queue, events, api, svc, lost>>

EmbedFinish(w) ==
  /\ At(w, "embedded")
  /\ \/ /\ MarkCompleted(w)
        /\ WorkerEmit(w, {"embedded", "completed"})
        /\ Done(w)
     \/ MarkFails(w) /\ UNCHANGED events
  /\ UNCHANGED <<text, chunks, shared, stores, queue, api, svc, lost>>

\* Mutant: the handler waits for a row that is gone.
OnFailureNeedsRow(w) ==
  /\ At(w, "failure")
  /\ row[wk[w].doc] # "absent"
  /\ row' = [row EXCEPT ![wk[w].doc] = "failed"]
  /\ Done(w)
  /\ UNCHANGED <<text, chunks, shared, stores, queue, events, api, svc, lost>>

\* Mutant: the handler puts the document back to "pending".
OnFailureReopens(w) ==
  LET d == wk[w].doc IN
  /\ At(w, "failure")
  /\ Done(w)
  /\ row' = [row EXCEPT ![d] = IF @ = "absent" THEN @ ELSE "pending"]
  /\ UNCHANGED <<text, chunks, shared, stores, queue, events, api, svc, lost>>

\* ProcessingTask.on_failure; an error of its own is only logged.
OnFailure(w) ==
  LET d == wk[w].doc IN
  /\ At(w, "failure")
  /\ Done(w)
  /\ \/ /\ row[d] # "absent"
        /\ row' = [row EXCEPT ![d] = "failed"]
        /\ UNCHANGED lost
     \/ row[d] = "absent" /\ UNCHANGED <<row, lost>>
     \/ /\ "database" \in Faults
        /\ lost' = lost \cup {d}
        /\ UNCHANGED row
  /\ UNCHANGED <<text, chunks, shared, stores, queue, events, api, svc>>

\* Killed, out of memory, or past the hard time limit: no handler runs and
\* the new process has initialised nothing.
WorkerCrash(w) ==
  /\ "crash" \in Faults
  /\ ~At(w, "idle")
  /\ Done(w)
  /\ svc' = [svc EXCEPT ![w] = {}]
  /\ lost' = lost \cup {wk[w].doc}
  /\ UNCHANGED <<database, stores, queue, events, api>>
-----------------------------------------------------------------------------
WorkerStep(w) ==
  \/ \E d \in Docs, s \in Stages : Take(w, d, s)
  \/ ProcessFetch(w)
  \/ ProcessDownload(w)
  \/ ProcessSave(w)
  \/ ProcessMark(w)
  \/ ProcessChain(w)
  \/ ChunkFetch(w)
  \/ ChunkBuild(w)
  \/ ChunkInsert(w)
  \/ ChunkFinish(w)
  \/ EmbedInit(w)
  \/ EmbedFetch(w)
  \/ EmbedAdd(w)
  \/ EmbedFinish(w)
  \/ OnFailure(w)

Next ==
  \/ \E d \in Docs :
       \/ UploadStore(d)
       \/ UploadCommit(d)
       \/ UploadEnqueue(d)
       \/ UploadFinish(d)
       \/ UploadFails(d)
       \/ CreateDocument(d)
       \/ Share(d)
  \/ \E q \in Deletes :
       \/ \E d \in Docs : DeleteBegin(q, d)
       \/ DeleteVectors(q)
       \/ DeleteStorage(q)
       \/ DeleteLoad(q)
       \/ DeleteCommit(q)
       \/ DeletePublish(q)
       \/ DeleteFails(q)
  \/ \E w \in Workers : WorkerStep(w) \/ WorkerCrash(w)

UploadGoesOn(d) ==
  UploadCommit(d) \/ UploadEnqueue(d) \/ UploadFinish(d) \/ UploadFails(d)

\* A worker that can go on does: a task has a hard time limit and the pool
\* replaces a process that died.  A handler that began goes on or fails.  No
\* client has to send a request, and no DELETE has to end.
Fairness ==
  /\ \A w \in Workers : WF_vars(WorkerStep(w))
  /\ \A d \in Docs : WF_vars(UploadGoesOn(d))

Spec == Init /\ [][Next]_vars
FairSpec == Spec /\ Fairness
-----------------------------------------------------------------------------
(***************************************************************************)
(* Properties                                                              *)
(***************************************************************************)
DeleteAsked(d) == \E q \in Deletes : del[q].doc = d

\* Everything extracted is cut, and each chunk has exactly one vector.
Indexed(d) ==
  /\ chunks[d] = text[d]
  /\ \A i \in Positions : vectors[d][i] = IF i <= chunks[d] THEN 1 ELSE 0

\* A document is worked on by one task at a time: the upload starts one chain,
\* a task leaves the chain before it queues the next, nothing is redelivered.
\* The three tasks take no lock and rely on it.
OneTaskPerDocument ==
  \A d \in Docs :
    /\ \A s \in Stages : queue[d][s] <= 1
    /\ \A s, t \in Stages : queue[d][s] > 0 /\ queue[d][t] > 0 => s = t
    /\ \A v, w \in Workers : wk[v].doc = d /\ wk[w].doc = d => v = w
    /\ \A s \in Stages, w \in Workers : queue[d][s] > 0 => wk[w].doc # d

\* Once no task is left, a document that shows "completed" and that nobody
\* deletes is fully searchable, whatever failed on the way, unless a worker
\* died or could not record a failure.
SettledIsIndexed ==
  \A d \in Docs :
    /\ row[d] = "completed"
    /\ ~Outstanding(d)
    /\ d \notin lost
    /\ ~DeleteAsked(d)
    => Indexed(d)

\* document.completed ("Document fully processed and ready") is never early and
\* never taken back, even if workers die.
CompletedEventIsTrue ==
  \A d \in Docs :
    "completed" \in events[d] /\ ~DeleteAsked(d) => row[d] = "completed" /\ Indexed(d)

\* A document never gets both outcomes, and one announced as failed shows
\* "failed" once its task is over.
OutcomeEventsAgree ==
  \A d \in Docs :
    "failed" \in events[d] =>
      /\ "completed" \notin events[d]
      /\ row[d] \in {"failed", "absent"} \/ Outstanding(d) \/ d \in lost

\* The object is stored before the row that names it, so that every uploaded
\* document can be downloaded until somebody deletes it.
RowHasFile ==
  \A d \in Docs :
    row[d] # "absent" /\ up[d] # "created" /\ ~DeleteAsked(d) => d \in file

\* A DELETE that found the document at rest and whose clean-ups went well
\* leaves nothing behind in any store.
QuietDeleteIsClean ==
  \A q \in Deletes :
    LET d == del[q].doc IN
    del[q].clean /\ del[q].at \in {"event", "done"} =>
      /\ row[d] = "absent"
      /\ chunks[d] = 0
      /\ d \notin file
      /\ vectors[d] = NoVectors

\* A task that was queued comes to an end, and leaves the document with an
\* outcome unless that could not be recorded.
EveryTaskSettles ==
  \A d \in Docs :
    Outstanding(d) ~> ~Outstanding(d) /\ (row[d] # "pending" \/ d \in lost)

\* An upload whose row is committed reaches an outcome, unless its request
\* fails before the task is queued or the outcome cannot be recorded.
EveryUploadSettles ==
  \A d \in Docs :
    up[d] = "committed" ~> row[d] # "pending" \/ up[d] = "error" \/ d \in lost

\* The status endpoint over the pipeline: rows that are gone show as deleted.
ShownStatus ==
  [d \in Docs |-> IF row[d] = "absent" /\ up[d] \notin {"idle", "stored", "rejected"}
                    THEN "deleted" ELSE row[d]]
BeingWorkedOn == [d \in Docs |-> Outstanding(d)]

Lifecycle == INSTANCE DocumentLifecycle
               WITH status <- ShownStatus, working <- BeingWorkedOn

\* The status of a document is final once nothing works on it, and "failed"
\* never turns back into "completed".
ImplementsLifecycle == Lifecycle!Spec

(***************************************************************************)
(* What the documentation says and the code does not do                    *)
(***************************************************************************)
\* documents.py 243: a DELETE cleans up the vector store.
DeletedLeavesNoVectors ==
  \A q \in Deletes : LET d == del[q].doc IN
    del[q].at = "done" /\ ~Outstanding(d) => vectors[d] = NoVectors
=============================================================================
