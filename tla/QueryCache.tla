----------------------------- MODULE QueryCache -----------------------------
(***************************************************************************)
(* Answers that do not stream, and the cache they are kept in: the query   *)
(* endpoints of app/routes/query.py over RAGService.ask, the responses     *)
(* RedisService keeps for an hour, the two endpoints of                    *)
(* app/routes/metrics.py that remove them, and the documents whose vectors *)
(* come and go meanwhile.  No handler that changes a document touches the  *)
(* cache.                                                                  *)
(***************************************************************************)
EXTENDS Naturals, FiniteSets

CONSTANTS
  Docs,       \* documents
  Questions,  \* normalised texts with their max_chunks and min_score
  Asked,      \* bound: the document_ids that requests name
  Requests,   \* clients, each asking one thing after another
  All,        \* the document_id None: every document is searched
  MaxSweeps,  \* bound: calls that remove cached responses
  Faults      \* the kinds of failure that may happen

FaultKinds == {"redis",     \* a Redis command raises
               "index",     \* the embedding model or the vector store fails
               "llm"}       \* every LLM provider fails

ASSUME QuestionsAssumption == Questions # {}
ASSUME CacheFaultsAssumption == Faults \subseteq FaultKinds
ASSUME AllAssumption == All \notin Docs
ASSUME AskedAssumption == All \in Asked /\ Asked \subseteq Docs \cup {All}
ASSUME MaxSweepsAssumption == MaxSweeps \in Nat

VARIABLES
  existing,  \* documents whose row is there
  index,     \* documents with vectors in Qdrant
  cache,     \* rag_response:* keys
  request,   \* the ask of each client
  sweep,     \* the endpoint that removes keys
  began,     \* history: how many sweeps began
  swept      \* history: the last sweep that removed a document without failing

documents == <<existing, index>>
sweeps    == <<sweep, began, swept>>
vars      == <<documents, cache, request, sweeps>>

Scopes  == Docs \cup {All}
Keys    == Questions \X Asked
Numbers == 0..MaxSweeps

\* A response: the documents its citations name, and the sweeps begun before
\* it was stored.
Entries == [cites : SUBSET Docs, stored : Numbers]
NoEntry == [cites |-> {}, stored |-> MaxSweeps + 1]

Steps == {"idle", "lookup", "search", "generate", "store", "save"}

\* An answer that is known leaves nothing but what it put into the cache.
Without(step) == [at |-> step, key |-> <<CHOOSE q \in Questions : TRUE, All>>,
                  cites |-> {}]

TypeOK ==
  /\ existing \subseteq Docs
  /\ index \subseteq Docs
  /\ cache \in [Keys -> Entries \cup {NoEntry}]
  /\ request \in [Requests -> [at : Steps, key : Keys, cites : SUBSET Docs]]
  /\ sweep \in [of : Scopes, todo : SUBSET Keys, clean : BOOLEAN, on : BOOLEAN]
  /\ began \in Numbers
  /\ swept \in [Docs -> Numbers]

NoSweep == [of |-> All, todo |-> {}, clean |-> FALSE, on |-> FALSE]

Init ==
  /\ existing = Docs
  /\ index = {}
  /\ cache = [k \in Keys |-> NoEntry]
  /\ request = [r \in Requests |-> Without("idle")]
  /\ sweep = NoSweep
  /\ began = 0
  /\ swept = [d \in Docs |-> 0]

Within(scope)   == IF scope = All THEN Docs ELSE {scope}
Goto(r, step)   == request' = [request EXCEPT ![r].at = step]
Settle(r, step) == request' = [request EXCEPT ![r] = Without(step)]
-----------------------------------------------------------------------------
(***************************************************************************)
(* The query endpoints and RAGService.ask                                  *)
(***************************************************************************)
\* POST /query searches what its body names, POST /query/{id}/ask a document
\* that must exist.
Ask(r) ==
  /\ request[r].at = "idle"
  /\ \E k \in Keys :
       request' = [request EXCEPT ![r].at = "lookup", ![r].key = k]
  /\ UNCHANGED <<documents, cache, sweeps>>

\* Mutant: a hit renews the hour the response is kept for.
LookupRenews(r) ==
  /\ request[r].at = "lookup"
  /\ \/ /\ cache[request[r].key] # NoEntry
        /\ request' = [request EXCEPT ![r].at = "store",
                         ![r].cites = cache[request[r].key].cites]
     \/ /\ cache[request[r].key] = NoEntry \/ "redis" \in Faults
        /\ Goto(r, "search")
  /\ UNCHANGED <<documents, cache, sweeps>>

\* A Redis error is a miss.
Lookup(r) ==
  /\ request[r].at = "lookup"
  /\ \/ /\ cache[request[r].key] # NoEntry
        /\ Settle(r, "save")
     \/ /\ cache[request[r].key] = NoEntry \/ "redis" \in Faults
        /\ Goto(r, "search")
  /\ UNCHANGED <<documents, cache, sweeps>>

\* Mutant: the document filter does not reach the vector store.
SearchEverything(r) ==
  /\ request[r].at = "search"
  /\ \/ \E found \in (SUBSET index) \ {{}} :
          request' = [request EXCEPT ![r].at = "generate", ![r].cites = found]
     \/ Settle(r, "save")
  /\ UNCHANGED <<documents, cache, sweeps>>

\* Any of the documents that have vectors may be relevant.  When nothing is,
\* the stock answer goes to the history and never to the cache.
Search(r) ==
  /\ request[r].at = "search"
  /\ \/ \E found \in (SUBSET (index \cap Within(request[r].key[2]))) \ {{}} :
          request' = [request EXCEPT ![r].at = "generate", ![r].cites = found]
     \/ Settle(r, "save")
  /\ UNCHANGED <<documents, cache, sweeps>>

Generate(r) ==
  /\ request[r].at = "generate"
  /\ Goto(r, "store")
  /\ UNCHANGED <<documents, cache, sweeps>>

\* setex, whose failure is only logged.
Store(r) ==
  /\ request[r].at = "store"
  /\ \/ cache' = [cache EXCEPT ![request[r].key] =
                    [cites |-> request[r].cites, stored |-> began]]
     \/ "redis" \in Faults /\ UNCHANGED cache
  /\ Settle(r, "save")
  /\ UNCHANGED <<documents, sweeps>>

\* The row of the history and the event after it: a commit that fails, because
\* the document the row names was deleted or for any other reason, is a 500
\* and leaves the cached response.
Save(r) ==
  /\ request[r].at = "save"
  /\ Settle(r, "idle")
  /\ UNCHANGED <<documents, cache, sweeps>>

\* An exception of the search or of the last provider: a 500.
AskFails(r) ==
  /\ \/ request[r].at = "search" /\ "index" \in Faults
     \/ request[r].at = "generate" /\ "llm" \in Faults
  /\ Settle(r, "idle")
  /\ UNCHANGED <<documents, cache, sweeps>>

\* A key reaches the end of its hour.  Reading it did not renew it.
Expire(k) ==
  /\ cache[k] # NoEntry
  /\ cache' = [cache EXCEPT ![k] = NoEntry]
  /\ UNCHANGED <<documents, request, sweeps>>
-----------------------------------------------------------------------------
(***************************************************************************)
(* DELETE /cache/documents/{id} and POST /cache/clear                      *)
(***************************************************************************)
Cached == {k \in Keys : cache[k] # NoEntry}

\* The document must still exist, so that nobody can sweep for a deleted one;
\* All stands for the administrator's call.
SweepBegin(scope) ==
  /\ ~sweep.on
  /\ began < MaxSweeps
  /\ scope \in existing \cup {All}
  /\ sweep' = [of |-> scope, todo |-> Cached, clean |-> TRUE, on |-> TRUE]
  /\ began' = began + 1
  /\ UNCHANGED <<documents, cache, request, swept>>

\* Mutant: only the keys of the document are matched.
SweepKeyOfDocument(k) ==
  /\ sweep.on
  /\ k \in sweep.todo \cup Cached
  /\ cache' = IF k[2] = sweep.of THEN [cache EXCEPT ![k] = NoEntry] ELSE cache
  /\ sweep' = [sweep EXCEPT !.todo = @ \ {k}]
  /\ UNCHANGED <<documents, request, began, swept>>

\* SCAN returns every key that was there from its start to its end, and may
\* return those that came later.
SweepKey(k) ==
  /\ sweep.on
  /\ k \in sweep.todo \cup Cached
  /\ cache' = [cache EXCEPT ![k] = NoEntry]
  /\ sweep' = [sweep EXCEPT !.todo = @ \ {k}]
  /\ UNCHANGED <<documents, request, began, swept>>

\* A key that cannot be deleted is passed over; a scan that fails, or any key
\* of POST /cache/clear, ends the sweep.  The answer is 204 either way.
SweepFails ==
  /\ sweep.on
  /\ "redis" \in Faults
  /\ sweep.todo # {}
  /\ \/ sweep.of # All
        /\ \E k \in sweep.todo :
             sweep' = [sweep EXCEPT !.todo = @ \ {k}, !.clean = FALSE]
     \/ sweep' = NoSweep
  /\ UNCHANGED <<documents, cache, request, began, swept>>

SweepEnd ==
  /\ sweep.on
  /\ sweep.todo = {}
  /\ sweep' = NoSweep
  /\ swept' = IF sweep.clean
              THEN [d \in Docs |-> IF d \in Within(sweep.of) THEN began
                                   ELSE swept[d]]
              ELSE swept
  /\ UNCHANGED <<documents, cache, request, began>>
-----------------------------------------------------------------------------
(***************************************************************************)
(* What happens to the documents                                           *)
(***************************************************************************)
\* embed_chunks adds a vector, even if the document was deleted meanwhile.
AddVector(d) ==
  /\ d \notin index
  /\ index' = index \cup {d}
  /\ UNCHANGED <<existing, cache, request, sweeps>>

\* The two steps of delete_document that matter here.  The row may stay, when
\* its commit fails, and the vectors may, when the clean-up does.
DeleteVectors(d) ==
  /\ d \in existing
  /\ index' = index \ {d}
  /\ UNCHANGED <<existing, cache, request, sweeps>>

DeleteRow(d) ==
  /\ d \in existing
  /\ existing' = existing \ {d}
  /\ UNCHANGED <<index, cache, request, sweeps>>
-----------------------------------------------------------------------------
RequestStep(r) ==
  Lookup(r) \/ Search(r) \/ Generate(r) \/ Store(r) \/ Save(r) \/ AskFails(r)

SweepStep == SweepFails \/ SweepEnd \/ \E k \in Keys : SweepKey(k)

DeleteStep(d) == DeleteVectors(d) \/ DeleteRow(d)

Next ==
  \/ \E r \in Requests : Ask(r) \/ RequestStep(r)
  \/ \E k \in Keys : Expire(k)
  \/ \E scope \in Scopes : SweepBegin(scope)
  \/ SweepStep
  \/ \E d \in Docs : AddVector(d) \/ DeleteStep(d)

Spec == Init /\ [][Next]_vars

\* A request that was taken goes on, and Redis lets keys expire.  Nobody has
\* to ask, sweep, embed or delete.
Fairness ==
  /\ \A r \in Requests : WF_vars(RequestStep(r))
  /\ \A k \in Keys : WF_vars(Expire(k))

FairSpec == Spec /\ Fairness
-----------------------------------------------------------------------------
(***************************************************************************)
(* Properties                                                              *)
(***************************************************************************)
\* A cached response has sources, and all of them are documents its question
\* was asked about: neither an answer that found nothing nor one about another
\* document is ever reused (RAGService.ask over get_ and set_rag_response,
\* whose keys hold the document).
CachedAnswersFit ==
  \A k \in Cached : cache[k].cites # {} /\ cache[k].cites \subseteq Within(k[2])

\* Once a sweep for a document has met no error, no response that cites the
\* document and was stored before the sweep began is left, in whatever order
\* requests store others while the keys are deleted one by one
\* (invalidate_document_cache, clear_all_cache).  Responses computed before
\* and stored after the sweep began may stay.
SweptIsGone ==
  \A k \in Cached : \A d \in cache[k].cites : cache[k].stored >= swept[d]

Gone(d)      == d \notin existing /\ d \notin index
Forgotten(d) == \A k \in Cached : d \notin cache[k].cites

\* However often its questions are asked again, a document that was deleted and
\* whose vectors stay away is some day cited by no response for good, though no
\* handler removes the responses: only because a hit does not renew the key
\* (get_rag_response).
DeletedIsForgotten == \A d \in Docs : <>[]Gone(d) => <>[]Forgotten(d)
=============================================================================
