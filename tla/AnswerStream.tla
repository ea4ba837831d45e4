---------------------------- MODULE AnswerStream ----------------------------
(***************************************************************************)
(* One streamed answer: the event_generator of the three streaming         *)
(* endpoints in app/routes/query.py, over RAGService.ask_stream and        *)
(* LLMService.generate_stream with its fallback.  The generators pull from *)
(* one another, so there is one thread of control; every step ends at the  *)
(* event the client receives next, or at the commit.                       *)
(***************************************************************************)
EXTENDS Naturals, Sequences, FiniteSets

CONSTANTS
  MaxTokens,  \* bound: tokens a provider sends
  Faults      \* the kinds of failure that may happen

FaultKinds == {"retrieval",  \* the embedding model or the vector store fails
               "primary",    \* the primary provider fails
               "fallback",   \* the other one fails
               "database",   \* the commit, or the refresh after it, fails
               "client"}     \* the client goes away

ASSUME StreamFaultsAssumption == Faults \subseteq FaultKinds
ASSUME MaxTokensAssumption == MaxTokens \in Nat

VARIABLES
  fallback,  \* fallback_enabled, and the other provider could be created
  at,        \* where the generators are
  sent,      \* the events the client received: their type and who made them
  answer,    \* full_answer, as who made each of its tokens
  whole,     \* history: the providers that streamed to their end
  saved      \* whether the row of queries is committed

vars == <<fallback, at, sent, answer, whole, saved>>

Providers == {"primary", "fallback"}
Sources   == Providers \cup {"none"}
Events    == [type: {"citations", "token", "usage", "error", "done"}, by: Sources]
Ended     == {"done", "failed", "gone"}
Steps     == Providers \cup Ended \cup {"retrieve", "empty", "save", "finish"}

TypeOK ==
  /\ fallback \in BOOLEAN
  /\ at \in Steps
  /\ sent \in Seq(Events)
  /\ answer \in Seq(Sources)
  /\ whole \subseteq Providers
  /\ saved \in BOOLEAN

Init ==
  /\ fallback \in BOOLEAN
  /\ at = "retrieve"
  /\ sent = <<>>
  /\ answer = <<>>
  /\ whole = {}
  /\ saved = FALSE

Yield(type, by) == sent' = Append(sent, [type |-> type, by |-> by])

TokensOf(p) == {k \in DOMAIN answer : answer[k] = p}
UsageSent(p) == \E k \in DOMAIN sent : sent[k] = [type |-> "usage", by |-> p]
-----------------------------------------------------------------------------
(***************************************************************************)
(* RAGService.ask_stream                                                   *)
(***************************************************************************)
\* Chunks were found: their citations go first.
Retrieve ==
  /\ at = "retrieve"
  /\ at' = "primary"
  /\ Yield("citations", "none")
  /\ UNCHANGED <<fallback, answer, whole, saved>>

\* Nothing was found: a stock sentence, and then no citations.
RetrieveNothing ==
  /\ at = "retrieve"
  /\ at' = "empty"
  /\ Yield("token", "none")
  /\ answer' = Append(answer, "none")
  /\ UNCHANGED <<fallback, whole, saved>>

CiteNothing ==
  /\ at = "empty"
  /\ at' = "save"
  /\ Yield("citations", "none")
  /\ UNCHANGED <<fallback, answer, whole, saved>>

\* Mutant: the error is logged and the stream closed.
FailSilently(kind) ==
  /\ kind \in Faults
  /\ at' = "failed"
  /\ UNCHANGED <<fallback, sent, answer, whole>>

\* The endpoint's except branch.
Fail(kind) ==
  /\ kind \in Faults
  /\ at' = "failed"
  /\ Yield("error", "none")
  /\ UNCHANGED <<fallback, answer, whole>>

RetrieveFails == at = "retrieve" /\ Fail("retrieval") /\ UNCHANGED saved
-----------------------------------------------------------------------------
(***************************************************************************)
(* LLMService.generate_stream and the providers                            *)
(***************************************************************************)
Token(p) ==
  /\ at = p
  /\ Cardinality(TokensOf(p)) < MaxTokens
  /\ ~UsageSent(p)
  /\ Yield("token", p)
  /\ answer' = Append(answer, p)
  /\ UNCHANGED <<fallback, at, whole, saved>>

Usage(p) ==
  /\ at = p
  /\ ~UsageSent(p)
  /\ Yield("usage", p)
  /\ UNCHANGED <<fallback, at, answer, whole, saved>>

\* Mutant: the endpoint sends the error on and keeps reading.
ReportErrorGoesOn(p) ==
  /\ at = p
  /\ p \in Faults
  /\ Yield("error", p)
  /\ at' = IF p = "primary" /\ fallback THEN "fallback" ELSE "save"
  /\ UNCHANGED <<fallback, answer, whole, saved>>

\* An AnthropicError or httpx.HTTPError: the provider yields an error event
\* before it raises.  The endpoint returns at that event, so that nobody
\* resumes the provider and nothing is raised.
ReportError(p) ==
  /\ at = p
  /\ p \in Faults
  /\ at' = "failed"
  /\ Yield("error", p)
  /\ UNCHANGED <<fallback, answer, whole, saved>>

\* Any other exception: the fallback takes over where the primary stopped; if
\* there is none, or it raises as well, the service yields the error event.
Raise(p) ==
  /\ at = p
  /\ p \in Faults
  /\ \/ /\ p = "primary" /\ fallback
        /\ at' = "fallback"
        /\ UNCHANGED sent
     \/ /\ p = "fallback" \/ ~fallback
        /\ at' = "failed"
        /\ Yield("error", "none")
  /\ UNCHANGED <<fallback, answer, whole, saved>>

PrimaryEnds ==
  /\ at = "primary"
  /\ at' = "save"
  /\ whole' = whole \cup {"primary"}
  /\ UNCHANGED <<fallback, sent, answer, saved>>

\* Mutant: the service returns once the fallback has answered.
FallbackReturns ==
  /\ at = "fallback"
  /\ at' = "save"
  /\ whole' = whole \cup {"fallback"}
  /\ UNCHANGED <<fallback, sent, answer, saved>>

\* After the fallback's last event control falls through to the branch for
\* "No fallback available", which yields an error event.
FallbackEnds ==
  /\ at = "fallback"
  /\ at' = "failed"
  /\ whole' = whole \cup {"fallback"}
  /\ Yield("error", "none")
  /\ UNCHANGED <<fallback, answer, saved>>
-----------------------------------------------------------------------------
(***************************************************************************)
(* The endpoint                                                            *)
(***************************************************************************)
\* A commit whose connection is lost may have been carried out.
Save ==
  /\ at = "save"
  /\ \/ /\ at' = "finish"
        /\ saved' = TRUE
        /\ UNCHANGED <<fallback, sent, answer, whole>>
     \/ Fail("database") /\ saved' \in BOOLEAN

\* refresh() and the last event.
Finish ==
  /\ at = "finish"
  /\ \/ /\ at' = "done"
        /\ Yield("done", "none")
        /\ UNCHANGED <<fallback, answer, whole>>
     \/ Fail("database")
  /\ UNCHANGED saved

\* The task is cancelled, which no except branch catches.  During a commit
\* the row may have been written.
Disconnect ==
  /\ "client" \in Faults
  /\ at \notin Ended
  /\ at' = "gone"
  /\ saved' \in IF at = "save" THEN BOOLEAN ELSE {saved}
  /\ UNCHANGED <<fallback, sent, answer, whole>>

Stream ==
  \/ Retrieve
  \/ RetrieveNothing
  \/ CiteNothing
  \/ RetrieveFails
  \/ \E p \in Providers : Token(p) \/ Usage(p) \/ ReportError(p) \/ Raise(p)
  \/ PrimaryEnds
  \/ FallbackEnds
  \/ Save
  \/ Finish

Next == Stream \/ Disconnect

Spec == Init /\ [][Next]_vars

\* The generators are driven as long as the client listens: every request to
\* a provider has a timeout, and an answer a largest length.
FairSpec == Spec /\ WF_vars(Stream)
-----------------------------------------------------------------------------
(***************************************************************************)
(* Properties                                                              *)
(***************************************************************************)
\* An answer that enters the history is the complete answer of one provider
\* (or the stock sentence), although the fallback goes on behind tokens that
\* the primary already sent.
SavedIsWhole ==
  saved => \E p \in whole \cup {"none"} : \A k \in DOMAIN answer : answer[k] = p

\* The client hears the outcome once, and nothing after it; "done" comes only
\* when the answer is in the history.
OneOutcome ==
  \A k \in DOMAIN sent : sent[k].type \in {"error", "done"} =>
    /\ k = Len(sent)
    /\ at \in Ended
    /\ sent[k].type = "done" => saved

\* The client always hears an outcome, unless it went away.
StreamEnds == <>(at = "gone" \/ \E k \in DOMAIN sent : sent[k].type \in {"error", "done"})
=============================================================================
