------------------------------ MODULE ShortUrl ------------------------------
(***************************************************************************)
(* Short URLs: POST /documents/{id}/share and GET /d/{code} of             *)
(* app/routes/documents.py over the shorturls table, with documents being  *)
(* deleted meanwhile.  A step ends at the query or commit others can see;  *)
(* transactions read what is committed.  Ids come from the generators of   *)
(* several processes, so two requests may get the same one (Snowflake.tla).*)
(***************************************************************************)
EXTENDS Naturals, FiniteSets

CONSTANTS
  Docs,    \* documents
  Codes,   \* base62 codes the generators may return
  Shares,  \* POST share requests
  Visits,  \* GET redirect requests
  NoDoc,   \* "no document"
  NoCode   \* "no code"

ASSUME NoDocAssumption == NoDoc \notin Docs
ASSUME NoCodeAssumption == NoCode \notin Codes
ASSUME VisitsAssumption == IsFiniteSet(Visits)

VARIABLES
  live,    \* documents that have a row
  target,  \* the document of each code's row in shorturls, NoDoc without one
  clicks,  \* shorturls.clicks of each code
  share,   \* where each share request is
  visit    \* where each redirect request is

vars == <<live, target, clicks, share, visit>>

\* "created" and "reused" are the two answers 201, with their code.
ShareSteps == {"idle", "select", "insert", "created", "reused", "error"}
VisitSteps == {"idle", "count", "redirected", "notfound"}

TypeOK ==
  /\ live \subseteq Docs
  /\ target \in [Codes -> Docs \cup {NoDoc}]
  /\ clicks \in [Codes -> Nat]
  /\ share \in [Shares -> [at: ShareSteps, doc: Docs \cup {NoDoc}, code: Codes \cup {NoCode}]]
  /\ visit \in [Visits -> [at: VisitSteps, code: Codes \cup {NoCode}, seen: Nat]]

Init ==
  /\ live = Docs
  /\ target = [c \in Codes |-> NoDoc]
  /\ clicks = [c \in Codes |-> 0]
  /\ share = [s \in Shares |-> [at |-> "idle", doc |-> NoDoc, code |-> NoCode]]
  /\ visit = [v \in Visits |-> [at |-> "idle", code |-> NoCode, seen |-> 0]]

CodesOf(d) == {c \in Codes : target[c] = d}
-----------------------------------------------------------------------------
\* verify_document_ownership: the document is there.
ShareBegin(s, d) ==
  /\ share[s].at = "idle"
  /\ d \in live
  /\ share' = [share EXCEPT ![s].at = "select", ![s].doc = d]
  /\ UNCHANGED <<live, target, clicks, visit>>

\* Mutant: any of the codes will do.
ShareSelectAny(s) ==
  /\ share[s].at = "select"
  /\ \/ \E c \in CodesOf(share[s].doc) :
          share' = [share EXCEPT ![s].at = "reused", ![s].code = c]
     \/ /\ CodesOf(share[s].doc) = {}
        /\ share' = [share EXCEPT ![s].at = "insert"]
  /\ UNCHANGED <<live, target, clicks, visit>>

\* scalar_one_or_none(): none leads to a new code, one is the answer, and
\* several raise MultipleResultsFound.
ShareSelect(s) ==
  LET existing == CodesOf(share[s].doc) IN
  /\ share[s].at = "select"
  /\ \/ /\ existing = {}
        /\ share' = [share EXCEPT ![s].at = "insert"]
     \/ \E c \in existing :
          /\ existing = {c}
          /\ share' = [share EXCEPT ![s].at = "reused", ![s].code = c]
     \/ /\ \E b, c \in existing : b # c
        /\ share' = [share EXCEPT ![s].at = "error"]
  /\ UNCHANGED <<live, target, clicks, visit>>

\* The INSERT fails if the code is taken (short_code is unique) or the
\* document has gone (document_id is a foreign key).
ShareInsert(s, c) ==
  /\ share[s].at = "insert"
  /\ \/ /\ target[c] = NoDoc
        /\ share[s].doc \in live
        /\ target' = [target EXCEPT ![c] = share[s].doc]
        /\ clicks' = [clicks EXCEPT ![c] = 0]
        /\ share' = [share EXCEPT ![s].at = "created", ![s].code = c]
     \/ /\ target[c] # NoDoc \/ share[s].doc \notin live
        /\ share' = [share EXCEPT ![s].at = "error"]
        /\ UNCHANGED <<target, clicks>>
  /\ UNCHANGED <<live, visit>>

\* Mutant: the short URLs are left behind.
DeleteDocumentAnyway(d) ==
  /\ d \in live
  /\ live' = live \ {d}
  /\ UNCHANGED <<target, clicks, share, visit>>

\* The commit of a DELETE: rows of shorturls that refer to the document keep it
\* in place, since their document_id may not become NULL.
DeleteDocument(d) ==
  /\ d \in live
  /\ CodesOf(d) = {}
  /\ live' = live \ {d}
  /\ UNCHANGED <<target, clicks, share, visit>>

VisitSelect(v, c) ==
  /\ visit[v].at = "idle"
  /\ visit' = [visit EXCEPT ![v] =
                 [at |-> IF target[c] = NoDoc THEN "notfound" ELSE "count",
                  code |-> c, seen |-> clicks[c]]]
  /\ UNCHANGED <<live, target, clicks, share>>

\* Mutant: the click is counted once more when the row is written.
VisitCountTwice(v) ==
  /\ visit[v].at = "count"
  /\ clicks' = [clicks EXCEPT ![visit[v].code] = visit[v].seen + 2]
  /\ visit' = [visit EXCEPT ![v].at = "redirected"]
  /\ UNCHANGED <<live, target, share>>

\* clicks += 1 writes one more than the value that was loaded.
VisitCount(v) ==
  /\ visit[v].at = "count"
  /\ clicks' = [clicks EXCEPT ![visit[v].code] = visit[v].seen + 1]
  /\ visit' = [visit EXCEPT ![v].at = "redirected"]
  /\ UNCHANGED <<live, target, share>>

Next ==
  \/ \E s \in Shares :
       \/ \E d \in Docs : ShareBegin(s, d)
       \/ ShareSelect(s)
       \/ \E c \in Codes : ShareInsert(s, c)
  \/ \E d \in Docs : DeleteDocument(d)
  \/ \E v \in Visits :
       \/ \E c \in Codes : VisitSelect(v, c)
       \/ VisitCount(v)

Spec == Init /\ [][Next]_vars
-----------------------------------------------------------------------------
(***************************************************************************)
(* Properties                                                              *)
(***************************************************************************)
Answered(s) == share[s].at \in {"created", "reused"}

\* A code a client was given leads to the document that was shared, and the
\* document is still there: not even a second process that generates the same
\* code, or a DELETE between any two steps, takes it away.
CodesLead ==
  \A s \in Shares : Answered(s) =>
    /\ target[share[s].code] = share[s].doc
    /\ share[s].doc \in live

\* Requests that were answered with an existing code got the same one, though
\* two requests may have created codes behind each other's back.
ReusedAnswersAgree ==
  \A r, s \in Shares :
    /\ share[r].at = "reused" /\ share[s].at = "reused"
    /\ share[r].doc = share[s].doc
    => share[r].code = share[s].code

Redirects(c) == {v \in Visits : visit[v].code = c /\ visit[v].at = "redirected"}

\* Lost updates lose clicks and never invent any: at least as many
\* redirects took place, and a code that redirected somebody shows a click.
ClicksTookPlace ==
  \A c \in Codes :
    /\ clicks[c] <= Cardinality(Redirects(c))
    /\ Redirects(c) # {} => clicks[c] > 0
=============================================================================
