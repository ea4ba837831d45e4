--------------------------- MODULE ShortUrlProofs ---------------------------
(***************************************************************************)
(* Proofs about ShortUrl, for any documents, codes and share requests, and *)
(* any finite set of visits.                                               *)
(***************************************************************************)
EXTENDS ShortUrl, FiniteSetTheorems, TLAPS

\* A request past its first step has a document or a code.
Named ==
  /\ \A s \in Shares : share[s].at # "idle" => share[s].doc \in Docs
  /\ \A s \in Shares : Answered(s) => share[s].code \in Codes
  /\ \A v \in Visits : visit[v].at # "idle" => visit[v].code \in Codes

\* The foreign key: a short URL keeps its document.
Referenced == \A c \in Codes : target[c] # NoDoc => target[c] \in live

\* Who visits a code found its row.
Found == \A v \in Visits :
  visit[v].at \in {"count", "redirected"} => target[visit[v].code] # NoDoc

\* What a visit loaded was no more than the redirects so far.
SeenTookPlace == \A v \in Visits :
  visit[v].at = "count" => visit[v].seen <= Cardinality(Redirects(visit[v].code))

IInv ==
  /\ TypeOK /\ Named /\ Referenced /\ Found
  /\ CodesLead /\ ReusedAnswersAgree /\ SeenTookPlace /\ ClicksTookPlace

LEMMA InvInit == Init => IInv
<1> SUFFICES ASSUME Init
             PROVE  IInv
  OBVIOUS
<1> USE DEF Init
<1>1. TypeOK
  BY DEF TypeOK, ShareSteps, VisitSteps
<1>2. Named /\ Referenced /\ Found /\ CodesLead /\ ReusedAnswersAgree /\ SeenTookPlace
  BY DEF Named, Referenced, Found, CodesLead, ReusedAnswersAgree, SeenTookPlace, Answered
<1>3. \A c \in Codes : Redirects(c) = {}
  BY DEF Redirects
<1>4. ClicksTookPlace
  <2> SUFFICES ASSUME NEW c \in Codes
               PROVE  clicks[c] <= Cardinality(Redirects(c)) /\ Redirects(c) = {}
    BY DEF ClicksTookPlace
  <2>1. Redirects(c) = {} /\ clicks[c] = 0
    BY <1>3
  <2>2. Cardinality(Redirects(c)) = 0
    BY <2>1, FS_EmptySet
  <2> QED BY <2>1, <2>2
<1> QED BY <1>1, <1>2, <1>4 DEF IInv
-----------------------------------------------------------------------------
(* Sharing and deleting. *)

ShareStep(s) ==
  \/ \E d \in Docs : ShareBegin(s, d)
  \/ ShareSelect(s)
  \/ \E c \in Codes : ShareInsert(s, c)

LEMMA ShareType ==
  ASSUME TypeOK, Named, NEW s \in Shares, ShareStep(s)
  PROVE  TypeOK' /\ Named'
<1> USE DEF TypeOK, Named, ShareSteps, Answered
<1>1. ASSUME NEW d \in Docs, ShareBegin(s, d)
      PROVE  TypeOK' /\ Named'
  <2>1. share' = [share EXCEPT ![s] = [@ EXCEPT !.at = "select", !.doc = d]]
    BY <1>1 DEF ShareBegin
  <2> QED BY <1>1, <2>1 DEF ShareBegin
<1>2. CASE ShareSelect(s)
  <2>1. PICK to \in {"insert", "reused", "error"}, c \in Codes \cup {NoCode} :
          /\ share' = [share EXCEPT ![s] = [@ EXCEPT !.at = to, !.code = c]]
          /\ to = "reused" => c \in Codes
    <3>1. CASE share' = [share EXCEPT ![s].at = "insert"] \/ share' = [share EXCEPT ![s].at = "error"]
      <4> DEFINE c == share[s].code
      <4>1. c \in Codes \cup {NoCode}
        OBVIOUS
      <4>2. \A to : [share EXCEPT ![s].at = to] = [share EXCEPT ![s] = [@ EXCEPT !.at = to, !.code = c]]
        OBVIOUS
      <4> QED BY <3>1, <4>1, <4>2
    <3>2. CASE \E c \in CodesOf(share[s].doc) :
                 share' = [share EXCEPT ![s].at = "reused", ![s].code = c]
      BY <3>2 DEF CodesOf
    <3> QED BY <1>2, <3>1, <3>2 DEF ShareSelect
  <2> QED BY <1>2, <2>1 DEF ShareSelect
<1>3. ASSUME NEW c \in Codes, ShareInsert(s, c)
      PROVE  TypeOK' /\ Named'
  <2>1. CASE share' = [share EXCEPT ![s].at = "created", ![s].code = c]
    <3>1. share' = [share EXCEPT ![s] = [@ EXCEPT !.at = "created", !.code = c]]
      BY <2>1
    <3> QED BY <1>3, <3>1 DEF ShareInsert
  <2>2. CASE share' = [share EXCEPT ![s].at = "error"]
    BY <1>3, <2>2 DEF ShareInsert
  <2> QED BY <1>3, <2>1, <2>2 DEF ShareInsert
<1> QED BY <1>1, <1>2, <1>3 DEF ShareStep

\* Rows of shorturls are added and stay as they are.
LEMMA ShareKeeps ==
  ASSUME TypeOK, NEW s \in Shares, ShareStep(s)
  PROVE  /\ live' = live /\ visit' = visit
         /\ \A r \in Shares : r # s => share'[r] = share[r]
         /\ \A c \in Codes : /\ target[c] # NoDoc => target'[c] = target[c]
                             /\ clicks'[c] # clicks[c] => target[c] = NoDoc /\ clicks'[c] = 0
BY DEF TypeOK, ShareStep, ShareBegin, ShareSelect, ShareInsert

LEMMA ShareReferenced ==
  ASSUME TypeOK, Named, Referenced, Found, NEW s \in Shares, ShareStep(s)
  PROVE  Referenced' /\ Found'
<1>1. \A c \in Codes : target'[c] # NoDoc => target'[c] \in live
  BY DEF TypeOK, Referenced, ShareStep, ShareBegin, ShareSelect, ShareInsert
<1>2. Found'
  BY ShareKeeps DEF Found, Named
<1> QED BY <1>1, <1>2, ShareKeeps DEF Referenced

LEMMA ShareLeads ==
  ASSUME TypeOK, Named, Referenced, CodesLead, NEW s \in Shares, ShareStep(s)
  PROVE  CodesLead'
<1> SUFFICES ASSUME NEW r \in Shares, Answered(r)'
             PROVE  /\ target'[share'[r].code] = share'[r].doc
                    /\ share'[r].doc \in live
  BY ShareKeeps DEF CodesLead
<1>1. CASE Answered(r) /\ share'[r] = share[r]
  <2>1. share[r].code \in Codes /\ share[r].doc \in Docs /\ target[share[r].code] = share[r].doc
    BY <1>1 DEF Named, CodesLead, Answered
  <2>2. target[share[r].code] # NoDoc
    BY <2>1, NoDocAssumption
  <2> QED BY <1>1, <2>1, <2>2, ShareKeeps DEF CodesLead
<1>2. CASE r = s
  <2>1. ASSUME NEW d \in Docs, ShareBegin(s, d)
        PROVE  FALSE
    BY <1>2, <2>1 DEF ShareBegin, TypeOK, Answered
  <2>2. CASE ShareSelect(s)
    <3>1. PICK c \in CodesOf(share[s].doc) :
            share' = [share EXCEPT ![s].at = "reused", ![s].code = c]
      BY <1>2, <2>2 DEF ShareSelect, TypeOK, Answered
    <3>2. share'[s].code = c /\ share'[s].doc = share[s].doc
      BY <3>1 DEF TypeOK
    <3>3. c \in Codes /\ target'[c] = share[s].doc
      BY <2>2, <3>1 DEF CodesOf, ShareSelect
    <3>4. share[s].doc \in Docs
      BY <2>2 DEF Named, ShareSelect
    <3> QED BY <1>2, <2>2, <3>1, <3>2, <3>3, <3>4, NoDocAssumption DEF Referenced, CodesOf
  <2>3. ASSUME NEW c \in Codes, ShareInsert(s, c)
        PROVE  /\ target'[share'[s].code] = share'[s].doc
               /\ share'[s].doc \in live
    <3>1. /\ share' = [share EXCEPT ![s].at = "created", ![s].code = c]
          /\ target' = [target EXCEPT ![c] = share[s].doc]
          /\ share[s].doc \in live
      BY <1>2, <2>3 DEF ShareInsert, TypeOK, Answered
    <3>2. share'[s].code = c /\ share'[s].doc = share[s].doc
      BY <3>1 DEF TypeOK
    <3> QED BY <3>1, <3>2 DEF TypeOK
  <2> QED BY <1>2, <2>1, <2>2, <2>3 DEF ShareStep
<1> QED BY <1>1, <1>2, ShareKeeps DEF Answered

LEMMA ShareAgrees ==
  ASSUME TypeOK, Named, CodesLead, ReusedAnswersAgree, NEW s \in Shares, ShareStep(s)
  PROVE  ReusedAnswersAgree'
<1>1. ASSUME share'[s].at = "reused"
      PROVE  /\ share'[s].doc = share[s].doc
             /\ CodesOf(share[s].doc) = {share'[s].code}
  <2>1. ShareSelect(s)
    BY <1>1 DEF ShareStep, ShareBegin, ShareInsert, TypeOK
  <2> QED BY <1>1, <2>1 DEF ShareSelect, TypeOK
<1>2. ASSUME share'[s].at = "reused", NEW r \in Shares, r # s, share'[r].at = "reused",
             share'[r].doc = share'[s].doc
      PROVE  share'[r].code = share'[s].code
  <2>1. share'[r] = share[r]
    BY <1>2, ShareKeeps
  <2>2. share[r].code \in CodesOf(share[s].doc)
    BY <1>1, <1>2, <2>1 DEF Named, CodesLead, Answered, CodesOf
  <2> QED BY <1>1, <1>2, <2>1, <2>2
<1> QED BY <1>2, ShareKeeps DEF ReusedAnswersAgree

LEMMA ShareClicks ==
  ASSUME TypeOK, Named, Found, SeenTookPlace, ClicksTookPlace, NEW s \in Shares, ShareStep(s)
  PROVE  SeenTookPlace' /\ ClicksTookPlace'
<1>1. \A c \in Codes : Redirects(c)' = Redirects(c)
  BY ShareKeeps DEF Redirects
<1>2. SeenTookPlace'
  BY <1>1, ShareKeeps DEF SeenTookPlace, Named
<1>3. ClicksTookPlace'
  <2> SUFFICES ASSUME NEW c \in Codes
               PROVE  /\ clicks'[c] <= Cardinality(Redirects(c))
                      /\ Redirects(c) # {} => clicks'[c] > 0
    BY <1>1 DEF ClicksTookPlace
  <2>1. CASE clicks'[c] = clicks[c]
    BY <2>1 DEF ClicksTookPlace
  <2>2. CASE target[c] = NoDoc /\ clicks'[c] = 0
    <3>1. Redirects(c) = {}
      BY <2>2 DEF Found, Redirects
    <3>2. Cardinality(Redirects(c)) = 0
      BY <3>1, FS_EmptySet
    <3> QED BY <2>2, <3>1, <3>2
  <2> QED BY <2>1, <2>2, ShareKeeps
<1> QED BY <1>2, <1>3

LEMMA DeleteStep ==
  ASSUME IInv, NEW d \in Docs, DeleteDocument(d)
  PROVE  IInv'
<1>1. /\ live' = live \ {d} /\ UNCHANGED <<target, clicks, share, visit>>
      /\ \A c \in Codes : target[c] # d
  BY DEF DeleteDocument, CodesOf
<1>2. TypeOK' /\ Named' /\ Found'
  BY <1>1 DEF IInv, TypeOK, Named, Found, Answered
<1>3. Referenced' /\ CodesLead' /\ ReusedAnswersAgree'
  BY <1>1 DEF IInv, Referenced, CodesLead, ReusedAnswersAgree, Named, Answered
<1>4. SeenTookPlace' /\ ClicksTookPlace'
  BY <1>1 DEF IInv, SeenTookPlace, ClicksTookPlace, Redirects
<1> QED BY <1>2, <1>3, <1>4 DEF IInv
-----------------------------------------------------------------------------
(* Visiting. *)

LEMMA RedirectsFinite ==
  \A c \in Codes : IsFiniteSet(Redirects(c)) /\ Cardinality(Redirects(c)) \in Nat
<1> SUFFICES ASSUME NEW c \in Codes
             PROVE  IsFiniteSet(Redirects(c)) /\ Cardinality(Redirects(c)) \in Nat
  OBVIOUS
<1>1. Redirects(c) \in SUBSET Visits
  BY DEF Redirects
<1>2. IsFiniteSet(Redirects(c))
  BY <1>1, VisitsAssumption, FS_Subset
<1> QED BY <1>2, FS_CardinalityType

LEMMA SelectStep ==
  ASSUME IInv, NEW v \in Visits, NEW c \in Codes, VisitSelect(v, c)
  PROVE  IInv'
<1> USE DEF IInv
<1> DEFINE to == IF target[c] = NoDoc THEN "notfound" ELSE "count"
<1>1. /\ UNCHANGED <<live, target, clicks, share>>
      /\ visit' = [visit EXCEPT ![v] = [at |-> to, code |-> c, seen |-> clicks[c]]]
      /\ visit[v].at = "idle"
  BY DEF VisitSelect
<1>2. /\ visit'[v] = [at |-> to, code |-> c, seen |-> clicks[c]]
      /\ \A u \in Visits : u # v => visit'[u] = visit[u]
  BY <1>1 DEF TypeOK
<1>3. TypeOK'
  <2>1. [at |-> to, code |-> c, seen |-> clicks[c]]
          \in [at: VisitSteps, code: Codes \cup {NoCode}, seen: Nat]
    BY DEF TypeOK, VisitSteps
  <2> QED BY <1>1, <2>1 DEF TypeOK
<1>4. Named' /\ Found'
  BY <1>1, <1>2 DEF Named, Found, Answered
<1>5. Referenced' /\ CodesLead' /\ ReusedAnswersAgree'
  BY <1>1 DEF Referenced, CodesLead, ReusedAnswersAgree, Answered
<1>6. \A b \in Codes : Redirects(b)' = Redirects(b)
  BY <1>1, <1>2 DEF Redirects
<1>7. ClicksTookPlace'
  BY <1>1, <1>6 DEF ClicksTookPlace
<1>8. SeenTookPlace'
  BY <1>2, <1>6 DEF SeenTookPlace, ClicksTookPlace, Named
<1> QED BY <1>3, <1>4, <1>5, <1>7, <1>8

LEMMA CountStep ==
  ASSUME IInv, NEW v \in Visits, VisitCount(v)
  PROVE  IInv'
<1> USE DEF IInv
<1>0. PICK c \in Codes : c = visit[v].code
  BY DEF VisitCount, Named
<1>1. /\ UNCHANGED <<live, target, share>>
      /\ visit[v].at = "count"
      /\ c = visit[v].code
      /\ visit[v].seen \in Nat
      /\ clicks' = [clicks EXCEPT ![c] = visit[v].seen + 1]
      /\ visit' = [visit EXCEPT ![v].at = "redirected"]
  BY <1>0 DEF VisitCount, TypeOK
<1>2. /\ visit'[v].at = "redirected" /\ visit'[v].code = c
      /\ \A u \in Visits : u # v => visit'[u] = visit[u]
  BY <1>1 DEF TypeOK
<1>3. TypeOK'
  <2>1. clicks' \in [Codes -> Nat]
    BY <1>1 DEF TypeOK
  <2>2. visit' \in [Visits -> [at: VisitSteps, code: Codes \cup {NoCode}, seen: Nat]]
    BY <1>1 DEF TypeOK, VisitSteps
  <2> QED BY <1>1, <2>1, <2>2 DEF TypeOK
<1>4. Named' /\ Found'
  BY <1>1, <1>2 DEF Named, Found, Answered
<1>5. Referenced' /\ CodesLead' /\ ReusedAnswersAgree'
  BY <1>1 DEF Referenced, CodesLead, ReusedAnswersAgree, Answered
<1>6. \A b \in Codes : b # c => Redirects(b)' = Redirects(b)
  BY <1>1, <1>2 DEF Redirects
<1>7. Redirects(c)' = Redirects(c) \cup {v}
  BY <1>1, <1>2 DEF Redirects
<1>8. /\ Cardinality(Redirects(c)') = Cardinality(Redirects(c)) + 1
      /\ Cardinality(Redirects(c)) \in Nat
  <2>1. v \notin Redirects(c)
    BY <1>1 DEF Redirects
  <2> QED BY <1>1, <1>7, <2>1, RedirectsFinite, FS_AddElement
<1>9. ClicksTookPlace'
  <2>1. clicks'[c] = visit[v].seen + 1 /\ \A b \in Codes : b # c => clicks'[b] = clicks[b]
    BY <1>1 DEF TypeOK
  <2>2. visit[v].seen <= Cardinality(Redirects(c))
    BY <1>1 DEF SeenTookPlace
  <2>3. clicks'[c] <= Cardinality(Redirects(c)') /\ clicks'[c] > 0
    BY <1>1, <1>8, <2>1, <2>2
  <2> QED BY <1>6, <2>1, <2>3 DEF ClicksTookPlace
<1>10. SeenTookPlace'
  <2> SUFFICES ASSUME NEW u \in Visits, visit'[u].at = "count",
                      NEW b \in Codes, visit'[u].code = b
               PROVE  visit'[u].seen <= Cardinality(Redirects(b)')
    BY <1>4 DEF SeenTookPlace, Named
  <2>1. u # v /\ visit'[u] = visit[u]
    BY <1>2
  <2>2. visit[u].seen <= Cardinality(Redirects(b)) /\ visit[u].seen \in Nat
    BY <2>1 DEF SeenTookPlace, TypeOK
  <2>3. CASE b = c
    BY <1>8, <2>1, <2>2, <2>3
  <2>4. CASE b # c
    BY <1>6, <2>1, <2>2, <2>4
  <2> QED BY <2>3, <2>4
<1> QED BY <1>3, <1>4, <1>5, <1>9, <1>10
-----------------------------------------------------------------------------
LEMMA InvStep == IInv /\ [Next]_vars => IInv'
<1> SUFFICES ASSUME IInv, [Next]_vars
             PROVE  IInv'
  OBVIOUS
<1>1. CASE UNCHANGED vars
  BY <1>1 DEF vars, IInv, TypeOK, Named, Referenced, Found, CodesLead, ReusedAnswersAgree,
              SeenTookPlace, ClicksTookPlace, Answered, Redirects
<1>2. ASSUME NEW s \in Shares, ShareStep(s)
      PROVE  IInv'
  BY <1>2, ShareType, ShareReferenced, ShareLeads, ShareAgrees, ShareClicks DEF IInv
<1>3. ASSUME NEW d \in Docs, DeleteDocument(d)
      PROVE  IInv'
  BY <1>3, DeleteStep
<1>4. ASSUME NEW v \in Visits, \/ \E c \in Codes : VisitSelect(v, c)
                              \/ VisitCount(v)
      PROVE  IInv'
  BY <1>4, SelectStep, CountStep
<1> QED BY <1>1, <1>2, <1>3, <1>4 DEF Next, ShareStep

LEMMA Invariance == Spec => []IInv
BY InvInit, InvStep, PTL DEF Spec

\* A code a client was given leads to a document that is still there.
THEOREM CodesLeadOn == Spec => []CodesLead
BY Invariance, PTL DEF IInv

\* Two answers that reused a code agree, though codes may be created twice.
THEOREM ReusedAgree == Spec => []ReusedAnswersAgree
BY Invariance, PTL DEF IInv

\* Clicks are lost, never invented, and never all lost.
THEOREM ClicksAreReal == Spec => []ClicksTookPlace
BY Invariance, PTL DEF IInv
=============================================================================
