------------------------- MODULE AnswerStreamProofs -------------------------
(***************************************************************************)
(* Proofs about AnswerStream: an answer in the history is one provider's,  *)
(* and the client hears one outcome, for answers of any length, any set of *)
(* faults, with or without a fallback.                                     *)
(***************************************************************************)
EXTENDS AnswerStream, TLAPS

\* The answer is the complete answer of one provider, or the stock sentence.
OneSource == \E p \in whole \cup {"none"} : \A k \in DOMAIN answer : answer[k] = p

\* What each step knows about the tokens so far.  Nothing is known once the
\* fallback was called, which is why nothing may be saved from there.
Gathered ==
  /\ at = "retrieve" => answer = <<>>
  /\ at = "empty" => \A k \in DOMAIN answer : answer[k] = "none"
  /\ at = "primary" => \A k \in DOMAIN answer : answer[k] = "primary"
  /\ at \in {"save", "finish"} => OneSource
  /\ saved => OneSource
  /\ saved => at \in Ended \cup {"finish"}
  /\ at = "finish" => saved

IInv == TypeOK /\ Gathered /\ OneOutcome

\* Yield adds one event at the end.
LEMMA YieldAppends ==
  ASSUME NEW type \in {"citations", "token", "usage", "error", "done"},
         NEW by \in Sources,
         sent \in Seq(Events), Yield(type, by)
  PROVE  /\ sent' \in Seq(Events)
         /\ Len(sent') = Len(sent) + 1
         /\ DOMAIN sent' = 1..(Len(sent) + 1)
         /\ \A k \in DOMAIN sent : sent'[k] = sent[k]
         /\ sent'[Len(sent) + 1].type = type
<1>1. [type |-> type, by |-> by] \in Events
  BY DEF Events, Sources, Providers
<1>2. sent' = Append(sent, [type |-> type, by |-> by])
  BY DEF Yield
<1> QED
  BY <1>1, <1>2

\* Every step of the generators starts before the end.
LEMMA StreamIsRunning ==
  ASSUME Stream PROVE at \notin Ended
BY DEF Stream, Retrieve, RetrieveNothing, CiteNothing, RetrieveFails, Token, Usage,
       ReportError, Raise, PrimaryEnds, FallbackEnds, Save, Finish, Ended, Providers

\* An event sent while the stream runs keeps OneOutcome if it tells no outcome
\* or is the last.
LEMMA OneOutcomeKept ==
  ASSUME NEW type \in {"citations", "token", "usage", "error", "done"},
         NEW by \in Sources,
         TypeOK, OneOutcome, at \notin Ended, Yield(type, by),
         type \in {"error", "done"} => at' \in Ended,
         type = "done" => saved'
  PROVE  OneOutcome'
<1>1. /\ Len(sent') = Len(sent) + 1
      /\ DOMAIN sent' = 1..(Len(sent) + 1)
      /\ \A k \in DOMAIN sent : sent'[k] = sent[k]
      /\ sent'[Len(sent) + 1].type = type
  BY YieldAppends DEF TypeOK
<1>2. Len(sent) \in Nat /\ DOMAIN sent = 1..Len(sent)
  BY DEF TypeOK
<1>3. \A k \in DOMAIN sent : sent[k].type \notin {"error", "done"}
  BY DEF OneOutcome
<1>4. SUFFICES ASSUME NEW k \in DOMAIN sent', sent'[k].type \in {"error", "done"}
               PROVE  k = Len(sent') /\ at' \in Ended /\ (sent'[k].type = "done" => saved')
  BY DEF OneOutcome, Ended
<1>5. k = Len(sent) + 1
  BY <1>1, <1>2, <1>3, <1>4
<1> QED
  BY <1>1, <1>4, <1>5

\* A step that sends nothing and goes on keeps OneOutcome.
LEMMA OneOutcomeQuiet ==
  ASSUME OneOutcome, at \notin Ended, UNCHANGED sent
  PROVE  OneOutcome'
<1>1. \A k \in DOMAIN sent : sent[k].type \notin {"error", "done"}
  BY DEF OneOutcome
<1> QED
  BY <1>1 DEF OneOutcome

LEMMA TypeStep == ASSUME TypeOK, [Next]_vars PROVE TypeOK'
<1> USE DEF Providers, Sources, Ended, Steps
<1>1. CASE Retrieve
  BY <1>1, YieldAppends DEF TypeOK, Retrieve
<1>2. CASE RetrieveNothing
  BY <1>2, YieldAppends DEF TypeOK, RetrieveNothing
<1>3. CASE CiteNothing
  BY <1>3, YieldAppends DEF TypeOK, CiteNothing
<1>4. CASE RetrieveFails
  BY <1>4, YieldAppends DEF TypeOK, RetrieveFails, Fail
<1>5. ASSUME NEW p \in Providers, Token(p) PROVE TypeOK'
  BY <1>5, YieldAppends DEF TypeOK, Token
<1>6. ASSUME NEW p \in Providers, Usage(p) PROVE TypeOK'
  BY <1>6, YieldAppends DEF TypeOK, Usage
<1>7. ASSUME NEW p \in Providers, ReportError(p) PROVE TypeOK'
  BY <1>7, YieldAppends DEF TypeOK, ReportError
<1>8. ASSUME NEW p \in Providers, Raise(p) PROVE TypeOK'
  BY <1>8, YieldAppends DEF TypeOK, Raise
<1>9. CASE PrimaryEnds
  BY <1>9 DEF TypeOK, PrimaryEnds
<1>10. CASE FallbackEnds
  BY <1>10, YieldAppends DEF TypeOK, FallbackEnds
<1>11. CASE Save
  BY <1>11, YieldAppends DEF TypeOK, Save, Fail
<1>12. CASE Finish
  BY <1>12, YieldAppends DEF TypeOK, Finish, Fail
<1>13. CASE Disconnect
  BY <1>13 DEF TypeOK, Disconnect
<1>14. CASE UNCHANGED vars
  BY <1>14 DEF TypeOK, vars
<1> QED
  BY <1>1, <1>2, <1>3, <1>4, <1>5, <1>6, <1>7, <1>8, <1>9, <1>10, <1>11, <1>12,
     <1>13, <1>14 DEF Next, Stream

LEMMA GatheredStep == ASSUME TypeOK, Gathered, [Next]_vars PROVE Gathered'
<1> USE DEF Gathered, OneSource, Providers, Ended
<1>1. CASE Retrieve
  BY <1>1 DEF Retrieve, TypeOK
<1>2. CASE RetrieveNothing
  <2>1. answer' = <<"none">> /\ at' = "empty" /\ ~saved'
    BY <1>2 DEF RetrieveNothing, TypeOK
  <2> QED
    BY <2>1
<1>3. CASE CiteNothing
  BY <1>3 DEF CiteNothing, TypeOK
<1>4. CASE RetrieveFails
  BY <1>4 DEF RetrieveFails, Fail, TypeOK
<1>5. ASSUME NEW p \in Providers, Token(p) PROVE Gathered'
  <2>1. at = p /\ at' = p /\ answer' = Append(answer, p) /\ saved' = saved
    BY <1>5 DEF Token
  <2>2. answer \in Seq(Sources) /\ p \in Sources
    BY DEF TypeOK, Sources
  <2>3. ~saved'
    BY <2>1
  <2>4. p = "primary" => \A k \in DOMAIN answer' : answer'[k] = "primary"
    BY <2>1, <2>2
  <2> QED
    BY <2>1, <2>3, <2>4
<1>6. ASSUME NEW p \in Providers, Usage(p) PROVE Gathered'
  BY <1>6 DEF Usage, TypeOK
<1>7. ASSUME NEW p \in Providers, ReportError(p) PROVE Gathered'
  BY <1>7 DEF ReportError, TypeOK
<1>8. ASSUME NEW p \in Providers, Raise(p) PROVE Gathered'
  BY <1>8 DEF Raise, TypeOK
<1>9. CASE PrimaryEnds
  BY <1>9 DEF PrimaryEnds, TypeOK
<1>10. CASE FallbackEnds
  BY <1>10 DEF FallbackEnds, TypeOK
<1>11. CASE Save
  BY <1>11 DEF Save, Fail, TypeOK
<1>12. CASE Finish
  BY <1>12 DEF Finish, Fail, TypeOK
<1>13. CASE Disconnect
  BY <1>13 DEF Disconnect, TypeOK
<1>14. CASE UNCHANGED vars
  BY <1>14 DEF vars
<1> QED
  BY <1>1, <1>2, <1>3, <1>4, <1>5, <1>6, <1>7, <1>8, <1>9, <1>10, <1>11, <1>12,
     <1>13, <1>14 DEF Next, Stream

LEMMA OutcomeStep == ASSUME TypeOK, Gathered, OneOutcome, [Next]_vars PROVE OneOutcome'
<1> USE DEF Sources, Providers
<1>1. CASE Retrieve
  BY <1>1, OneOutcomeKept DEF Retrieve, Ended
<1>2. CASE RetrieveNothing
  BY <1>2, OneOutcomeKept DEF RetrieveNothing, Ended
<1>3. CASE CiteNothing
  BY <1>3, OneOutcomeKept DEF CiteNothing, Ended
<1>4. CASE RetrieveFails
  BY <1>4, OneOutcomeKept DEF RetrieveFails, Fail, Ended
<1>5. ASSUME NEW p \in Providers, Token(p) PROVE OneOutcome'
  BY <1>5, OneOutcomeKept DEF Token, Ended
<1>6. ASSUME NEW p \in Providers, Usage(p) PROVE OneOutcome'
  BY <1>6, OneOutcomeKept DEF Usage, Ended
<1>7. ASSUME NEW p \in Providers, ReportError(p) PROVE OneOutcome'
  BY <1>7, OneOutcomeKept DEF ReportError, Ended
<1>8. ASSUME NEW p \in Providers, Raise(p) PROVE OneOutcome'
  BY <1>8, OneOutcomeKept, OneOutcomeQuiet DEF Raise, Ended
<1>9. CASE PrimaryEnds
  BY <1>9, OneOutcomeQuiet DEF PrimaryEnds, Ended
<1>10. CASE FallbackEnds
  BY <1>10, OneOutcomeKept DEF FallbackEnds, Ended
<1>11. CASE Save
  BY <1>11, OneOutcomeKept, OneOutcomeQuiet DEF Save, Fail, Ended
<1>12. CASE Finish
  BY <1>12, OneOutcomeKept DEF Finish, Fail, Ended, Gathered
<1>13. CASE Disconnect
  BY <1>13, OneOutcomeQuiet DEF Disconnect
<1>14. CASE UNCHANGED vars
  BY <1>14 DEF OneOutcome, vars
<1> QED
  BY <1>1, <1>2, <1>3, <1>4, <1>5, <1>6, <1>7, <1>8, <1>9, <1>10, <1>11, <1>12,
     <1>13, <1>14 DEF Next, Stream

LEMMA Invariant == Spec => []IInv
<1>1. Init => IInv
  <2> SUFFICES ASSUME Init PROVE IInv
    OBVIOUS
  <2>1. TypeOK
    <3>1. sent \in Seq(Events)
      BY DEF Init
    <3>2. answer \in Seq(Sources)
      BY DEF Init
    <3> QED
      BY <3>1, <3>2 DEF Init, TypeOK, Steps
  <2>2. Gathered
    BY DEF Init, Gathered, Ended
  <2>3. sent = <<>> /\ DOMAIN sent = {}
    BY DEF Init
  <2>4. OneOutcome
    BY <2>3 DEF OneOutcome
  <2> QED
    BY <2>1, <2>2, <2>4 DEF IInv
<1>2. IInv /\ [Next]_vars => IInv'
  BY TypeStep, GatheredStep, OutcomeStep DEF IInv
<1> QED
  BY <1>1, <1>2, PTL DEF Spec

\* The state of a streamed answer stays in its ranges.
THEOREM TypeCorrect == Spec => []TypeOK
<1>1. IInv => TypeOK
  BY DEF IInv
<1> QED
  BY <1>1, Invariant, PTL

\* Only complete answers of one provider enter the history.
THEOREM HistoryIsWhole == Spec => []SavedIsWhole
<1>1. IInv => SavedIsWhole
  BY DEF IInv, Gathered, OneSource, SavedIsWhole
<1> QED
  BY <1>1, Invariant, PTL

\* The client hears one outcome, last, and "done" only after the commit.
THEOREM OutcomeIsHeardOnce == Spec => []OneOutcome
<1>1. IInv => OneOutcome
  BY DEF IInv
<1> QED
  BY <1>1, Invariant, PTL
=============================================================================
