-------------------------- MODULE MiddlewareProofs ---------------------------
(***************************************************************************)
(* Proofs about the middlewares of main.py, for any requests and faults.   *)
(* RequestMiddleware, for any keys and bodies: how often a handler runs,   *)
(* whose answer a client gets, and that a promised retry does not run it.  *)
(* TokenBucket, for any capacity and period: how many requests are let in, *)
(* and who is denied.                                                      *)
(***************************************************************************)
EXTENDS RequestMiddleware, TokenBucket, FiniteSetTheorems, TLAPS

(***************************************************************************)
(* RequestMiddleware                                                       *)
(***************************************************************************)
\* How often the handler ran when a request is at a step, in the rate
\* limiter's first call (left = 1) and its last (left = 0).
AtMost(r) ==
  /\ at[r] = "idle" => runs[r] = 0
  /\ at[r] \in {"lookup", "run", "bypass"} => runs[r] <= IF left[r] = 1 THEN 0 ELSE 2
  /\ at[r] \in {"save", "expire", "again"} => runs[r] <= IF left[r] = 1 THEN 1 ELSE 3
  /\ runs[r] <= 4

\* What a run that is not the first one tells about failures before.
Explained(r) ==
  /\ at[r] \in {"lookup", "run", "bypass"} /\ runs[r] > 0 => "handler" \in trouble[r]
  /\ at[r] \in {"save", "expire"} /\ runs[r] > 1 => "handler" \in trouble[r]
  /\ at[r] = "again" /\ runs[r] > 1 => "handler" \in trouble[r]
  /\ at[r] = "again" /\ runs[r] > 0 => trouble[r] # {}
  /\ runs[r] > 1 => trouble[r] # {}
  /\ runs[r] > 2 => "handler" \in trouble[r]

Counted == \A r \in Requests : AtMost(r) /\ Explained(r)

\* A request that arrived has a key and a body, and keeps them; the handler
\* ran for every request whose answer is saved, about to be, or given.
Produced ==
  /\ \A r \in Requests : at[r] # "idle" => key[r] \in Keys /\ body[r] \in Bodies
  /\ \A r \in Requests : runs[r] > 0 \/ trouble[r] # {} => at[r] # "idle"
  /\ \A r \in Requests : at[r] \in {"save", "expire"} => runs[r] > 0
  /\ \A k \in Keys : saved[k] # NoRequest =>
       key[saved[k]] = k /\ runs[saved[k]] > 0

\* A promise, and one about to be given, is backed by a saved answer of its
\* key, whosever it is; a request that relies on one does not get past the
\* look-up.
Kept ==
  /\ \A r \in Requests : at[r] = "expire" => saved[key[r]] # NoRequest
  /\ \A k \in Keys, b \in Bodies : <<k, b>> \in promised => saved[k] # NoRequest
  /\ \A r \in retry :
       /\ at[r] # "idle"
       /\ "redis" \notin trouble[r] =>
            /\ runs[r] = 0
            /\ Active(r) => at[r] = "lookup" /\ saved[key[r]] # NoRequest

IInv == TypeOK /\ Counted /\ Produced /\ Kept /\ AnswersAreGenuine /\ SavedAnswersExpire

LEMMA TypeStep == ASSUME TypeOK, Produced, [Next]_vars PROVE TypeOK'
<1>1. ASSUME NEW r \in Requests, NEW k \in Keys, NEW b \in Bodies, Arrive(r, k, b)
      PROVE  TypeOK'
  BY <1>1 DEF Arrive, Goto, header, redis, progress, TypeOK, Steps, Ended
<1>2. ASSUME NEW r \in Requests, Lookup(r) PROVE TypeOK'
  <2>1. key[r] \in Keys
    BY <1>2 DEF Lookup, Produced
  <2> QED
    BY <1>2, <2>1 DEF Lookup, Goto, header, redis, progress, TypeOK, Steps, Ended
<1>3. ASSUME NEW r \in Requests, Bypass(r) PROVE TypeOK'
  BY <1>3 DEF Bypass, Goto, Meet, header, redis, progress, TypeOK, Steps, Ended
<1>4. ASSUME NEW r \in Requests, LookupFails(r) PROVE TypeOK'
  BY <1>4 DEF LookupFails, Goto, Meet, header, redis, progress, TypeOK, Steps, Ended
<1>5. ASSUME NEW r \in Requests, Save(r) PROVE TypeOK'
  BY <1>5 DEF Save, Goto, Meet, header, redis, progress, TypeOK, Steps, Ended
<1>6. ASSUME NEW r \in Requests, Expire(r) PROVE TypeOK'
  <2>1. key[r] \in Keys /\ body[r] \in Bodies
    BY <1>6 DEF Expire, Produced
  <2>2. promised' \subseteq Keys \X Bodies /\ ttl' \subseteq Keys
    BY <1>6, <2>1 DEF Expire, TypeOK
  <2>3. trouble' \in [Requests -> SUBSET {"redis", "handler"}]
    BY <1>6 DEF Expire, Meet, TypeOK
  <2>4. at' \in [Requests -> Steps] /\ answer' \in [Requests -> Requests \cup {NoRequest}]
    BY <1>6 DEF Expire, Goto, TypeOK, Steps, Ended
  <2> QED
    BY <1>6, <2>2, <2>3, <2>4 DEF Expire, header, TypeOK
<1>7. ASSUME NEW r \in Requests, Succeed(r) PROVE TypeOK'
  BY <1>7 DEF Succeed, Run, Goto, header, redis, progress, TypeOK, Steps, Ended
<1>8. ASSUME NEW r \in Requests, Decline(r) PROVE TypeOK'
  BY <1>8 DEF Decline, Run, Goto, header, redis, progress, TypeOK, Steps, Ended
<1>9. ASSUME NEW r \in Requests, Raise(r) PROVE TypeOK'
  BY <1>9 DEF Raise, Run, Meet, Goto, header, redis, progress, TypeOK, Steps, Ended
<1>10. ASSUME NEW r \in Requests, BodyIsGone(r) PROVE TypeOK'
  BY <1>10 DEF BodyIsGone, Goto, header, redis, progress, TypeOK, Steps, Ended
<1>11. ASSUME NEW r \in Requests, Die(r) PROVE TypeOK'
  BY <1>11 DEF Die, Goto, Active, header, redis, progress, TypeOK, Steps, Ended
<1>12. ASSUME NEW k \in Keys, Elapse(k) PROVE TypeOK'
  BY <1>12 DEF Elapse, header, redis, progress, TypeOK, Steps, Ended
<1>13. CASE UNCHANGED vars
  BY <1>13 DEF vars, header, redis, progress, TypeOK, Steps, Ended
<1> QED
  BY <1>1, <1>2, <1>3, <1>4, <1>5, <1>6, <1>7,
     <1>8, <1>9, <1>10, <1>11, <1>12, <1>13 DEF Next, Step

LEMMA CountedStep == ASSUME TypeOK, Counted, [Next]_vars PROVE Counted'
<1>1. ASSUME NEW r \in Requests, NEW k \in Keys, NEW b \in Bodies, Arrive(r, k, b)
      PROVE  Counted'
  BY <1>1 DEF Arrive, Goto, header, redis, progress, TypeOK, Steps, Ended, Counted, AtMost, Explained
<1>2. ASSUME NEW r \in Requests, Lookup(r) PROVE Counted'
  BY <1>2 DEF Lookup, Goto, header, redis, progress, TypeOK, Steps, Ended, Counted, AtMost, Explained
<1>3. ASSUME NEW r \in Requests, Bypass(r) PROVE Counted'
  BY <1>3 DEF Bypass, Goto, Meet, header, redis, progress, TypeOK, Steps, Ended, Counted, AtMost, Explained
<1>4. ASSUME NEW r \in Requests, LookupFails(r) PROVE Counted'
  BY <1>4 DEF LookupFails, Goto, Meet, header, redis, progress, TypeOK, Steps, Ended, Counted, AtMost, Explained
<1>5. ASSUME NEW r \in Requests, Save(r) PROVE Counted'
  BY <1>5 DEF Save, Goto, Meet, header, redis, progress, TypeOK, Steps, Ended, Counted, AtMost, Explained
<1>6. ASSUME NEW r \in Requests, Expire(r) PROVE Counted'
  <2>1. CASE at' = [at EXCEPT ![r] = "answered"] /\ UNCHANGED trouble
    BY <1>6, <2>1 DEF Expire, TypeOK, Counted, AtMost, Explained
  <2>2. CASE at' = [at EXCEPT ![r] = "again"] /\ Meet(r, "redis")
    BY <1>6, <2>2 DEF Expire, Meet, TypeOK, Counted, AtMost, Explained
  <2> QED
    BY <1>6, <2>1, <2>2 DEF Expire, Goto
<1>7. ASSUME NEW r \in Requests, Succeed(r) PROVE Counted'
  BY <1>7 DEF Succeed, Run, Goto, header, redis, progress, TypeOK, Steps, Ended, Counted, AtMost, Explained
<1>8. ASSUME NEW r \in Requests, Decline(r) PROVE Counted'
  BY <1>8 DEF Decline, Run, Goto, header, redis, progress, TypeOK, Steps, Ended, Counted, AtMost, Explained
<1>9. ASSUME NEW r \in Requests, Raise(r) PROVE Counted'
  BY <1>9 DEF Raise, Run, Meet, Goto, header, redis, progress, TypeOK, Steps, Ended, Counted, AtMost, Explained
<1>10. ASSUME NEW r \in Requests, BodyIsGone(r) PROVE Counted'
  BY <1>10 DEF BodyIsGone, Goto, header, redis, progress, TypeOK, Steps, Ended, Counted, AtMost, Explained
<1>11. ASSUME NEW r \in Requests, Die(r) PROVE Counted'
  BY <1>11 DEF Die, Goto, Active, header, redis, progress, TypeOK, Steps, Ended, Counted, AtMost, Explained
<1>12. ASSUME NEW k \in Keys, Elapse(k) PROVE Counted'
  BY <1>12 DEF Elapse, header, redis, progress, TypeOK, Steps, Ended, Counted, AtMost, Explained
<1>13. CASE UNCHANGED vars
  BY <1>13 DEF vars, header, redis, progress, TypeOK, Steps, Ended, Counted, AtMost, Explained
<1> QED
  BY <1>1, <1>2, <1>3, <1>4, <1>5, <1>6, <1>7,
     <1>8, <1>9, <1>10, <1>11, <1>12, <1>13 DEF Next, Step

LEMMA ProducedStep == ASSUME TypeOK, Counted, Produced, [Next]_vars PROVE Produced'
<1>1. ASSUME NEW r \in Requests, NEW k \in Keys, NEW b \in Bodies, Arrive(r, k, b)
      PROVE  Produced'
  BY <1>1 DEF Arrive, Goto, header, redis, progress, TypeOK, Steps, Ended, Produced
<1>2. ASSUME NEW r \in Requests, Lookup(r) PROVE Produced'
  BY <1>2 DEF Lookup, Goto, header, redis, progress, TypeOK, Steps, Ended, Produced
<1>3. ASSUME NEW r \in Requests, Bypass(r) PROVE Produced'
  BY <1>3 DEF Bypass, Goto, Meet, header, redis, progress, TypeOK, Steps, Ended, Produced
<1>4. ASSUME NEW r \in Requests, LookupFails(r) PROVE Produced'
  BY <1>4 DEF LookupFails, Goto, Meet, header, redis, progress, TypeOK, Steps, Ended, Produced
<1>5. ASSUME NEW r \in Requests, Save(r) PROVE Produced'
  BY <1>5 DEF Save, Goto, Meet, header, redis, progress, TypeOK, Steps, Ended, Produced
<1>6. ASSUME NEW r \in Requests, Expire(r) PROVE Produced'
  BY <1>6 DEF Expire, Goto, Meet, header, redis, progress, TypeOK, Steps, Ended, Produced
<1>7. ASSUME NEW r \in Requests, Succeed(r) PROVE Produced'
  BY <1>7 DEF Succeed, Run, Goto, header, redis, progress, TypeOK, Steps, Ended, Produced
<1>8. ASSUME NEW r \in Requests, Decline(r) PROVE Produced'
  BY <1>8 DEF Decline, Run, Goto, header, redis, progress, TypeOK, Steps, Ended, Produced
<1>9. ASSUME NEW r \in Requests, Raise(r) PROVE Produced'
  BY <1>9 DEF Raise, Run, Meet, Goto, header, redis, progress, TypeOK, Steps, Ended, Produced
<1>10. ASSUME NEW r \in Requests, BodyIsGone(r) PROVE Produced'
  BY <1>10 DEF BodyIsGone, Goto, header, redis, progress, TypeOK, Steps, Ended, Produced
<1>11. ASSUME NEW r \in Requests, Die(r) PROVE Produced'
  BY <1>11 DEF Die, Goto, Active, header, redis, progress, TypeOK, Steps, Ended, Produced
<1>12. ASSUME NEW k \in Keys, Elapse(k) PROVE Produced'
  BY <1>12 DEF Elapse, header, redis, progress, TypeOK, Steps, Ended, Produced
<1>13. CASE UNCHANGED vars
  BY <1>13 DEF vars, header, redis, progress, TypeOK, Steps, Ended, Produced
<1> QED
  BY <1>1, <1>2, <1>3, <1>4, <1>5, <1>6, <1>7,
     <1>8, <1>9, <1>10, <1>11, <1>12, <1>13 DEF Next, Step

LEMMA KeptStep == ASSUME TypeOK, Produced, Kept, [Next]_vars PROVE Kept'
<1> USE NoRequestAssumption
<1>1. ASSUME NEW r \in Requests, NEW k \in Keys, NEW b \in Bodies, Arrive(r, k, b)
      PROVE  Kept'
  BY <1>1 DEF Arrive, Goto, header, redis, progress, TypeOK, Steps, Ended, Kept, Produced, Active
<1>2. ASSUME NEW r \in Requests, Lookup(r) PROVE Kept'
  BY <1>2 DEF Lookup, Goto, header, redis, progress, TypeOK, Steps, Ended, Kept, Produced, Active
<1>3. ASSUME NEW r \in Requests, Bypass(r) PROVE Kept'
  BY <1>3 DEF Bypass, Goto, Meet, header, redis, progress, TypeOK, Steps, Ended, Kept, Produced, Active
<1>4. ASSUME NEW r \in Requests, LookupFails(r) PROVE Kept'
  BY <1>4 DEF LookupFails, Goto, Meet, header, redis, progress, TypeOK, Steps, Ended, Kept, Produced, Active
<1>5. ASSUME NEW r \in Requests, Save(r) PROVE Kept'
  BY <1>5 DEF Save, Goto, Meet, header, redis, progress, TypeOK, Steps, Ended, Kept, Produced, Active
<1>6. ASSUME NEW r \in Requests, Expire(r) PROVE Kept'
  <2>1. key[r] \in Keys /\ body[r] \in Bodies /\ at[r] = "expire" /\ UNCHANGED <<header, saved, runs>>
    BY <1>6 DEF Expire, Produced
  <2>2. r \in retry => "redis" \in trouble[r]
    BY <2>1 DEF Kept, Active, Ended
  <2>3. /\ at' \in {[at EXCEPT ![r] = "answered"], [at EXCEPT ![r] = "again"]}
        /\ \A q \in Requests : trouble[q] \subseteq trouble'[q]
    BY <1>6 DEF Expire, Goto, Meet, TypeOK
  <2>4. \A q \in retry' :
          /\ at'[q] # "idle"
          /\ "redis" \notin trouble'[q] =>
               /\ runs'[q] = 0
               /\ Active(q)' => at'[q] = "lookup" /\ saved'[key'[q]] # NoRequest
    BY <2>1, <2>2, <2>3 DEF Kept, Active, TypeOK, header, Ended
  <2>5. saved[key[r]] # NoRequest
    BY <2>1 DEF Kept
  <2>6. \A k \in Keys, b \in Bodies : <<k, b>> \in promised' => saved'[k] # NoRequest
    BY <1>6, <2>1, <2>5 DEF Expire, Kept
  <2>7. \A q \in Requests : at'[q] = "expire" => saved'[key'[q]] # NoRequest
    BY <2>1, <2>3 DEF Kept, TypeOK, header
  <2> QED
    BY <2>4, <2>6, <2>7 DEF Kept
<1>7. ASSUME NEW r \in Requests, Succeed(r) PROVE Kept'
  BY <1>7 DEF Succeed, Run, Goto, header, redis, progress, TypeOK, Steps, Ended, Kept, Produced, Active
<1>8. ASSUME NEW r \in Requests, Decline(r) PROVE Kept'
  BY <1>8 DEF Decline, Run, Goto, header, redis, progress, TypeOK, Steps, Ended, Kept, Produced, Active
<1>9. ASSUME NEW r \in Requests, Raise(r) PROVE Kept'
  BY <1>9 DEF Raise, Run, Meet, Goto, header, redis, progress, TypeOK, Steps, Ended, Kept, Produced, Active
<1>10. ASSUME NEW r \in Requests, BodyIsGone(r) PROVE Kept'
  BY <1>10 DEF BodyIsGone, Goto, header, redis, progress, TypeOK, Steps, Ended, Kept, Produced, Active
<1>11. ASSUME NEW r \in Requests, Die(r) PROVE Kept'
  BY <1>11 DEF Die, Goto, Active, header, redis, progress, TypeOK, Steps, Ended, Kept, Produced, Active
<1>12. ASSUME NEW k \in Keys, Elapse(k) PROVE Kept'
  BY <1>12 DEF Elapse, header, redis, progress, TypeOK, Steps, Ended, Kept, Produced, Active
<1>13. CASE UNCHANGED vars
  BY <1>13 DEF vars, header, redis, progress, TypeOK, Steps, Ended, Kept, Produced, Active
<1> QED
  BY <1>1, <1>2, <1>3, <1>4, <1>5, <1>6, <1>7,
     <1>8, <1>9, <1>10, <1>11, <1>12, <1>13 DEF Next, Step

LEMMA GenuineStep ==
  ASSUME TypeOK, Produced, AnswersAreGenuine, [Next]_vars PROVE AnswersAreGenuine'
<1> USE NoRequestAssumption
<1>1. ASSUME NEW r \in Requests, NEW k \in Keys, NEW b \in Bodies, Arrive(r, k, b)
      PROVE  AnswersAreGenuine'
  BY <1>1 DEF Arrive, Goto, header, redis, progress, TypeOK, Steps, Ended, AnswersAreGenuine, Produced
<1>2. ASSUME NEW r \in Requests, Lookup(r) PROVE AnswersAreGenuine'
  BY <1>2 DEF Lookup, Goto, header, redis, progress, TypeOK, Steps, Ended, AnswersAreGenuine, Produced
<1>3. ASSUME NEW r \in Requests, Bypass(r) PROVE AnswersAreGenuine'
  BY <1>3 DEF Bypass, Goto, Meet, header, redis, progress, TypeOK, Steps, Ended, AnswersAreGenuine, Produced
<1>4. ASSUME NEW r \in Requests, LookupFails(r) PROVE AnswersAreGenuine'
  BY <1>4 DEF LookupFails, Goto, Meet, header, redis, progress, TypeOK, Steps, Ended, AnswersAreGenuine, Produced
<1>5. ASSUME NEW r \in Requests, Save(r) PROVE AnswersAreGenuine'
  BY <1>5 DEF Save, Goto, Meet, header, redis, progress, TypeOK, Steps, Ended, AnswersAreGenuine, Produced
<1>6. ASSUME NEW r \in Requests, Expire(r) PROVE AnswersAreGenuine'
  BY <1>6 DEF Expire, Goto, Meet, header, redis, progress, TypeOK, Steps, Ended, AnswersAreGenuine, Produced
<1>7. ASSUME NEW r \in Requests, Succeed(r) PROVE AnswersAreGenuine'
  BY <1>7 DEF Succeed, Run, Goto, header, redis, progress, TypeOK, Steps, Ended, AnswersAreGenuine, Produced
<1>8. ASSUME NEW r \in Requests, Decline(r) PROVE AnswersAreGenuine'
  BY <1>8 DEF Decline, Run, Goto, header, redis, progress, TypeOK, Steps, Ended, AnswersAreGenuine, Produced
<1>9. ASSUME NEW r \in Requests, Raise(r) PROVE AnswersAreGenuine'
  BY <1>9 DEF Raise, Run, Meet, Goto, header, redis, progress, TypeOK, Steps, Ended, AnswersAreGenuine, Produced
<1>10. ASSUME NEW r \in Requests, BodyIsGone(r) PROVE AnswersAreGenuine'
  BY <1>10 DEF BodyIsGone, Goto, header, redis, progress, TypeOK, Steps, Ended, AnswersAreGenuine, Produced
<1>11. ASSUME NEW r \in Requests, Die(r) PROVE AnswersAreGenuine'
  BY <1>11 DEF Die, Goto, Active, header, redis, progress, TypeOK, Steps, Ended, AnswersAreGenuine, Produced
<1>12. ASSUME NEW k \in Keys, Elapse(k) PROVE AnswersAreGenuine'
  BY <1>12 DEF Elapse, header, redis, progress, TypeOK, Steps, Ended, AnswersAreGenuine, Produced
<1>13. CASE UNCHANGED vars
  BY <1>13 DEF vars, header, redis, progress, TypeOK, Steps, Ended, AnswersAreGenuine, Produced
<1> QED
  BY <1>1, <1>2, <1>3, <1>4, <1>5, <1>6, <1>7,
     <1>8, <1>9, <1>10, <1>11, <1>12, <1>13 DEF Next, Step

LEMMA ExpireStep ==
  ASSUME TypeOK, Produced, SavedAnswersExpire, [Next]_vars PROVE SavedAnswersExpire'
<1> USE NoRequestAssumption
<1>1. ASSUME NEW r \in Requests, NEW k \in Keys, NEW b \in Bodies, Arrive(r, k, b)
      PROVE  SavedAnswersExpire'
  BY <1>1 DEF Arrive, Goto, header, redis, progress, TypeOK, Steps, Ended, SavedAnswersExpire, Produced
<1>2. ASSUME NEW r \in Requests, Lookup(r) PROVE SavedAnswersExpire'
  BY <1>2 DEF Lookup, Goto, header, redis, progress, TypeOK, Steps, Ended, SavedAnswersExpire, Produced
<1>3. ASSUME NEW r \in Requests, Bypass(r) PROVE SavedAnswersExpire'
  BY <1>3 DEF Bypass, Goto, Meet, header, redis, progress, TypeOK, Steps, Ended, SavedAnswersExpire, Produced
<1>4. ASSUME NEW r \in Requests, LookupFails(r) PROVE SavedAnswersExpire'
  BY <1>4 DEF LookupFails, Goto, Meet, header, redis, progress, TypeOK, Steps, Ended, SavedAnswersExpire, Produced
<1>5. ASSUME NEW r \in Requests, Save(r) PROVE SavedAnswersExpire'
  BY <1>5 DEF Save, Goto, Meet, header, redis, progress, TypeOK, Steps, Ended, SavedAnswersExpire, Produced
<1>6. ASSUME NEW r \in Requests, Expire(r) PROVE SavedAnswersExpire'
  BY <1>6 DEF Expire, Goto, Meet, header, redis, progress, TypeOK, Steps, Ended, SavedAnswersExpire, Produced
<1>7. ASSUME NEW r \in Requests, Succeed(r) PROVE SavedAnswersExpire'
  BY <1>7 DEF Succeed, Run, Goto, header, redis, progress, TypeOK, Steps, Ended, SavedAnswersExpire, Produced
<1>8. ASSUME NEW r \in Requests, Decline(r) PROVE SavedAnswersExpire'
  BY <1>8 DEF Decline, Run, Goto, header, redis, progress, TypeOK, Steps, Ended, SavedAnswersExpire, Produced
<1>9. ASSUME NEW r \in Requests, Raise(r) PROVE SavedAnswersExpire'
  BY <1>9 DEF Raise, Run, Meet, Goto, header, redis, progress, TypeOK, Steps, Ended, SavedAnswersExpire, Produced
<1>10. ASSUME NEW r \in Requests, BodyIsGone(r) PROVE SavedAnswersExpire'
  BY <1>10 DEF BodyIsGone, Goto, header, redis, progress, TypeOK, Steps, Ended, SavedAnswersExpire, Produced
<1>11. ASSUME NEW r \in Requests, Die(r) PROVE SavedAnswersExpire'
  BY <1>11 DEF Die, Goto, Active, header, redis, progress, TypeOK, Steps, Ended, SavedAnswersExpire, Produced
<1>12. ASSUME NEW k \in Keys, Elapse(k) PROVE SavedAnswersExpire'
  BY <1>12 DEF Elapse, header, redis, progress, TypeOK, Steps, Ended, SavedAnswersExpire, Produced
<1>13. CASE UNCHANGED vars
  BY <1>13 DEF vars, header, redis, progress, TypeOK, Steps, Ended, SavedAnswersExpire, Produced
<1> QED
  BY <1>1, <1>2, <1>3, <1>4, <1>5, <1>6, <1>7,
     <1>8, <1>9, <1>10, <1>11, <1>12, <1>13 DEF Next, Step

LEMMA Invariant == Spec => []IInv
<1>1. Init => IInv
  BY DEF Init, IInv, TypeOK, Counted, AtMost, Explained, Produced, Kept, AnswersAreGenuine,
         SavedAnswersExpire, Steps, Ended
<1>2. IInv /\ [Next]_vars => IInv'
  BY TypeStep, CountedStep, ProducedStep, KeptStep, GenuineStep, ExpireStep DEF IInv
<1> QED
  BY <1>1, <1>2, PTL DEF Spec

\* The state of the requests and of Redis stays in its ranges.
THEOREM TypeCorrect == Spec => []TypeOK
<1>1. IInv => TypeOK
  BY DEF IInv
<1> QED
  BY <1>1, Invariant, PTL

\* A handler runs at most four times for a request, and more than once only
\* after a failure.
THEOREM RunsExplained == Spec => []RunsAreExplained
<1>1. IInv => RunsAreExplained
  BY DEF IInv, Counted, AtMost, Explained, RunsAreExplained
<1> QED
  BY <1>1, Invariant, PTL

\* Every answer comes from a run for the same key and body.
THEOREM AnswersGenuine == Spec => []AnswersAreGenuine
<1>1. IInv => AnswersAreGenuine
  BY DEF IInv
<1> QED
  BY <1>1, Invariant, PTL

\* A request repeated after its answer, before the key expires, does not run
\* the handler.
THEOREM RetriesAreSafe == Spec => []RetriesDoNotRun
<1>1. IInv => RetriesDoNotRun
  BY DEF IInv, Kept, RetriesDoNotRun
<1> QED
  BY <1>1, Invariant, PTL

\* An answer that does not expire was left by a request that was cut off.
THEOREM AnswersExpire == Spec => []SavedAnswersExpire
<1>1. IInv => SavedAnswersExpire
  BY DEF IInv
<1> QED
  BY <1>1, Invariant, PTL

-----------------------------------------------------------------------------
(***************************************************************************)
(* TokenBucket: the invariant                                              *)
(***************************************************************************)
\* Sums are easier to reason about than products.
Parts(tokens) == tokens * Period
Refill(ticks) == ticks * Capacity

Charged  == {"expire", "admitted", "cut"}
Since(u) == Cardinality(AdmittedSince(u))

BucketCalls ==
  [at : BucketEnded \cup {"idle", "read", "write", "expire"}, level : 0..Full,
   read : 0..MaxTime, seen : Nat]

BucketType ==
  /\ now \in 0..MaxTime
  /\ bucket \in [level : 0..Full, last : 0..MaxTime, expires : Nat]
  /\ call \in [Consumers -> BucketCalls]
  /\ lost \in Nat
  /\ given \in Nat
  /\ IsFiniteSet(AdmittedSince(-1))
  /\ bucket.last <= now
  /\ \A r \in Consumers : call[r].read <= now

\* What the user was given beside a full bucket and its refill.
Credit == Parts(lost) + given

\* What was given and what is left do not exceed what there was by the time
\* the bucket was refilled last ...
Balance == Parts(Admitted) + bucket.level <= Full + Refill(bucket.last) + Credit

\* ... nor, when the bucket is written, by the time its writer has read; the
\* admissions since it read the bucket will be counted as lost.
Paid(r) ==
  call[r].at = "write" =>
    /\ call[r].seen <= Admitted
    /\ Parts(call[r].seen) + Period + call[r].level <= Full + Refill(call[r].read) + Credit

\* When its key expires a full bucket is no gift, unless a write is to set the
\* expiry.
Closing == \E r \in Consumers : call[r].at = "expire"
Timely  == (Alive /\ Closing) \/ Parts(Admitted) <= Refill(bucket.expires) + Credit

\* Nobody was let in with a later time than m: by m the bucket lacks at most
\* what was admitted in the Period before any time up to m.
Latest(m) == \A q \in AdmittedSince(-1) : call[q].read <= m
Spared ==
  Alive => \A t, m \in Int : t <= m /\ Latest(m) =>
    bucket.level + Refill(m) - Refill(bucket.last) + Parts(Since(t - Period)) >= Full
Spares(r) ==
  call[r].at = "write" =>
    \A t, m \in Int : t <= m /\ Latest(m) /\ call[r].read <= m =>
      call[r].level + Period + Refill(m) - Refill(call[r].read)
        + Parts(Since(t - Period)) >= Full

BucketIInv ==
  /\ BucketType /\ Balance /\ Timely /\ Spared
  /\ \A r \in Consumers : Paid(r) /\ Spares(r)
-----------------------------------------------------------------------------
LEMMA Quantities ==
  /\ Capacity \in Nat \ {0} /\ Period \in Nat \ {0} /\ MaxTime \in Nat
  /\ Full \in Nat /\ Period <= Full
  /\ Parts(0) = 0 /\ Parts(1) = Period /\ Refill(0) = 0 /\ Refill(1) = Capacity
  /\ Refill(Period) = Full
<1>1. Capacity \in Nat \ {0} /\ Period \in Nat \ {0} /\ MaxTime \in Nat
  BY CapacityAssumption, BucketTimeAssumption
<1>2. Full \in Nat /\ Period <= Full
  BY <1>1 DEF Full
<1>3. Refill(Period) = Full
  BY <1>1 DEF Refill, Full
<1>4. Parts(0) = 0 /\ Parts(1) = Period /\ Refill(0) = 0 /\ Refill(1) = Capacity
  BY <1>1 DEF Parts, Refill
<1> QED BY <1>1, <1>2, <1>3, <1>4

LEMMA PartsSum ==
  ASSUME NEW a \in Int, NEW b \in Int
  PROVE  /\ Parts(a) \in Int /\ Parts(b) \in Int
         /\ Parts(a + b) = Parts(a) + Parts(b)
         /\ Parts(a - b) = Parts(a) - Parts(b)
         /\ a <= b => Parts(a) <= Parts(b)
BY CapacityAssumption DEF Parts

LEMMA PartsMonotonic ==
  \A a, b \in Nat :
    a <= b => Parts(a) \in Int /\ Parts(b) \in Int /\ Parts(a) <= Parts(b)
BY PartsSum

LEMMA RefillSum ==
  ASSUME NEW a \in Int, NEW b \in Int
  PROVE  /\ Refill(a) \in Int /\ Refill(b) \in Int
         /\ Refill(a + b) = Refill(a) + Refill(b)
         /\ Refill(a - b) = Refill(a) - Refill(b)
         /\ a <= b => Refill(a) <= Refill(b)
BY CapacityAssumption DEF Refill

\* What is left of a difference.
LEMMA Added ==
  \A a, b, x, y, f \in Int : b = a + (y - x) /\ y >= x + f => b >= a + f
OBVIOUS

LEMMA Lesser ==
  ASSUME NEW a \in Int, NEW b \in Int
  PROVE  Min({a, b}) = IF a <= b THEN a ELSE b
BY DEF Min

\* The bucket, and what it amounts to at a time.
LEMMA BucketIs ==
  ASSUME BucketType
  PROVE  /\ bucket.level \in Nat /\ bucket.level <= Full
         /\ bucket.last \in Nat /\ bucket.expires \in Nat /\ bucket.last <= now /\ now \in Nat
         /\ lost \in Nat /\ given \in Nat /\ Credit \in Int
         /\ \A a \in Nat : Refill(a) \in Nat /\ Parts(a) \in Nat
         /\ \A time \in Int :
              /\ Refill(time) \in Int /\ Refilled(time) \in Int
              /\ Refilled(time) <= bucket.level + Refill(time) - Refill(bucket.last)
              /\ Refilled(time) = Full
                 \/ Refilled(time) = bucket.level + Refill(time) - Refill(bucket.last)
              /\ Refilled(time) <= Full
<1>1. /\ bucket.level \in Nat /\ bucket.level <= Full /\ Full \in Nat
      /\ bucket.last \in Nat /\ bucket.expires \in Nat /\ bucket.last <= now /\ now \in Nat
      /\ lost \in Nat /\ given \in Nat
  BY Quantities DEF BucketType
<1>2. \A a \in Nat : Refill(a) \in Nat /\ Parts(a) \in Nat
  <2> SUFFICES ASSUME NEW a \in Nat PROVE Refill(a) \in Nat /\ Parts(a) \in Nat
    OBVIOUS
  <2>1. 0 \in Int /\ a \in Int /\ 0 <= a
    OBVIOUS
  <2>2. Refill(0) <= Refill(a) /\ Refill(a) \in Int
    BY ONLY <2>1, RefillSum
  <2>3. Parts(0) <= Parts(a) /\ Parts(a) \in Int
    BY ONLY <2>1, PartsSum
  <2> QED BY <2>2, <2>3, Quantities
<1>3. Credit \in Int
  BY <1>1, <1>2 DEF Credit
<1>4. ASSUME NEW time \in Int
      PROVE  /\ Refill(time) \in Int /\ Refilled(time) \in Int
             /\ Refilled(time) <= bucket.level + Refill(time) - Refill(bucket.last)
             /\ Refilled(time) = Full
                \/ Refilled(time) = bucket.level + Refill(time) - Refill(bucket.last)
             /\ Refilled(time) <= Full
  <2>1. bucket.last \in Int
    BY <1>1
  <2>2. /\ Refill(time) \in Int /\ Refill(bucket.last) \in Int
        /\ Refill(time - bucket.last) = Refill(time) - Refill(bucket.last)
    BY <2>1, RefillSum
  <2> DEFINE x == bucket.level + Refill(time - bucket.last)
  <2>3. Refilled(time) = Min({Full, x})
    BY DEF Refilled, Refill
  <2>4. x \in Int /\ x = bucket.level + Refill(time) - Refill(bucket.last)
    BY <1>1, <2>2
  <2> HIDE DEF x, Full
  <2>5. Min({Full, x}) = IF Full <= x THEN Full ELSE x
    BY <1>1, <2>4, Lesser
  <2> QED BY <1>1, <2>2, <2>3, <2>4, <2>5
<1> QED BY <1>1, <1>2, <1>3, <1>4
-----------------------------------------------------------------------------
(***************************************************************************)
(* Who has been let in                                                     *)
(***************************************************************************)
LEMMA SinceType ==
  ASSUME BucketType
  PROVE  /\ Admitted = Since(-1) /\ Admitted \in Nat
         /\ \A u \in Int : IsFiniteSet(AdmittedSince(u)) /\ Since(u) \in Nat
<1>1. ASSUME NEW u \in Int
      PROVE  IsFiniteSet(AdmittedSince(u)) /\ Since(u) \in Nat
  <2>1. \A r \in Consumers : call[r].read > -1
    BY Quantities DEF BucketType, BucketCalls
  <2>2. AdmittedSince(u) \subseteq AdmittedSince(-1)
    BY <2>1 DEF AdmittedSince
  <2>3. IsFiniteSet(AdmittedSince(u))
    BY <2>2, FS_Subset DEF BucketType
  <2> QED BY <2>3, FS_CardinalityType DEF Since
<1> QED BY <1>1 DEF Admitted, Since

\* A step of r that does not let it in.
LEMMA NobodyMore ==
  ASSUME BucketType, NEW r \in Consumers,
         \A q \in Consumers \ {r} : call'[q] = call[q],
         call[r].at \in Charged <=> call'[r].at \in Charged,
         call'[r].at \in Charged => call'[r].read = call[r].read
  PROVE  /\ \A u \in Int : Since(u)' = Since(u)
         /\ Admitted' = Admitted /\ IsFiniteSet(AdmittedSince(-1))'
<1>1. ASSUME NEW u \in Int
      PROVE  AdmittedSince(u)' = AdmittedSince(u)
  BY DEF AdmittedSince, Charged
<1>2. AdmittedSince(-1)' = AdmittedSince(-1)
  BY <1>1
<1> QED BY <1>1, <1>2 DEF Since, Admitted, BucketType

\* One that does.
LEMMA OneMore ==
  ASSUME BucketType, NEW r \in Consumers,
         \A q \in Consumers \ {r} : call'[q] = call[q],
         call[r].at \notin Charged, call'[r].at \in Charged, call'[r].read \in Nat
  PROVE  /\ \A u \in Int :
              Since(u)' = IF call'[r].read > u THEN Since(u) + 1 ELSE Since(u)
         /\ Admitted' = Admitted + 1 /\ IsFiniteSet(AdmittedSince(-1))'
<1>1. ASSUME NEW u \in Int, call'[r].read > u
      PROVE  /\ AdmittedSince(u)' = AdmittedSince(u) \cup {r}
             /\ r \notin AdmittedSince(u)
  BY <1>1 DEF AdmittedSince, Charged
<1>2. ASSUME NEW u \in Int, ~(call'[r].read > u)
      PROVE  AdmittedSince(u)' = AdmittedSince(u)
  BY <1>2 DEF AdmittedSince, Charged
<1>3. ASSUME NEW u \in Int
      PROVE  Since(u)' = IF call'[r].read > u THEN Since(u) + 1 ELSE Since(u)
  <2>1. CASE call'[r].read > u
    <3>1. IsFiniteSet(AdmittedSince(u))
      BY SinceType
    <3>2. Cardinality(AdmittedSince(u) \cup {r}) = Cardinality(AdmittedSince(u)) + 1
      BY <1>1, <2>1, <3>1, FS_AddElement
    <3> QED BY <1>1, <2>1, <3>2 DEF Since
  <2>2. CASE ~(call'[r].read > u)
    BY <1>2, <2>2 DEF Since
  <2> QED BY <2>1, <2>2
<1>4. call'[r].read > -1
  OBVIOUS
<1>5. Since(-1)' = Since(-1) + 1
  BY <1>3, <1>4
<1>6. AdmittedSince(-1)' = AdmittedSince(-1) \cup {r}
  BY <1>1, <1>4
<1>7. IsFiniteSet(AdmittedSince(-1) \cup {r})
  BY FS_AddElement DEF BucketType
<1> QED BY <1>3, <1>5, <1>6, <1>7 DEF Since, Admitted

-----------------------------------------------------------------------------
(***************************************************************************)
(* The steps                                                               *)
(***************************************************************************)
LEMMA OneCallOnly ==
  ASSUME BucketType, NEW r \in Consumers, NEW c \in BucketCalls, c.read <= now,
         call' = [call EXCEPT ![r] = c]
  PROVE  /\ call' \in [Consumers -> BucketCalls]
         /\ call'[r] = c
         /\ \A q \in Consumers \ {r} : call'[q] = call[q]
         /\ \A q \in Consumers : call'[q].read <= now
BY DEF BucketType

LEMMA Moved ==
  ASSUME BucketType, NEW r \in Consumers, NEW step \in BucketEnded \cup {"expire"},
         MoveTo(r, step)
  PROVE  /\ call' \in [Consumers -> BucketCalls]
         /\ call'[r].at = step /\ call'[r].read = call[r].read
         /\ \A q \in Consumers \ {r} : call'[q] = call[q]
         /\ \A q \in Consumers : call'[q].read <= now
<1> DEFINE c == [Idle EXCEPT !.at = step, !.read = call[r].read]
<1>1. call[r].read \in 0..MaxTime /\ call[r].read <= now
  BY DEF BucketType, BucketCalls
<1>2. Idle \in BucketCalls
  BY Quantities DEF Idle, BucketCalls, BucketEnded
<1>3. c \in BucketCalls /\ c.at = step /\ c.read = call[r].read
  BY <1>1, <1>2 DEF BucketCalls
<1>4. call' = [call EXCEPT ![r] = c]
  BY DEF MoveTo
<1> HIDE DEF c
<1> QED BY <1>1, <1>3, <1>4, OneCallOnly

\* Nothing that was said of those let in, and what is left, is undone when more
\* are let in or given: of the bucket while it stays, and of the other requests.
LEMMA StillSpared ==
  ASSUME BucketIInv, UNCHANGED <<bucket.level, bucket.last>>, Alive' => Alive,
         \A u \in Int : Since(u)' \in Nat /\ Since(u) <= Since(u)',
         \A m \in Int : Latest(m)' => Latest(m)
  PROVE  Spared'
<1>0. BucketType /\ Spared
  BY DEF BucketIInv
<1> SUFFICES ASSUME Alive', NEW t \in Int, NEW m \in Int, t <= m, Latest(m)'
             PROVE  bucket.level + Refill(m) - Refill(bucket.last) + Parts(Since(t - Period)') >= Full
  BY DEF Spared
<1>1. bucket.level + Refill(m) - Refill(bucket.last) + Parts(Since(t - Period)) >= Full
  BY <1>0 DEF Spared
<1>2. t - Period \in Int
  BY Quantities
<1>3. Since(t - Period) \in Nat /\ Since(t - Period)' \in Nat
      /\ Since(t - Period) <= Since(t - Period)'
  BY <1>0, <1>2, SinceType
<1>4. /\ Parts(Since(t - Period)) \in Int /\ Parts(Since(t - Period)') \in Int
      /\ Parts(Since(t - Period)) <= Parts(Since(t - Period)')
  BY <1>3, PartsSum
<1>5. bucket.level \in Int /\ bucket.last \in Int /\ Refill(m) \in Int /\ Refill(bucket.last) \in Int
  BY <1>0, BucketIs
<1> QED BY <1>1, <1>4, <1>5, Quantities

LEMMA OthersStay ==
  ASSUME BucketIInv, NEW q \in Consumers, call'[q] = call[q],
         Admitted' \in Nat, Admitted <= Admitted',
         \A u \in Int : Since(u)' \in Nat /\ Since(u) <= Since(u)',
         \A m \in Int : Latest(m)' => Latest(m),
         Credit' \in Int, Credit <= Credit'
  PROVE  Paid(q)' /\ Spares(q)'
<1> SUFFICES ASSUME call[q].at = "write"
             PROVE  Paid(q)' /\ Spares(q)'
  BY DEF Paid, Spares
<1>0. BucketType /\ Paid(q) /\ Spares(q)
  BY DEF BucketIInv
<1>1. call[q].level \in Nat /\ call[q].read \in Nat /\ call[q].seen \in Nat /\ Credit \in Int
      /\ Admitted \in Nat
  <2>1. call[q] \in BucketCalls
    BY <1>0 DEF BucketType
  <2>2. call[q].level \in Nat /\ call[q].read \in Nat /\ call[q].seen \in Nat
    BY <2>1, Quantities DEF BucketCalls
  <2> QED BY <1>0, <2>2, BucketIs, SinceType
<1>2. Parts(call[q].seen) \in Int /\ Refill(call[q].read) \in Int
  BY <1>0, <1>1, BucketIs
<1>3. Paid(q)'
  <2>1. /\ call[q].seen <= Admitted
        /\ Parts(call[q].seen) + Period + call[q].level <= Full + Refill(call[q].read) + Credit
    BY <1>0 DEF Paid
  <2>2. call[q].seen <= Admitted'
    BY <1>1, <2>1
  <2>3. Parts(call[q].seen) + Period + call[q].level <= Full + Refill(call[q].read) + Credit'
    BY <1>1, <1>2, <2>1, Quantities
  <2> QED BY <2>2, <2>3 DEF Paid
<1>4. Spares(q)'
  <2> SUFFICES ASSUME NEW t \in Int, NEW m \in Int, t <= m, Latest(m)', call[q].read <= m
               PROVE  call[q].level + Period + Refill(m) - Refill(call[q].read)
                        + Parts(Since(t - Period)') >= Full
    BY DEF Spares
  <2>1. call[q].level + Period + Refill(m) - Refill(call[q].read)
          + Parts(Since(t - Period)) >= Full
    BY <1>0 DEF Spares
  <2>2. t - Period \in Int
    BY Quantities
  <2>3. Since(t - Period) \in Nat /\ Since(t - Period)' \in Nat
        /\ Since(t - Period) <= Since(t - Period)'
    BY <1>0, <2>2, SinceType
  <2>4. /\ Parts(Since(t - Period)) \in Int /\ Parts(Since(t - Period)') \in Int
        /\ Parts(Since(t - Period)) <= Parts(Since(t - Period)')
    BY ONLY <2>3, PartsMonotonic
  <2>5. Refill(m) \in Int
    BY <1>0, BucketIs
  <2> QED BY <1>1, <1>2, <2>1, <2>4, <2>5, Quantities
<1> QED BY <1>3, <1>4

LEMMA CreditGrows ==
  ASSUME BucketType, lost' \in Nat, lost <= lost', given' \in Nat, given <= given'
  PROVE  /\ Credit' \in Int /\ Credit <= Credit'
         /\ Credit' = Credit + Parts(lost' - lost) + (given' - given)
<1>1. lost \in Nat /\ given \in Nat
  BY DEF BucketType
<1>2. lost \in Int /\ lost' \in Int
  BY ONLY <1>1, lost' \in Nat
<1>3. /\ Parts(lost) \in Int /\ Parts(lost') \in Int /\ Parts(lost) <= Parts(lost')
      /\ Parts(lost' - lost) = Parts(lost') - Parts(lost)
  BY <1>2, PartsSum
<1>4. Credit = Parts(lost) + given /\ Credit' = Parts(lost') + given'
  BY DEF Credit
<1> QED BY <1>1, <1>3, <1>4

\* One request moves and the bucket stays: it is not let in by the step (extra
\* is 0), or let in without the bucket (1), and its token given away.
LEMMA CallMoves ==
  ASSUME BucketIInv, NEW r \in Consumers, NEW c \in BucketCalls, c.read <= now,
         call' = [call EXCEPT ![r] = c],
         UNCHANGED <<now, bucket, lost>>,
         given' \in Nat, given <= given',
         c.at # "expire",
         call[r].at \in Charged => c.at \in Charged /\ c.read = call[r].read,
         call[r].at \notin Charged /\ c.at \in Charged => given' >= given + Period,
         call[r].at = "expire" => given' >= given + Full,
         c.at = "write" =>
           /\ c.seen = Admitted /\ c.level + Period <= Full
           /\ Parts(Admitted) + Period + c.level <= Full + Refill(c.read) + Credit'
           /\ \A t, m \in Int : t <= m /\ Latest(m) /\ c.read <= m =>
                c.level + Period + Refill(m) - Refill(c.read) + Parts(Since(t - Period)) >= Full
  PROVE  BucketIInv'
<1>0. BucketType /\ Balance /\ Timely /\ Spared /\ \A q \in Consumers : Paid(q) /\ Spares(q)
  BY DEF BucketIInv
<1>1. /\ call' \in [Consumers -> BucketCalls] /\ call'[r] = c
      /\ \A q \in Consumers \ {r} : call'[q] = call[q]
      /\ \A q \in Consumers : call'[q].read <= now
  BY <1>0, OneCallOnly
<1>2. c.read \in Nat
  BY Quantities DEF BucketCalls
<1>3. /\ \A u \in Int : Since(u)' \in Nat /\ Since(u) <= Since(u)'
      /\ Admitted' \in Nat /\ IsFiniteSet(AdmittedSince(-1))'
      /\ \/ Admitted' = Admitted
         \/ Admitted' = Admitted + 1 /\ call[r].at \notin Charged /\ c.at \in Charged
      /\ c.at \notin Charged \/ call[r].at \in Charged => \A u \in Int : Since(u)' = Since(u)
      /\ Admitted \in Nat
  <2>0. Admitted \in Nat /\ \A u \in Int : Since(u) \in Nat
    BY <1>0, SinceType
  <2>1. CASE call[r].at \notin Charged /\ c.at \in Charged
    <3>1. /\ \A u \in Int : Since(u)' = IF call'[r].read > u THEN Since(u) + 1 ELSE Since(u)
          /\ Admitted' = Admitted + 1 /\ IsFiniteSet(AdmittedSince(-1))'
      BY <1>0, <1>1, <1>2, <2>1, OneMore
    <3> QED BY <2>0, <2>1, <3>1
  <2>2. CASE ~(call[r].at \notin Charged /\ c.at \in Charged)
    <3>1. call[r].at \in Charged <=> c.at \in Charged
      BY <2>2
    <3>2. /\ \A u \in Int : Since(u)' = Since(u)
          /\ Admitted' = Admitted /\ IsFiniteSet(AdmittedSince(-1))'
      BY <1>0, <1>1, <3>1, NobodyMore
    <3>3. \A u \in Int : Since(u)' \in Nat /\ Since(u) <= Since(u)'
      BY <2>0, <3>2
    <3> QED BY <2>0, <2>2, <3>2, <3>3
  <2> QED BY <2>1, <2>2
<1>4. \A m \in Int : Latest(m)' => Latest(m)
  <2>1. \A q \in AdmittedSince(-1) : q \in AdmittedSince(-1)' /\ call'[q].read = call[q].read
    BY <1>1, <1>2 DEF AdmittedSince, Charged
  <2> QED BY <2>1 DEF Latest
<1>5. BucketType'
  BY <1>0, <1>1, <1>3 DEF BucketType
<1>6. lost \in Nat /\ lost <= lost
  BY <1>0, BucketIs
<1>7. Credit' \in Int /\ Credit \in Int /\ Credit' = Credit + (given' - given) /\ given \in Nat
  <2>1. Credit' = Credit + Parts(lost - lost) + (given' - given) /\ Credit' \in Int
    BY <1>0, <1>6, CreditGrows
  <2>2. lost - lost = 0
    BY <1>6
  <2> QED BY <1>0, <2>1, <2>2, Quantities, BucketIs
<1>8. Credit <= Credit'
  BY <1>0, <1>6, CreditGrows
<1>9. Alive' = Alive
  BY DEF Alive
<1>10. Spared'
  BY <1>3, <1>4, <1>9, StillSpared
<1>11. \A q \in Consumers \ {r} : Paid(q)' /\ Spares(q)'
  <2>1. Admitted <= Admitted'
    BY <1>3
  <2> SUFFICES ASSUME NEW q \in Consumers \ {r}
               PROVE  Paid(q)' /\ Spares(q)'
    OBVIOUS
  <2>2. q \in Consumers /\ call'[q] = call[q]
    BY <1>1
  <2> QED BY <1>3, <1>4, <1>7, <1>8, <2>1, <2>2, OthersStay
<1>12. /\ Parts(Admitted) \in Int /\ Parts(Admitted') \in Int
       /\ Parts(Admitted + 1) = Parts(Admitted) + Period
       /\ Refill(bucket.last) \in Int /\ Refill(bucket.expires) \in Int
  <2>1. Admitted \in Int /\ 1 \in Int /\ Admitted' \in Int
    BY <1>3
  <2>2. Parts(Admitted + 1) = Parts(Admitted) + Parts(1) /\ Parts(Admitted) \in Int
    BY <2>1, PartsSum
  <2>3. Parts(Admitted') \in Int
    BY <2>1, PartsSum
  <2>4. bucket.last \in Int /\ bucket.expires \in Int
    BY <1>0, BucketIs
  <2> QED BY <1>0, <2>2, <2>3, <2>4, Quantities, BucketIs
<1>13. Parts(Admitted') - Parts(Admitted) <= Credit' - Credit
  <2>1. CASE Admitted' = Admitted
    BY <1>7, <1>12, <2>1
  <2>2. CASE Admitted' = Admitted + 1 /\ call[r].at \notin Charged /\ c.at \in Charged
    <3>1. Parts(Admitted') = Parts(Admitted) + Period
      BY <1>12, <2>2
    <3> QED BY <1>7, <1>12, <2>2, <3>1, Quantities
  <2> QED BY <1>3, <2>1, <2>2
<1>14. Balance'
  <2>1. Parts(Admitted) + bucket.level <= Full + Refill(bucket.last) + Credit
    BY <1>0 DEF Balance
  <2>2. bucket.level \in Nat
    BY <1>0, BucketIs
  <2>3. Parts(Admitted') + bucket.level <= Full + Refill(bucket.last) + Credit'
    BY <1>7, <1>12, <1>13, <2>1, <2>2, Quantities
  <2> QED BY <2>3 DEF Balance
<1>15. Timely'
  <2>1. CASE Alive /\ \E q \in Consumers \ {r} : call[q].at = "expire"
    BY <1>1, <1>9, <2>1 DEF Timely, Closing
  <2>2. CASE Parts(Admitted) <= Refill(bucket.expires) + Credit
    <3>1. Parts(Admitted') <= Refill(bucket.expires) + Credit'
      BY <1>7, <1>12, <1>13, <2>2
    <3> QED BY <3>1 DEF Timely
  <2>3. CASE Alive /\ call[r].at = "expire"
    <3>1. Parts(Admitted) + bucket.level <= Full + Refill(bucket.last) + Credit
      BY <1>0 DEF Balance
    <3>2. /\ bucket.level \in Nat /\ bucket.last \in Int /\ bucket.expires \in Int
          /\ bucket.last <= bucket.expires
      BY <1>0, <2>3, BucketIs DEF Alive
    <3>3. Refill(bucket.last) <= Refill(bucket.expires)
      BY <3>2, RefillSum
    <3>4. Admitted' = Admitted
      BY <1>3, <2>3 DEF Charged
    <3>5. Credit' >= Credit + Full
      <4>1. given' \in Int /\ Full \in Int /\ given \in Int /\ given' >= given + Full
        BY <1>7, <2>3, Quantities
      <4> QED BY ONLY <1>7, <4>1, Added
    <3>6. Parts(Admitted') = Parts(Admitted)
      BY <3>4
    <3>7. Parts(Admitted') <= Refill(bucket.expires) + Credit'
      BY ONLY <1>7, <1>12, <3>1, <3>2, <3>3, <3>5, <3>6, Quantities
    <3> QED BY <3>7 DEF Timely
  <2> QED BY <1>0, <2>1, <2>2, <2>3 DEF Timely, Closing
<1>16. Paid(r)'
  <2>1. CASE c.at = "write"
    <3>1. /\ c.seen = Admitted /\ Admitted' = Admitted
          /\ Parts(c.seen) + Period + c.level <= Full + Refill(c.read) + Credit'
      BY <1>3, <2>1 DEF Charged
    <3>2. c.seen <= Admitted'
      BY <1>3, <3>1
    <3> QED BY <1>1, <3>1, <3>2 DEF Paid
  <2> QED BY <1>1, <2>1 DEF Paid
<1>17. Spares(r)'
  <2> SUFFICES ASSUME c.at = "write", NEW t \in Int, NEW m \in Int, t <= m, Latest(m)', c.read <= m
               PROVE  c.level + Period + Refill(m) - Refill(c.read)
                        + Parts(Since(t - Period)') >= Full
    BY <1>1 DEF Spares
  <2>1. Latest(m)
    BY <1>4
  <2>2. t - Period \in Int
    BY Quantities
  <2>3. Since(t - Period)' = Since(t - Period)
    BY <1>3, <2>2 DEF Charged
  <2>4. c.level + Period + Refill(m) - Refill(c.read) + Parts(Since(t - Period)) >= Full
    BY <2>1
  <2> QED BY <2>3, <2>4
<1> QED BY <1>5, <1>10, <1>11, <1>14, <1>15, <1>16, <1>17 DEF BucketIInv

\* The same for a request that ends.
LEMMA CallEnds ==
  ASSUME BucketIInv, NEW r \in Consumers, NEW step \in BucketEnded, MoveTo(r, step),
         UNCHANGED <<now, bucket, lost>>,
         given' \in Nat, given <= given',
         call[r].at \in Charged => step \in Charged,
         call[r].at \notin Charged /\ step \in Charged => given' >= given + Period,
         call[r].at = "expire" => given' >= given + Full
  PROVE  BucketIInv'
<1> DEFINE c == [Idle EXCEPT !.at = step, !.read = call[r].read]
<1>1. call[r].read \in 0..MaxTime /\ call[r].read <= now
  BY DEF BucketIInv, BucketType, BucketCalls
<1>2. Idle \in BucketCalls
  BY Quantities DEF Idle, BucketCalls, BucketEnded
<1>3. c \in BucketCalls /\ c.at = step /\ c.read = call[r].read /\ c.read <= now
  BY <1>1, <1>2 DEF BucketCalls
<1>4. call' = [call EXCEPT ![r] = c]
  BY DEF MoveTo
<1>5. step # "expire" /\ step # "write"
  BY DEF BucketEnded
<1> HIDE DEF c
<1> QED BY <1>3, <1>4, <1>5, CallMoves

LEMMA ReadClockStep ==
  ASSUME BucketIInv, NEW r \in Consumers, ReadClock(r) PROVE BucketIInv'
<1> DEFINE c == [call[r] EXCEPT !.at = "read", !.read = now]
<1>1. now \in 0..MaxTime /\ call[r] \in BucketCalls /\ given \in Nat
      /\ call \in [Consumers -> BucketCalls]
  BY DEF BucketIInv, BucketType
<1>2. c \in BucketCalls /\ c.at = "read" /\ c.read <= now
  <2>1. c \in BucketCalls /\ c.at = "read" /\ c.read = now
    BY <1>1 DEF BucketCalls
  <2>2. now <= now
    BY <1>1, Quantities
  <2> QED BY <2>1, <2>2
<1>3. call' = [call EXCEPT ![r] = c]
  BY <1>1 DEF ReadClock
<1>4. call[r].at = "idle" /\ UNCHANGED <<now, bucket, lost>> /\ given' = given
  BY DEF ReadClock
<1>5. given' \in Nat /\ given <= given'
  BY <1>1, <1>4
<1>6. "idle" \notin Charged /\ "read" \notin Charged
  BY DEF Charged
<1> HIDE DEF c
<1> QED BY <1>2, <1>3, <1>4, <1>5, <1>6, CallMoves

LEMMA LetInStep ==
  ASSUME BucketIInv, NEW r \in Consumers, LetIn(r) PROVE BucketIInv'
<1> DEFINE c == [call[r] EXCEPT !.at = "admitted", !.read = now]
<1>1. now \in 0..MaxTime /\ call[r] \in BucketCalls /\ given \in Nat
      /\ call \in [Consumers -> BucketCalls]
  BY DEF BucketIInv, BucketType
<1>2. c \in BucketCalls /\ c.at = "admitted" /\ c.read <= now
  <2>1. c \in BucketCalls /\ c.at = "admitted" /\ c.read = now
    BY <1>1 DEF BucketCalls, BucketEnded
  <2>2. now <= now
    BY <1>1, Quantities
  <2> QED BY <2>1, <2>2
<1>3. call' = [call EXCEPT ![r] = c]
  BY <1>1 DEF LetIn
<1>4. call[r].at = "idle" /\ UNCHANGED <<now, bucket, lost>> /\ given' = given + Period
  BY DEF LetIn
<1>5. given' \in Nat /\ given <= given' /\ given' >= given + Period
  BY <1>1, <1>4, Quantities
<1> HIDE DEF c
<1> QED BY <1>2, <1>3, <1>4, <1>5, CallMoves DEF Charged

LEMMA DenyStep ==
  ASSUME BucketIInv, NEW r \in Consumers, Deny(r) PROVE BucketIInv'
<1>1. call[r].at = "read" /\ MoveTo(r, "denied") /\ UNCHANGED <<now, bucket, lost, given>>
  BY DEF Deny
<1>2. given' \in Nat /\ given <= given'
  BY <1>1 DEF BucketIInv, BucketType
<1>3. "denied" \in BucketEnded /\ "denied" \notin Charged /\ "read" \notin Charged
  BY DEF BucketEnded, Charged
<1> QED BY <1>1, <1>2, <1>3, CallEnds

LEMMA WriteFailsStep ==
  ASSUME BucketIInv, NEW r \in Consumers, WriteFails(r) PROVE BucketIInv'
<1>1. /\ call[r].at \in {"write", "expire"} /\ MoveTo(r, "admitted")
      /\ UNCHANGED <<now, bucket, lost>>
      /\ given' = given + IF call[r].at = "write" THEN Period ELSE Full
  BY DEF WriteFails, Unfinished
<1>2. given \in Nat
  BY DEF BucketIInv, BucketType
<1>3. given' \in Nat /\ given <= given' /\ given' >= given + Period
      /\ (call[r].at = "expire" => given' >= given + Full)
  BY <1>1, <1>2, Quantities
<1>4. "admitted" \in BucketEnded /\ "admitted" \in Charged
  BY DEF BucketEnded, Charged
<1> QED BY <1>1, <1>3, <1>4, CallEnds

LEMMA DieStep ==
  ASSUME BucketIInv, NEW r \in Consumers, DieHalfway(r) PROVE BucketIInv'
<1>1. given \in Nat
  BY DEF BucketIInv, BucketType
<1>2. CASE call[r].at = "write"
  <2>1. MoveTo(r, "dead") /\ UNCHANGED <<now, bucket, lost>> /\ given' = given + 0
    BY <1>2 DEF DieHalfway
  <2>2. given' \in Nat /\ given <= given'
    BY <1>1, <2>1
  <2>3. "dead" \in BucketEnded /\ "dead" \notin Charged /\ "write" \notin Charged
    BY DEF BucketEnded, Charged
  <2> QED BY <1>2, <2>1, <2>2, <2>3, CallEnds
<1>3. CASE call[r].at = "expire"
  <2>1. MoveTo(r, "cut") /\ UNCHANGED <<now, bucket, lost>> /\ given' = given + Full
    BY <1>3 DEF DieHalfway
  <2>2. given' \in Nat /\ given <= given' /\ given' >= given + Full
    BY <1>1, <2>1, Quantities
  <2>3. "cut" \in BucketEnded /\ "cut" \in Charged /\ "expire" \in Charged
    BY DEF BucketEnded, Charged
  <2> QED BY <1>3, <2>1, <2>2, <2>3, CallEnds
<1> QED BY <1>2, <1>3 DEF DieHalfway

\* A request that is to write has read what the bucket holds, or found none.
LEMMA ToWriteStep ==
  ASSUME BucketIInv, NEW r \in Consumers, NEW level \in Int, call[r].at = "read",
         0 <= level, level + Period <= Full, ToWrite(r, level),
         UNCHANGED <<now, bucket, lost>>, given' \in Nat, given <= given',
         Parts(Admitted) + Period + level <= Full + Refill(call[r].read) + Credit',
         \A t, m \in Int : t <= m /\ Latest(m) /\ call[r].read <= m =>
           level + Period + Refill(m) - Refill(call[r].read) + Parts(Since(t - Period)) >= Full
  PROVE  BucketIInv'
<1> DEFINE c == [at |-> "write", level |-> level, read |-> call[r].read, seen |-> Admitted]
<1>1. call[r].read \in 0..MaxTime /\ call[r].read <= now
  BY DEF BucketIInv, BucketType, BucketCalls
<1>2. Admitted \in Nat
  BY SinceType DEF BucketIInv
<1>3. level \in 0..Full
  BY Quantities
<1>4. c \in BucketCalls
  BY <1>1, <1>2, <1>3 DEF BucketCalls
<1>5. c.at = "write" /\ c.level = level /\ c.read = call[r].read /\ c.seen = Admitted
  OBVIOUS
<1>6. call' = [call EXCEPT ![r] = c]
  BY DEF ToWrite
<1>7. "read" \notin Charged /\ "write" \notin Charged
  BY DEF Charged
<1> HIDE DEF c
<1> QED BY <1>1, <1>4, <1>5, <1>6, <1>7, CallMoves

LEMMA CreditUnchanged ==
  ASSUME BucketType, UNCHANGED lost, given' \in Nat
  PROVE  Credit' = Credit + (given' - given)
<1>1. lost \in Nat /\ given \in Nat /\ Parts(lost) \in Int
  BY BucketIs
<1>2. Credit' = Parts(lost) + given' /\ Credit = Parts(lost) + given
  BY DEF Credit
<1> QED BY <1>1, <1>2

LEMMA ReadStep ==
  ASSUME BucketIInv, NEW r \in Consumers, Read(r) PROVE BucketIInv'
<1> DEFINE old == call[r].read
           level == Refilled(old) - Period
<1>0. BucketType /\ Balance /\ Spared
  BY DEF BucketIInv
<1>1. /\ call[r].at = "read" /\ Alive /\ Refilled(old) >= Period /\ ToWrite(r, level)
      /\ UNCHANGED <<now, bucket, lost, given>>
  BY DEF Read
<1>2. old \in Int
  BY <1>0, Quantities DEF BucketType, BucketCalls
<1>3. /\ Refill(old) \in Int /\ Refilled(old) \in Int
      /\ Refilled(old) <= bucket.level + Refill(old) - Refill(bucket.last)
      /\ Refilled(old) = Full \/ Refilled(old) = bucket.level + Refill(old) - Refill(bucket.last)
      /\ Refilled(old) <= Full
      /\ bucket.level \in Int /\ Refill(bucket.last) \in Int /\ Credit \in Int
      /\ Full \in Int /\ Period \in Int /\ given \in Nat
  BY <1>0, <1>2, BucketIs, Quantities
<1> HIDE DEF old
<1>4. level \in Int /\ 0 <= level /\ level + Period = Refilled(old)
  BY <1>1, <1>3
<1> HIDE DEF level
<1>5. Parts(Admitted) + Period + level <= Full + Refill(old) + Credit'
  <2>1. Parts(Admitted) + bucket.level <= Full + Refill(bucket.last) + Credit
    BY <1>0 DEF Balance
  <2>2. Parts(Admitted) \in Int
    BY <1>0, SinceType, BucketIs
  <2>3. Credit' = Credit
    BY <1>1 DEF Credit
  <2> QED BY <1>3, <1>4, <2>1, <2>2, <2>3
<1>6. ASSUME NEW t \in Int, NEW m \in Int, t <= m, Latest(m), old <= m
      PROVE  level + Period + Refill(m) - Refill(old) + Parts(Since(t - Period)) >= Full
  <2>1. t - Period \in Int
    BY Quantities
  <2>2. Since(t - Period) \in Nat
    BY <1>0, <2>1, SinceType
  <2>3. Parts(Since(t - Period)) \in Nat /\ Refill(m) \in Int
    BY <1>0, <2>2, BucketIs
  <2>4. Refill(old) <= Refill(m)
    BY <1>2, <1>6, RefillSum
  <2>5. bucket.level + Refill(m) - Refill(bucket.last) + Parts(Since(t - Period)) >= Full
    BY <1>0, <1>1, <1>6 DEF Spared
  <2> QED BY <1>3, <1>4, <2>3, <2>4, <2>5
<1>7. given' \in Nat /\ given <= given' /\ level + Period <= Full
  BY <1>1, <1>3, <1>4
<1> QED BY <1>1, <1>4, <1>5, <1>6, <1>7, ToWriteStep DEF old

LEMMA NewBucketStep ==
  ASSUME BucketIInv, NEW r \in Consumers, call[r].at = "read", ToWrite(r, Full - Period),
         UNCHANGED <<now, bucket, lost>>,
         \/ given' = given + Gift(r)
         \/ given' = given /\ ~Alive /\ bucket.expires <= call[r].read
  PROVE  BucketIInv'
<1> DEFINE old == call[r].read
           level == Full - Period
<1>0. BucketType /\ Balance /\ Timely
  BY DEF BucketIInv
<1>1. old \in Int /\ old <= now
  BY <1>0, Quantities DEF BucketType, BucketCalls
<1>2. /\ Refill(old) \in Int /\ Refill(now) \in Int /\ Refill(bucket.last) \in Int
      /\ Refill(bucket.expires) \in Int /\ Credit \in Int /\ given \in Nat
      /\ bucket.level \in Nat /\ Full \in Nat /\ Period \in Nat /\ Period <= Full
      /\ now \in Int /\ bucket.last \in Int /\ bucket.last <= now /\ bucket.expires \in Int
  BY <1>0, <1>1, BucketIs, Quantities
<1>3. /\ Refill(now - old) = Refill(now) - Refill(old) /\ Refill(old) <= Refill(now)
      /\ Refill(bucket.last) <= Refill(now)
      /\ bucket.expires <= old => Refill(bucket.expires) <= Refill(old)
  BY <1>1, <1>2, RefillSum
<1>4. Gift(r) = Full + Refill(now) - Refill(old) /\ Gift(r) \in Nat
  <2>1. Gift(r) = Full + Refill(now - old)
    BY DEF Gift, Refill
  <2> HIDE DEF old
  <2> QED BY <1>2, <1>3, <2>1
<1>5. Parts(Admitted) \in Int
  BY <1>0, SinceType, BucketIs
<1>6. given' \in Nat /\ given <= given'
  BY <1>2, <1>4
<1>7. Parts(Admitted) + Period + level <= Full + Refill(old) + Credit'
  <2>0. Credit' = Credit + (given' - given)
    BY <1>0, <1>6, CreditUnchanged
  <2>1. CASE given' = given + Gift(r)
    <3>1. Credit' = Credit + Full + Refill(now) - Refill(old)
      BY <1>2, <1>4, <2>0, <2>1
    <3>2. Parts(Admitted) + bucket.level <= Full + Refill(bucket.last) + Credit
      BY <1>0 DEF Balance
    <3> HIDE DEF old
    <3> QED BY <1>2, <1>3, <1>5, <3>1, <3>2
  <2>2. CASE given' = given /\ ~Alive /\ bucket.expires <= old
    <3>1. Credit' = Credit
      BY <1>2, <2>0, <2>2
    <3>2. Parts(Admitted) <= Refill(bucket.expires) + Credit
      BY <1>0, <2>2 DEF Timely
    <3> HIDE DEF old
    <3> QED BY <1>2, <1>3, <1>5, <2>2, <3>1, <3>2
  <2> QED BY <2>1, <2>2
<1>8. ASSUME NEW t \in Int, NEW m \in Int, t <= m, Latest(m), old <= m
      PROVE  level + Period + Refill(m) - Refill(old) + Parts(Since(t - Period)) >= Full
  <2>1. t - Period \in Int
    BY Quantities
  <2>2. Since(t - Period) \in Nat
    BY <1>0, <2>1, SinceType
  <2>3. Parts(Since(t - Period)) \in Nat /\ Refill(m) \in Int
    BY <1>0, <2>2, BucketIs
  <2>4. Refill(old) <= Refill(m)
    BY <1>1, <1>8, RefillSum
  <2> HIDE DEF old
  <2> QED BY <1>2, <2>3, <2>4
<1>9. level \in Int /\ 0 <= level /\ level + Period <= Full
  BY <1>2
<1> HIDE DEF level
<1> QED BY <1>6, <1>7, <1>8, <1>9, ToWriteStep DEF old, level

LEMMA WriteStep ==
  ASSUME BucketIInv, NEW r \in Consumers, Write(r) PROVE BucketIInv'
<1> DEFINE level == call[r].level
           old   == call[r].read
           seen  == call[r].seen
<1>0. /\ BucketType /\ Paid(r) /\ Spares(r) /\ Spared
      /\ \A q \in Consumers : Paid(q) /\ Spares(q)
  BY DEF BucketIInv
<1>1. /\ call[r].at = "write" /\ MoveTo(r, "expire") /\ UNCHANGED <<now, given>>
      /\ lost' = lost + (Admitted - seen)
      /\ bucket' = [level |-> level, last |-> old,
                    expires |-> IF Alive THEN bucket.expires ELSE Never]
  BY DEF Write
<1>2. /\ level \in 0..Full /\ old \in 0..MaxTime /\ old <= now /\ seen \in Nat
      /\ now \in 0..MaxTime /\ lost \in Nat /\ given \in Nat /\ bucket.expires \in Nat
  BY <1>0, BucketIs DEF BucketType, BucketCalls
<1>3. /\ bucket'.level = level /\ bucket'.last = old
      /\ bucket'.expires = IF Alive THEN bucket.expires ELSE Never
  BY <1>1
<1>4. /\ call' \in [Consumers -> BucketCalls]
      /\ call'[r].at = "expire" /\ call'[r].read = old
      /\ \A q \in Consumers \ {r} : call'[q] = call[q]
      /\ \A q \in Consumers : call'[q].read <= now
  BY <1>0, <1>1, Moved
<1>5. /\ \A u \in Int : Since(u)' = IF old > u THEN Since(u) + 1 ELSE Since(u)
      /\ Admitted' = Admitted + 1 /\ IsFiniteSet(AdmittedSince(-1))'
  <2>1. call[r].at \notin Charged /\ call'[r].at \in Charged /\ call'[r].read \in Nat
    BY <1>1, <1>2, <1>4, Quantities DEF Charged
  <2> QED BY <1>0, <1>4, <2>1, OneMore
<1>6. /\ Admitted \in Nat /\ \A u \in Int : Since(u) \in Nat /\ Since(u)' \in Nat /\ Since(u) <= Since(u)'
      /\ Admitted' \in Nat /\ Admitted <= Admitted'
  <2>1. Admitted \in Nat /\ \A u \in Int : Since(u) \in Nat
    BY <1>0, SinceType
  <2> QED BY <1>5, <2>1
<1>7. \A m \in Int : Latest(m)' => Latest(m) /\ old <= m
  <2>1. \A q \in AdmittedSince(-1) : q \in AdmittedSince(-1)' /\ call'[q].read = call[q].read
    BY <1>1, <1>4 DEF AdmittedSince, Charged
  <2>2. r \in AdmittedSince(-1)'
    BY <1>2, <1>4, Quantities DEF AdmittedSince
  <2> QED BY <1>4, <2>1, <2>2 DEF Latest
<1>8. seen <= Admitted /\ Parts(seen) + Period + level <= Full + Refill(old) + Credit
  BY <1>0, <1>1 DEF Paid
<1> HIDE DEF level, old, seen
<1>9. /\ lost' \in Nat /\ lost <= lost' /\ lost' - lost = Admitted - seen
      /\ given' \in Nat /\ given <= given' /\ given' - given = 0
  BY <1>1, <1>2, <1>6, <1>8
<1>10. /\ Credit' \in Int /\ Credit <= Credit'
       /\ Credit' = Credit + (Parts(Admitted) - Parts(seen))
  <2>1. /\ Credit' \in Int /\ Credit <= Credit'
        /\ Credit' = Credit + Parts(lost' - lost) + (given' - given)
    BY <1>0, <1>9, CreditGrows
  <2>2. Admitted \in Int /\ seen \in Int
    BY <1>2, <1>6
  <2>3. Parts(Admitted - seen) = Parts(Admitted) - Parts(seen) /\ Parts(Admitted) \in Int
        /\ Parts(seen) \in Int
    BY <2>2, PartsSum
  <2>4. Parts(lost' - lost) = Parts(Admitted) - Parts(seen)
    BY <1>9, <2>3
  <2>5. Credit \in Int
    BY <1>0, BucketIs
  <2> QED BY ONLY <1>9, <2>1, <2>3, <2>4, <2>5
<1>11. /\ Parts(Admitted') = Parts(Admitted) + Period
       /\ Parts(Admitted) \in Int /\ Parts(seen) \in Int /\ Refill(old) \in Int
       /\ Credit \in Int /\ level \in Nat /\ Full \in Int /\ Period \in Int
  <2>1. Admitted \in Int /\ 1 \in Int /\ old \in Int /\ seen \in Int
    BY <1>2, <1>6, Quantities
  <2>2. Parts(Admitted + 1) = Parts(Admitted) + Parts(1)
    BY <2>1, PartsSum
  <2>3. Parts(Admitted') = Parts(Admitted) + Period
    BY <1>5, <2>2, Quantities
  <2>4. Parts(Admitted) \in Int /\ Parts(seen) \in Int
    BY <2>1, PartsSum
  <2>5. Refill(old) \in Int /\ Credit \in Int
    BY <1>0, <2>1, BucketIs
  <2>6. level \in Nat /\ Full \in Int /\ Period \in Int
    BY <1>2, Quantities
  <2> QED BY <2>3, <2>4, <2>5, <2>6
<1>12. BucketType'
  <2>1. bucket' \in [level : 0..Full, last : 0..MaxTime, expires : Nat]
    BY <1>1, <1>2, Quantities DEF Never
  <2> QED BY <1>1, <1>2, <1>3, <1>4, <1>5, <1>9, <2>1 DEF BucketType
<1>13. Balance'
  <2>1. Parts(Admitted') + level <= Full + Refill(old) + Credit'
    BY ONLY <1>8, <1>10, <1>11
  <2> QED BY <1>3, <2>1 DEF Balance
<1>14. Timely'
  <2>1. now < Never
    BY <1>2, Quantities DEF Never
  <2>2. Alive'
    BY <1>1, <1>3, <2>1 DEF Alive
  <2>3. Closing'
    BY <1>4 DEF Closing
  <2> QED BY <2>2, <2>3 DEF Timely
<1>15. Spared'
  <2> SUFFICES ASSUME NEW t \in Int, NEW m \in Int, t <= m, Latest(m)'
               PROVE  level + Refill(m) - Refill(old) + Parts(Since(t - Period)') >= Full
    BY <1>3 DEF Spared
  <2>1. t - Period \in Int /\ m - Period \in Int /\ Period \in Int
    BY Quantities
  <2>2. Since(t - Period) \in Nat /\ Since(t - Period)' \in Nat
    BY <1>6, <2>1
  <2>3. Parts(Since(t - Period)) \in Nat /\ Refill(m) \in Int /\ Parts(Since(t - Period)') \in Nat
    BY <1>0, <2>2, BucketIs
  <2>4. CASE old > t - Period
    <3>1. Since(t - Period)' = Since(t - Period) + 1
      BY <1>5, <2>1, <2>4
    <3>2. Since(t - Period) \in Int /\ 1 \in Int
      BY <2>2
    <3>3. Parts(Since(t - Period)') = Parts(Since(t - Period)) + Period
      BY <3>1, <3>2, PartsSum, Quantities
    <3>4. level + Period + Refill(m) - Refill(old) + Parts(Since(t - Period)) >= Full
      BY <1>0, <1>1, <1>7 DEF Spares, level, old
    <3> QED BY ONLY <1>11, <2>3, <3>3, <3>4
  <2>5. CASE ~(old > t - Period)
    <3>1. old \in Int /\ old <= m - Period
      BY <1>2, <2>1, <2>5, Quantities
    <3>2. Refill(old) <= Refill(m - Period)
      BY <2>1, <3>1, RefillSum
    <3>3. Refill(m - Period) = Refill(m) - Full
      BY <2>1, RefillSum, Quantities
    <3> QED BY ONLY <1>11, <2>3, <3>2, <3>3
  <2> QED BY <2>4, <2>5
<1>16. \A q \in Consumers : Paid(q)' /\ Spares(q)'
  <2>1. Paid(r)' /\ Spares(r)'
    BY <1>4 DEF Paid, Spares
  <2>2. ASSUME NEW q \in Consumers \ {r} PROVE Paid(q)' /\ Spares(q)'
    <3>1. q \in Consumers /\ call'[q] = call[q]
      BY <1>4
    <3> QED BY <1>6, <1>7, <1>10, <3>1, OthersStay
  <2> QED BY <2>1, <2>2
<1> QED BY <1>12, <1>13, <1>14, <1>15, <1>16 DEF BucketIInv

LEMMA ExpireBucketStep ==
  ASSUME BucketIInv, NEW r \in Consumers, ExpireBucket(r) PROVE BucketIInv'
<1>0. BucketType /\ Balance /\ Timely
  BY DEF BucketIInv
<1>1. /\ call[r].at = "expire" /\ MoveTo(r, "admitted") /\ UNCHANGED <<now, lost, given>>
      /\ bucket' = [bucket EXCEPT !.expires = IF Alive THEN now + Period ELSE bucket.expires]
  BY DEF ExpireBucket
<1>2. /\ now \in 0..MaxTime /\ lost \in Nat /\ given \in Nat /\ now \in Int
      /\ bucket \in [level : 0..Full, last : 0..MaxTime, expires : Nat]
      /\ bucket.last <= now /\ bucket.last \in Int /\ bucket.level \in Nat /\ Credit \in Int
  BY <1>0, BucketIs DEF BucketType
<1>3. /\ bucket'.level = bucket.level /\ bucket'.last = bucket.last
      /\ bucket'.expires = IF Alive THEN now + Period ELSE bucket.expires
      /\ bucket' \in [level : 0..Full, last : 0..MaxTime, expires : Nat]
  BY <1>1, <1>2, Quantities
<1>4. /\ call' \in [Consumers -> BucketCalls]
      /\ call'[r].at = "admitted" /\ call'[r].read = call[r].read
      /\ \A q \in Consumers \ {r} : call'[q] = call[q]
      /\ \A q \in Consumers : call'[q].read <= now
  BY <1>0, <1>1, Moved DEF BucketEnded
<1>5. /\ \A u \in Int : Since(u)' = Since(u)
      /\ Admitted' = Admitted /\ IsFiniteSet(AdmittedSince(-1))'
  <2>1. call[r].at \in Charged /\ call'[r].at \in Charged
    BY <1>1, <1>4 DEF Charged
  <2> QED BY <1>0, <1>4, <2>1, NobodyMore
<1>6. /\ \A u \in Int : Since(u)' \in Nat /\ Since(u) <= Since(u)'
      /\ Admitted' \in Nat /\ Admitted <= Admitted' /\ Admitted \in Nat
  <2>1. Admitted \in Nat /\ \A u \in Int : Since(u) \in Nat
    BY <1>0, SinceType
  <2> QED BY <1>5, <2>1
<1>7. \A m \in Int : Latest(m)' => Latest(m)
  <2>1. \A q \in AdmittedSince(-1) : q \in AdmittedSince(-1)' /\ call'[q].read = call[q].read
    BY <1>1, <1>4 DEF AdmittedSince, Charged
  <2> QED BY <2>1 DEF Latest
<1>8. Credit' = Credit /\ Credit' \in Int /\ Credit <= Credit'
  BY <1>1, <1>2 DEF Credit
<1>9. BucketType'
  BY <1>1, <1>2, <1>3, <1>4, <1>5 DEF BucketType
<1>10. Balance'
  BY <1>0, <1>3, <1>5, <1>8 DEF Balance
<1>11. Alive' => Alive
  BY <1>1, <1>3 DEF Alive
<1>12. Spared'
  BY <1>3, <1>6, <1>7, <1>11, StillSpared
<1>13. \A q \in Consumers : Paid(q)' /\ Spares(q)'
  <2>1. Paid(r)' /\ Spares(r)'
    BY <1>4 DEF Paid, Spares
  <2>2. ASSUME NEW q \in Consumers \ {r} PROVE Paid(q)' /\ Spares(q)'
    <3>1. q \in Consumers /\ call'[q] = call[q]
      BY <1>4
    <3> QED BY <1>6, <1>7, <1>8, <3>1, OthersStay
  <2> QED BY <2>1, <2>2
<1>14. Timely'
  <2>1. CASE Alive
    <3>1. Parts(Admitted) + bucket.level <= Full + Refill(bucket.last) + Credit
      BY <1>0 DEF Balance
    <3>2. Period \in Int
      BY Quantities
    <3>3. Refill(now + Period) = Refill(now) + Full /\ Refill(bucket.last) <= Refill(now)
          /\ Refill(now) \in Int /\ Refill(bucket.last) \in Int
      BY <1>2, <3>2, RefillSum, Quantities
    <3>4. Parts(Admitted) \in Int /\ Full \in Int
      BY <1>0, <1>6, BucketIs, Quantities
    <3>5. Parts(Admitted) <= Refill(now + Period) + Credit
      BY ONLY <1>2, <3>1, <3>3, <3>4
    <3>6. bucket'.expires = now + Period
      BY <1>3, <2>1
    <3> QED BY <1>5, <1>8, <3>5, <3>6 DEF Timely
  <2>2. CASE ~Alive
    BY <1>0, <1>3, <1>5, <1>8, <2>2 DEF Timely
  <2> QED BY <2>1, <2>2
<1> QED BY <1>9, <1>10, <1>12, <1>13, <1>14 DEF BucketIInv

LEMMA BucketTickStep ==
  ASSUME BucketIInv, Tick PROVE BucketIInv'
<1>0. BucketType /\ Balance /\ Timely
  BY DEF BucketIInv
<1>1. /\ now < MaxTime /\ now' = now + 1 /\ UNCHANGED <<bucket, call, lost>>
      /\ given' = given + IF now' = bucket.expires /\ Closing THEN Full ELSE 0
  BY DEF Tick, Closing
<1>2. /\ now \in 0..MaxTime /\ now \in Nat /\ MaxTime \in Nat /\ lost \in Nat /\ given \in Nat
      /\ bucket.last \in Int /\ bucket.last <= now /\ bucket.level \in Nat
      /\ bucket.expires \in Int /\ Full \in Nat /\ Credit \in Int
  BY <1>0, BucketIs, Quantities DEF BucketType
<1>3. given' \in Nat /\ given <= given'
  BY <1>1, <1>2
<1>4. /\ \A u \in Int : Since(u)' = Since(u)
      /\ Admitted' = Admitted /\ IsFiniteSet(AdmittedSince(-1))'
      /\ \A m \in Int : Latest(m)' => Latest(m)
  <2>1. \A u \in Int : AdmittedSince(u)' = AdmittedSince(u)
    BY <1>1 DEF AdmittedSince
  <2>2. AdmittedSince(-1)' = AdmittedSince(-1)
    BY <1>1 DEF AdmittedSince
  <2> QED BY <1>0, <1>1, <2>1, <2>2 DEF Since, Admitted, BucketType, Latest
<1>5. /\ \A u \in Int : Since(u)' \in Nat /\ Since(u) <= Since(u)'
      /\ Admitted' \in Nat /\ Admitted <= Admitted' /\ Admitted \in Nat
  <2>1. Admitted \in Nat /\ \A u \in Int : Since(u) \in Nat
    BY <1>0, SinceType
  <2> QED BY <1>4, <2>1
<1>6. Credit' = Credit + (given' - given)
  BY <1>0, <1>1, <1>3, CreditUnchanged
<1>7. Credit' \in Int /\ Credit <= Credit'
  <2>1. lost' \in Nat /\ lost <= lost'
    BY <1>1, <1>2
  <2> QED BY <1>0, <1>3, <2>1, CreditGrows
<1>8. BucketType'
  <2>1. now' \in 0..MaxTime
    BY <1>1, <1>2
  <2>2. bucket.last <= now'
    BY <1>1, <1>2
  <2>3. \A q \in Consumers : call[q].read <= now'
    <3>1. ASSUME NEW q \in Consumers PROVE call[q].read <= now'
      <4>1. call[q].read \in 0..MaxTime /\ call[q].read <= now
        BY <1>0 DEF BucketType, BucketCalls
      <4> QED BY <1>1, <1>2, <4>1
    <3> QED BY <3>1
  <2> QED BY <1>0, <1>1, <1>3, <1>4, <2>1, <2>2, <2>3 DEF BucketType
<1>9. /\ Parts(Admitted) \in Int /\ Refill(bucket.last) \in Int /\ Refill(bucket.expires) \in Int
      /\ Parts(Admitted) + bucket.level <= Full + Refill(bucket.last) + Credit
  BY <1>0, <1>2, <1>5, BucketIs DEF Balance
<1>10. Balance'
  <2>1. Parts(Admitted) + bucket.level <= Full + Refill(bucket.last) + Credit'
    BY ONLY <1>2, <1>7, <1>9
  <2> QED BY <1>1, <1>4, <2>1 DEF Balance
<1>11. Alive' => Alive
  BY <1>1, <1>2 DEF Alive
<1>12. Timely'
  <2>1. CASE Alive' /\ Closing
    BY <1>1, <2>1 DEF Timely, Closing
  <2>2. CASE Parts(Admitted) <= Refill(bucket.expires) + Credit
    <3>1. Parts(Admitted) <= Refill(bucket.expires) + Credit'
      BY ONLY <1>2, <1>7, <1>9, <2>2
    <3> QED BY <1>1, <1>4, <3>1 DEF Timely
  <2>3. CASE Alive /\ Closing /\ ~Alive'
    <3>1. now' = bucket.expires /\ bucket.last <= bucket.expires
      BY <1>1, <1>2, <2>3 DEF Alive
    <3>2. given' - given = Full
      BY <1>1, <1>2, <2>3, <3>1
    <3>3. Refill(bucket.last) <= Refill(bucket.expires)
      BY <1>2, <3>1, RefillSum
    <3>4. Parts(Admitted) <= Refill(bucket.expires) + Credit'
      BY ONLY <1>2, <1>6, <1>9, <3>2, <3>3
    <3> QED BY <1>1, <1>4, <3>4 DEF Timely
  <2> QED BY <1>0, <2>1, <2>2, <2>3 DEF Timely
<1>13. Spared'
  BY <1>1, <1>4, <1>5, <1>11, StillSpared
<1>14. \A q \in Consumers : Paid(q)' /\ Spares(q)'
  <2>1. ASSUME NEW q \in Consumers PROVE Paid(q)' /\ Spares(q)'
    <3>1. call'[q] = call[q]
      BY <1>1
    <3> QED BY <1>4, <1>5, <1>7, <3>1, OthersStay
  <2> QED BY <2>1
<1> QED BY <1>8, <1>10, <1>12, <1>13, <1>14 DEF BucketIInv
-----------------------------------------------------------------------------
LEMMA BucketStart == BucketInit => BucketIInv
<1> SUFFICES ASSUME BucketInit PROVE BucketIInv
  OBVIOUS
<1>1. /\ now = 0 /\ bucket = NoBucket /\ lost = 0 /\ given = 0
      /\ call = [r \in Consumers |-> Idle]
  BY DEF BucketInit
<1>2. NoBucket = [level |-> 0, last |-> 0, expires |-> 0]
  BY DEF NoBucket
<1>3. Idle \in BucketCalls /\ Idle.at = "idle" /\ Idle.read = 0
  BY Quantities DEF Idle, BucketCalls
<1>4. AdmittedSince(-1) = {}
  BY <1>1, <1>3 DEF AdmittedSince
<1>5. Admitted = 0 /\ IsFiniteSet(AdmittedSince(-1))
  BY <1>4, FS_EmptySet DEF Admitted
<1>6. BucketType
  BY <1>1, <1>2, <1>3, <1>5, Quantities DEF BucketType
<1>7. ~Alive
  BY <1>1, <1>2 DEF Alive
<1>8. Balance /\ Timely
  BY <1>1, <1>2, <1>5, Quantities DEF Balance, Timely, Credit
<1>9. Spared /\ \A r \in Consumers : Paid(r) /\ Spares(r)
  BY <1>1, <1>3, <1>7 DEF Spared, Paid, Spares
<1> QED BY <1>6, <1>8, <1>9 DEF BucketIInv

LEMMA BucketSteady ==
  BucketIInv /\ [BucketNext]_bucketVars => BucketIInv'
<1> SUFFICES ASSUME BucketIInv, [BucketNext]_bucketVars PROVE BucketIInv'
  OBVIOUS
<1>1. CASE UNCHANGED bucketVars
  <2>1. UNCHANGED <<now, bucket, call, lost, given>>
    BY <1>1 DEF bucketVars
  <2> QED
    BY <2>1 DEF BucketIInv, BucketType, AdmittedSince, Admitted, Since, Alive, Credit,
                Balance, Paid, Closing, Timely, Latest, Spared, Spares
<1>2. CASE Tick
  BY <1>2, BucketTickStep
<1>3. ASSUME NEW r \in Consumers, ReadClock(r) PROVE BucketIInv'
  BY <1>3, ReadClockStep
<1>4. ASSUME NEW r \in Consumers, LetIn(r) PROVE BucketIInv'
  BY <1>4, LetInStep
<1>5. ASSUME NEW r \in Consumers, Read(r) PROVE BucketIInv'
  BY <1>5, ReadStep
<1>6. ASSUME NEW r \in Consumers, Deny(r) PROVE BucketIInv'
  BY <1>6, DenyStep
<1>7. ASSUME NEW r \in Consumers, ReadNothing(r) PROVE BucketIInv'
  <2>1. /\ call[r].at = "read" /\ ToWrite(r, Full - Period) /\ UNCHANGED <<now, bucket, lost>>
        /\ ~Alive
        /\ given' = given + IF call[r].read < bucket.expires THEN Gift(r) ELSE 0
    BY <1>7 DEF ReadNothing
  <2>2. call[r].read \in Int /\ bucket.expires \in Int /\ given \in Int
    BY Quantities DEF BucketIInv, BucketType, BucketCalls
  <2>3. \/ given' = given + Gift(r)
        \/ given' = given /\ ~Alive /\ bucket.expires <= call[r].read
    BY <2>1, <2>2
  <2> QED BY <2>1, <2>3, NewBucketStep
<1>8. ASSUME NEW r \in Consumers, ReadFails(r) PROVE BucketIInv'
  BY <1>8, NewBucketStep DEF ReadFails
<1>9. ASSUME NEW r \in Consumers, Write(r) PROVE BucketIInv'
  BY <1>9, WriteStep
<1>10. ASSUME NEW r \in Consumers, ExpireBucket(r) PROVE BucketIInv'
  BY <1>10, ExpireBucketStep
<1>11. ASSUME NEW r \in Consumers, WriteFails(r) PROVE BucketIInv'
  BY <1>11, WriteFailsStep
<1>12. ASSUME NEW r \in Consumers, DieHalfway(r) PROVE BucketIInv'
  BY <1>12, DieStep
<1> QED
  BY <1>1, <1>2, <1>3, <1>4, <1>5, <1>6, <1>7, <1>8, <1>9, <1>10, <1>11, <1>12 DEF BucketNext

LEMMA BucketIsSteady == BucketSpec => []BucketIInv
BY BucketStart, BucketSteady, PTL DEF BucketSpec

\* With any number of requests, however their commands interleave, however late
\* the clock a request has read is and whatever fails, those let in are covered
\* by one full bucket, what was refilled since, a token for every lost update
\* and what failures and early expiry gave away (TokenBucket.consume).
THEOREM QuotaHolds == BucketSpec => []AdmittedIsBounded
<1>1. ASSUME BucketIInv PROVE AdmittedIsBounded
  <2>1. BucketType /\ Balance
    BY <1>1 DEF BucketIInv
  <2>2. /\ bucket.level \in Nat /\ bucket.last \in Int /\ now \in Int /\ bucket.last <= now
        /\ Credit \in Int /\ Full \in Int /\ Admitted \in Nat
    BY <2>1, BucketIs, SinceType, Quantities
  <2>3. Refill(bucket.last) <= Refill(now) /\ Refill(bucket.last) \in Int /\ Refill(now) \in Int
    BY <2>2, RefillSum
  <2>4. Parts(Admitted) \in Int /\ Parts(Admitted) + bucket.level <= Full + Refill(bucket.last) + Credit
    BY <2>1, <2>2, BucketIs DEF Balance
  <2>5. Parts(Admitted) <= Full + Refill(now) + Credit
    BY ONLY <2>2, <2>3, <2>4
  <2>6. Parts(lost) \in Int /\ given \in Int
    BY <2>1, BucketIs
  <2>7. Parts(Admitted) <= Full + Refill(now) + Parts(lost) + given
    BY ONLY <2>2, <2>3, <2>4, <2>5, <2>6 DEF Credit
  <2> QED BY <2>7 DEF AdmittedIsBounded, Parts, Refill
<1> QED BY BucketIsSteady, <1>1, PTL

\* Whoever is denied by the time it has read has had a full quota in the Period
\* before, but for what was refilled until the latest time of those that were
\* let in, whatever was lost, expired or failed before (TokenBucket.consume).
THEOREM DenialsAreEarned == BucketSpec => DeniedHadQuota
<1> DEFINE Earned ==
             \A r \in Consumers :
               call[r].at # "denied" /\ call'[r].at = "denied" =>
                 \A ticks \in 0..MaxTime : OvertakenBy(r, ticks) =>
                   (Cardinality(AdmittedSince(call[r].read - Period)) + 1) * Period
                     + ticks * Capacity > Full
<1>1. ASSUME BucketIInv, NEW r \in Consumers, Deny(r),
             NEW ticks \in 0..MaxTime, OvertakenBy(r, ticks)
      PROVE  (Since(call[r].read - Period) + 1) * Period + ticks * Capacity > Full
  <2> DEFINE old == call[r].read
             n   == Since(old - Period)
             m   == old + ticks
  <2>0. BucketType /\ Spared /\ Alive /\ Refilled(old) < Period
    BY <1>1 DEF BucketIInv, Deny
  <2>1. old \in Int /\ ticks \in Int /\ 0 <= ticks /\ Period \in Int /\ 1 \in Int
    BY <1>1, <2>0, Quantities DEF BucketType, BucketCalls
  <2>2. Latest(m)
    BY <1>1 DEF OvertakenBy, Latest
  <2>3. m \in Int /\ old <= m /\ old - Period \in Int
    BY <2>1
  <2> HIDE DEF old
  <2>4. n \in Nat
    BY <2>0, <2>3, SinceType
  <2>5. bucket.level + Refill(m) - Refill(bucket.last) + Parts(n) >= Full
    BY <2>0, <2>1, <2>2, <2>3 DEF Spared
  <2>6. Refill(m) = Refill(old) + Refill(ticks) /\ Refill(old) \in Int /\ Refill(ticks) \in Int
    BY <2>1, RefillSum
  <2> HIDE DEF m, n
  <2>7. /\ Refilled(old) \in Int /\ bucket.level \in Int /\ Refill(bucket.last) \in Int
        /\ Refilled(old) = Full \/ Refilled(old) = bucket.level + Refill(old) - Refill(bucket.last)
    BY <2>0, <2>1, BucketIs
  <2>8. bucket.level + Refill(old) - Refill(bucket.last) < Period
    BY <2>0, <2>7, Quantities
  <2>9. Parts(n + 1) = Parts(n) + Period /\ Parts(n) \in Int
    <3>1. n \in Int
      BY <2>4
    <3>2. Parts(n + 1) = Parts(n) + Parts(1) /\ Parts(n) \in Int
      BY ONLY <2>1, <3>1, PartsSum
    <3>3. Parts(1) = Period
      BY Quantities
    <3> QED BY ONLY <3>2, <3>3
  <2>10. Full \in Int
    BY Quantities
  <2>11. Parts(n + 1) + Refill(ticks) > Full
    BY ONLY <2>1, <2>5, <2>6, <2>7, <2>8, <2>9, <2>10
  <2> QED BY <2>11 DEF Parts, Refill, n, old
<1>2. ASSUME BucketIInv, [BucketNext]_bucketVars
      PROVE  [Earned]_bucketVars
  <2> SUFFICES ASSUME BucketNext, NEW r \in Consumers, call[r].at # "denied",
                      call'[r].at = "denied", NEW ticks \in 0..MaxTime, OvertakenBy(r, ticks)
               PROVE  (Since(call[r].read - Period) + 1) * Period + ticks * Capacity > Full
    BY <1>2 DEF Since
  <2>1. call \in [Consumers -> BucketCalls]
    BY <1>2 DEF BucketIInv, BucketType
  <2>2. Deny(r)
    <3>1. ~Tick
      BY DEF Tick
    <3>2. PICK q \in Consumers :
            \/ ReadClock(q) \/ LetIn(q) \/ Read(q) \/ Deny(q) \/ ReadNothing(q) \/ ReadFails(q)
            \/ Write(q) \/ ExpireBucket(q) \/ WriteFails(q) \/ DieHalfway(q)
      BY <3>1 DEF BucketNext
    <3>3. ASSUME NEW c, call' = [call EXCEPT ![q] = c]
          PROVE  q = r /\ c.at = "denied"
      BY <2>1, <3>3
    <3>4. ASSUME NEW step, step # "denied"
          PROVE  ~MoveTo(q, step)
      BY <3>3, <3>4 DEF MoveTo, Idle
    <3>5. ~Read(q) /\ ~ReadNothing(q) /\ ~ReadFails(q)
      BY <3>3 DEF Read, ReadNothing, ReadFails, ToWrite
    <3>6. ASSUME NEW step, step # "denied"
          PROVE  call' # [call EXCEPT ![q].at = step, ![q].read = now]
      <4> SUFFICES ASSUME call' = [call EXCEPT ![q].at = step, ![q].read = now]
                   PROVE  FALSE
        OBVIOUS
      <4> DEFINE c == [call[q] EXCEPT !.at = step, !.read = now]
      <4>1. call' = [call EXCEPT ![q] = c]
        BY <2>1
      <4>2. c.at = step
        BY <2>1 DEF BucketCalls
      <4> HIDE DEF c
      <4> QED BY <3>3, <3>6, <4>1, <4>2
    <3>7. ~ReadClock(q) /\ ~LetIn(q)
      BY <3>6 DEF ReadClock, LetIn
    <3>8. ~Write(q) /\ ~ExpireBucket(q) /\ ~WriteFails(q) /\ ~DieHalfway(q)
      BY <3>4 DEF Write, ExpireBucket, WriteFails, DieHalfway
    <3>9. Deny(q)
      BY <3>2, <3>5, <3>7, <3>8
    <3>10. q = r
      BY <3>3, <3>9 DEF Deny, MoveTo
    <3> QED BY <3>9, <3>10
  <2> QED BY <1>1, <1>2, <2>2
<1>3. BucketSpec => [][Earned]_bucketVars
  BY BucketIsSteady, <1>2, PTL DEF BucketSpec
<1> QED BY <1>3 DEF DeniedHadQuota
=============================================================================
