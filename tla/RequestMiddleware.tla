------------------------- MODULE RequestMiddleware --------------------------
(***************************************************************************)
(* A POST with an Idempotency-Key on its way through the middleware that   *)
(* main.py adds: the rate limiter outside, IdempotencyMiddleware inside,   *)
(* the handler.  Every step ends at a Redis command or with the handler;   *)
(* requests interleave between the steps, in any number of API processes.  *)
(* Both middlewares answer an exception by calling what is behind them     *)
(* once more.                                                              *)
(***************************************************************************)
EXTENDS Naturals

CONSTANTS
  Requests,   \* POST requests
  Keys,       \* values of the Idempotency-Key header
  Bodies,     \* request bodies
  Faults,     \* the kinds of failure that may happen
  NoRequest,  \* "the key has no saved answer", "no answer yet"
  NoKey,      \* "has not arrived"
  NoBody      \* "has not arrived"

FaultKinds == {"redis",    \* a command fails, or Redis was down at startup
               "handler",  \* the handler raises
               "process"}  \* the API process dies

ASSUME MiddlewareFaultsAssumption == Faults \subseteq FaultKinds
ASSUME NoRequestAssumption == NoRequest \notin Requests
ASSUME NoKeyAssumption == NoKey \notin Keys
ASSUME NoBodyAssumption == NoBody \notin Bodies

VARIABLES
  at,        \* where each request is
  key,       \* its key
  body,      \* its body
  left,      \* how often the rate limiter would still call the rest again
  runs,      \* how often the handler ran for it
  trouble,   \* history: the kinds of failure it met
  answer,    \* the request whose run produced the answer it got
  saved,     \* the request whose answer Redis keeps for each key
  ttl,       \* keys that will expire
  promised,  \* history: keys and bodies of answers given without trouble,
             \* until the key expires
  retry      \* history: requests that arrived under such a promise, likewise

header   == <<key, body, retry>>
redis    == <<saved, ttl>>
progress == <<left, runs, trouble, answer>>
vars     == <<at, header, redis, progress, promised>>

Ended == {"answered", "declined", "failed", "gone"}
Steps == Ended \cup {"idle", "lookup", "run", "save", "expire", "again", "bypass"}

TypeOK ==
  /\ at \in [Requests -> Steps]
  /\ key \in [Requests -> Keys \cup {NoKey}]
  /\ body \in [Requests -> Bodies \cup {NoBody}]
  /\ left \in [Requests -> 0..1]
  /\ runs \in [Requests -> Nat]
  /\ trouble \in [Requests -> SUBSET {"redis", "handler"}]
  /\ answer \in [Requests -> Requests \cup {NoRequest}]
  /\ saved \in [Keys -> Requests \cup {NoRequest}]
  /\ ttl \subseteq Keys
  /\ promised \subseteq Keys \X Bodies
  /\ retry \subseteq Requests

Init ==
  /\ at = [r \in Requests |-> "idle"]
  /\ key = [r \in Requests |-> NoKey]
  /\ body = [r \in Requests |-> NoBody]
  /\ left = [r \in Requests |-> 0]
  /\ runs = [r \in Requests |-> 0]
  /\ trouble = [r \in Requests |-> {}]
  /\ answer = [r \in Requests |-> NoRequest]
  /\ saved = [k \in Keys |-> NoRequest]
  /\ ttl = {}
  /\ promised = {}
  /\ retry = {}

Active(r) == at[r] \notin Ended \cup {"idle"}

Goto(r, step) == at' = [at EXCEPT ![r] = step]
Meet(r, kind) == trouble' = [trouble EXCEPT ![r] = @ \cup {kind}]
-----------------------------------------------------------------------------
\* The limiter lets the request pass.  It guards only what it let pass for a
\* user: without a valid token, or when it failed itself, an exception of the
\* rest is not caught.
Arrive(r, k, b) ==
  /\ at[r] = "idle"
  /\ Goto(r, "lookup")
  /\ key' = [key EXCEPT ![r] = k]
  /\ body' = [body EXCEPT ![r] = b]
  /\ \E n \in 0..1 : left' = [left EXCEPT ![r] = n]
  /\ retry' = IF <<k, b>> \in promised THEN retry \cup {r} ELSE retry
  /\ UNCHANGED <<redis, runs, trouble, answer, promised>>

\* Mutant: the key alone decides.
LookupKeyOnly(r) ==
  /\ at[r] = "lookup"
  /\ IF saved[key[r]] = NoRequest
       THEN Goto(r, "run") /\ UNCHANGED answer
       ELSE Goto(r, "answered") /\ answer' = [answer EXCEPT ![r] = saved[key[r]]]
  /\ UNCHANGED <<header, redis, left, runs, trouble, promised>>

\* Mutant: an answer to another body is replaced.
LookupReplaces(r) ==
  LET q == saved[key[r]] IN
  /\ at[r] = "lookup"
  /\ IF q # NoRequest /\ body[q] = body[r]
       THEN Goto(r, "answered") /\ answer' = [answer EXCEPT ![r] = q]
       ELSE Goto(r, "run") /\ UNCHANGED answer
  /\ UNCHANGED <<header, redis, left, runs, trouble, promised>>

\* hgetall: nothing, an answer to another body (422), or the answer.
Lookup(r) ==
  LET q == saved[key[r]] IN
  /\ at[r] = "lookup"
  /\ \/ q = NoRequest /\ Goto(r, "run") /\ UNCHANGED answer
     \/ /\ q # NoRequest
        /\ body[q] # body[r]
        /\ Goto(r, "declined")
        /\ UNCHANGED answer
     \/ /\ q # NoRequest
        /\ body[q] = body[r]
        /\ Goto(r, "answered")
        /\ answer' = [answer EXCEPT ![r] = q]
  /\ UNCHANGED <<header, redis, left, runs, trouble, promised>>

\* services.redis is not there: the request goes straight on.
Bypass(r) ==
  /\ at[r] = "lookup"
  /\ "redis" \in Faults
  /\ Goto(r, "bypass")
  /\ Meet(r, "redis")
  /\ UNCHANGED <<header, redis, left, runs, answer, promised>>

\* The except branch around the commands and the handler.
LookupFails(r) ==
  /\ at[r] = "lookup"
  /\ "redis" \in Faults
  /\ Goto(r, "again")
  /\ Meet(r, "redis")
  /\ UNCHANGED <<header, redis, left, runs, answer, promised>>

\* hset writes all fields at once, and over what another request left there.  A
\* command that fails may have been carried out.
Save(r) ==
  /\ at[r] = "save"
  /\ \/ /\ Goto(r, "expire")
        /\ saved' = [saved EXCEPT ![key[r]] = r]
        /\ UNCHANGED trouble
     \/ /\ "redis" \in Faults
        /\ Goto(r, "again")
        /\ Meet(r, "redis")
        /\ \/ UNCHANGED saved
           \/ saved' = [saved EXCEPT ![key[r]] = r]
  /\ UNCHANGED <<header, ttl, left, runs, answer, promised>>

\* Mutant: the expiry is left to hset.
ExpireNever(r) ==
  /\ at[r] = "expire"
  /\ Goto(r, "answered")
  /\ answer' = [answer EXCEPT ![r] = r]
  /\ UNCHANGED <<header, redis, left, runs, trouble, promised>>

Expire(r) ==
  /\ at[r] = "expire"
  /\ \/ /\ Goto(r, "answered")
        /\ answer' = [answer EXCEPT ![r] = r]
        /\ ttl' = ttl \cup {key[r]}
        /\ promised' = IF trouble[r] = {}
                         THEN promised \cup {<<key[r], body[r]>>}
                         ELSE promised
        /\ UNCHANGED trouble
     \/ /\ "redis" \in Faults
        /\ Goto(r, "again")
        /\ Meet(r, "redis")
        /\ ttl' \in {ttl, ttl \cup {key[r]}}
        /\ UNCHANGED <<answer, promised>>
  /\ UNCHANGED <<header, saved, left, runs>>
-----------------------------------------------------------------------------
\* The handler runs with its answer to be saved, or without.
Run(r) ==
  /\ at[r] \in {"run", "again", "bypass"}
  /\ runs' = [runs EXCEPT ![r] = @ + 1]

\* 2xx: the answer is saved, unless Redis failed or was not there before.
Succeed(r) ==
  /\ Run(r)
  /\ IF at[r] = "run"
       THEN Goto(r, "save") /\ UNCHANGED answer
       ELSE Goto(r, "answered") /\ answer' = [answer EXCEPT ![r] = r]
  /\ UNCHANGED <<header, redis, left, trouble, promised>>

\* Any other status, of an exception that has a handler too.
Decline(r) ==
  /\ Run(r)
  /\ Goto(r, "declined")
  /\ UNCHANGED <<header, redis, left, trouble, answer, promised>>

\* Mutant: the idempotency middleware tries until it works.
RaiseAgain(r) ==
  /\ "handler" \in Faults
  /\ runs[r] < 6
  /\ Run(r)
  /\ Meet(r, "handler")
  /\ Goto(r, "again")
  /\ UNCHANGED <<header, redis, left, answer, promised>>

\* Mutant: the rate limiter always starts over.
RaiseStartsOver(r) ==
  /\ "handler" \in Faults
  /\ runs[r] < 6
  /\ Run(r)
  /\ Meet(r, "handler")
  /\ IF at[r] = "run"
       THEN Goto(r, "again") /\ UNCHANGED left
       ELSE Goto(r, "lookup") /\ left' = [left EXCEPT ![r] = @ - 1]
  /\ UNCHANGED <<header, redis, answer, promised>>

\* Any other exception: the idempotency middleware calls the handler again;
\* from there, or past it, it reaches the rate limiter, which starts over.
Raise(r) ==
  /\ "handler" \in Faults
  /\ Run(r)
  /\ Meet(r, "handler")
  /\ \/ at[r] = "run" /\ Goto(r, "again") /\ UNCHANGED left
     \/ /\ at[r] # "run"
        /\ left[r] > 0
        /\ left' = [left EXCEPT ![r] = @ - 1]
        /\ Goto(r, "lookup")
     \/ at[r] # "run" /\ left[r] = 0 /\ Goto(r, "failed") /\ UNCHANGED left
  /\ UNCHANGED <<header, redis, answer, promised>>

\* A body that was read once cannot be read again: a handler that takes one
\* does not run a second time, and the client gets an error.
BodyIsGone(r) ==
  /\ at[r] \in {"lookup", "again", "bypass"}
  /\ runs[r] > 0
  /\ Goto(r, "failed")
  /\ UNCHANGED <<header, redis, progress, promised>>

Die(r) ==
  /\ "process" \in Faults
  /\ Active(r)
  /\ Goto(r, "gone")
  /\ UNCHANGED <<header, redis, progress, promised>>

\* Redis drops a key after ttl_seconds, and what was promised ends.  (Assumption:
\* no request takes a day; one about to save an answer looked before the key was
\* there.)
Elapse(k) ==
  /\ k \in ttl
  /\ \A r \in Requests : key[r] = k => at[r] \notin {"run", "save", "expire"}
  /\ saved' = [saved EXCEPT ![k] = NoRequest]
  /\ ttl' = ttl \ {k}
  /\ promised' = {p \in promised : p[1] # k}
  /\ retry' = {r \in retry : key[r] # k}
  /\ UNCHANGED <<at, key, body, progress>>

Step(r) ==
  \/ Lookup(r)
  \/ Bypass(r)
  \/ LookupFails(r)
  \/ Save(r)
  \/ Expire(r)
  \/ Succeed(r)
  \/ Decline(r)
  \/ Raise(r)
  \/ BodyIsGone(r)
  \/ Die(r)

Next ==
  \/ \E r \in Requests :
       \/ \E k \in Keys, b \in Bodies : Arrive(r, k, b)
       \/ Step(r)
  \/ \E k \in Keys : Elapse(k)

Spec == Init /\ [][Next]_vars
-----------------------------------------------------------------------------
(***************************************************************************)
(* Properties                                                              *)
(***************************************************************************)
\* An answer that is not the request's own comes from a run of the handler for
\* the same key and body, whatever other requests overwrote meanwhile.
AnswersAreGenuine ==
  \A r \in Requests : at[r] = "answered" =>
    LET q == answer[r] IN
    /\ q \in Requests
    /\ key[q] = key[r] /\ body[q] = body[r]
    /\ runs[q] > 0

\* A client that has an answer (given without trouble) may send its request
\* again until the key expires: the handler does not run for it, unless Redis
\* fails on the way, even while requests with the same key and other bodies
\* are under way.
RetriesDoNotRun ==
  \A r \in retry : "redis" \notin trouble[r] => runs[r] = 0

\* The handler runs once per request; a second time only after an exception or
\* a failure of Redis, and never more often than the two middlewares call on.
RunsAreExplained ==
  \A r \in Requests :
    /\ runs[r] <= 4
    /\ runs[r] > 1 => trouble[r] # {}
    /\ runs[r] > 2 => "handler" \in trouble[r]

\* A saved answer expires, unless the request that saved it was cut off by a
\* failure of Redis or of its process.
SavedAnswersExpire ==
  \A k \in Keys : saved[k] # NoRequest /\ k \notin ttl =>
    \E r \in Requests :
      /\ key[r] = k
      /\ at[r] \in {"expire", "gone"} \/ "redis" \in trouble[r]
=============================================================================
