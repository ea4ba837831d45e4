---------------------------- MODULE TokenBucket ----------------------------
(***************************************************************************)
(* The rate limiter: rate_limit_middleware and TokenBucket.consume of      *)
(* app/middleware/rate_limit.py over the rate_limit:* hash of one user.    *)
(* Reading the clock, reading the bucket and writing it back are separate  *)
(* steps, so that a request may find a bucket that was refilled later than *)
(* the time it goes by.  A bucket of Capacity tokens refills in Period,    *)
(* and its key expires as long after the last write.  Levels are counted   *)
(* in parts, Period of them a token, so that a tick refills Capacity parts.*)
(***************************************************************************)
EXTENDS Integers, FiniteSets, FiniteSetsExt

CONSTANTS
  Consumers,    \* requests of the user
  Capacity,     \* tier_limit
  Period,       \* ticks in the minute
  MaxTime,      \* bound: ticks
  BucketFaults  \* the kinds of failure that may happen

BucketFaultKinds == {"redis",    \* a Redis command raises, or Redis is away
                     "process"}  \* the API process dies

ASSUME BucketFaultsAssumption == BucketFaults \subseteq BucketFaultKinds
ASSUME CapacityAssumption == Capacity \in Nat \ {0} /\ Period \in Nat \ {0}
ASSUME BucketTimeAssumption == MaxTime \in Nat

VARIABLES
  now,     \* time.time(), the same for every process
  bucket,  \* the hash and when it expires
  call,    \* what each request is doing
  lost,    \* history: admissions another write did not know of
  given    \* history: parts that were given away by a failure, or a key that
           \* expired early

bucketVars == <<now, bucket, call, lost, given>>

Full  == Capacity * Period
Never == MaxTime + Period + 1
BucketEnded == {"admitted", "denied", "dead", "cut"}

NoBucket == [level |-> 0, last |-> 0, expires |-> 0]
Idle     == [at |-> "idle", level |-> 0, read |-> 0, seen |-> 0]

BucketTypeOK ==
  /\ now \in 0..MaxTime
  /\ bucket \in [level : 0..Full, last : 0..MaxTime, expires : 0..Never]
  /\ call \in [Consumers -> [at : BucketEnded \cup {"idle", "read", "write", "expire"},
                             level : 0..Full, read : 0..MaxTime,
                             seen : 0..Cardinality(Consumers)]]
  /\ lost \in Nat
  /\ given \in Nat

BucketInit ==
  /\ now = 0
  /\ bucket = NoBucket
  /\ call = [r \in Consumers |-> Idle]
  /\ lost = 0
  /\ given = 0

\* Once the bucket is written only the time of the request matters.
MoveTo(r, step) ==
  call' = [call EXCEPT ![r] = [Idle EXCEPT !.at = step, !.read = call[r].read]]

\* The requests that were let in since a time, or cut off after they had paid.
AdmittedSince(t) ==
  {r \in Consumers : call[r].at \in {"expire", "admitted", "cut"} /\ call[r].read > t}
Admitted == Cardinality(AdmittedSince(-1))

Alive == now < bucket.expires

\* Mutant: the bucket is refilled at the end of a whole Period.
RefilledByPeriod(time) ==
  Min({Full, bucket.level + ((time - bucket.last) \div Period) * Full})

\* What the bucket holds at the time a request has read: less than was written
\* when another request with a later time was faster.
Refilled(time) == Min({Full, bucket.level + (time - bucket.last) * Capacity})
-----------------------------------------------------------------------------
\* The clock is read before the bucket is.
ReadClock(r) ==
  /\ call[r].at = "idle"
  /\ call' = [call EXCEPT ![r].at = "read", ![r].read = now]
  /\ UNCHANGED <<now, bucket, lost, given>>

\* Without Redis every request is let in.
LetIn(r) ==
  /\ call[r].at = "idle"
  /\ "redis" \in BucketFaults
  /\ call' = [call EXCEPT ![r].at = "admitted", ![r].read = now]
  /\ given' = given + Period
  /\ UNCHANGED <<now, bucket, lost>>

ToWrite(r, level) ==
  call' = [call EXCEPT ![r] = [at |-> "write", level |-> level,
                               read |-> call[r].read, seen |-> Admitted]]

\* The bucket in Redis has a token, which is now to be taken from it.
Read(r) ==
  /\ call[r].at = "read"
  /\ Alive
  /\ Refilled(call[r].read) >= Period
  /\ ToWrite(r, Refilled(call[r].read) - Period)
  /\ UNCHANGED <<now, bucket, lost, given>>

Deny(r) ==
  /\ call[r].at = "read"
  /\ Alive
  /\ Refilled(call[r].read) < Period
  /\ MoveTo(r, "denied")
  /\ UNCHANGED <<now, bucket, lost, given>>

\* A new bucket is as old as the time the request has read.
Gift(r) == Full + (now - call[r].read) * Capacity

\* There is no bucket: a full one less a token.  The key may have expired
\* since the request read the clock.
ReadNothing(r) ==
  /\ call[r].at = "read"
  /\ ~Alive
  /\ ToWrite(r, Full - Period)
  /\ given' = given + IF call[r].read < bucket.expires THEN Gift(r) ELSE 0
  /\ UNCHANGED <<now, bucket, lost>>

\* get_rate_limit_state swallows an error of Redis, which looks like no bucket.
ReadFails(r) ==
  /\ call[r].at = "read"
  /\ "redis" \in BucketFaults
  /\ ToWrite(r, Full - Period)
  /\ given' = given + Gift(r)
  /\ UNCHANGED <<now, bucket, lost>>

\* Mutant: the time of the refill is only written with a new bucket.
WriteLevelOnly(r) ==
  /\ call[r].at = "write"
  /\ bucket' = [bucket EXCEPT !.level = call[r].level,
                              !.expires = IF Alive THEN @ ELSE Never]
  /\ lost' = lost + (Admitted - call[r].seen)
  /\ MoveTo(r, "expire")
  /\ UNCHANGED <<now, given>>

\* hset: a key that is there keeps its expiry.  Admissions that were written
\* since this request read the bucket are lost.
Write(r) ==
  /\ call[r].at = "write"
  /\ bucket' = [level |-> call[r].level, last |-> call[r].read,
                expires |-> IF Alive THEN bucket.expires ELSE Never]
  /\ lost' = lost + (Admitted - call[r].seen)
  /\ MoveTo(r, "expire")
  /\ UNCHANGED <<now, given>>

\* A key that is gone by now gets no expiry.
ExpireBucket(r) ==
  /\ call[r].at = "expire"
  /\ bucket' = [bucket EXCEPT !.expires = IF Alive THEN now + Period ELSE @]
  /\ MoveTo(r, "admitted")
  /\ UNCHANGED <<now, lost, given>>

\* What a write that is left unfinished gives away: the token it did not take,
\* or the bucket that keeps its old expiry.
Unfinished(r) == IF call[r].at = "write" THEN Period ELSE Full

\* set_rate_limit_state swallows an error of either command.
WriteFails(r) ==
  /\ call[r].at \in {"write", "expire"}
  /\ "redis" \in BucketFaults
  /\ MoveTo(r, "admitted")
  /\ given' = given + Unfinished(r)
  /\ UNCHANGED <<now, bucket, lost>>

\* The process dies between two commands: the request is not let in, and a
\* token that was taken stays taken.
DieHalfway(r) ==
  /\ call[r].at \in {"write", "expire"}
  /\ "process" \in BucketFaults
  /\ MoveTo(r, IF call[r].at = "write" THEN "dead" ELSE "cut")
  /\ given' = given + IF call[r].at = "write" THEN 0 ELSE Full
  /\ UNCHANGED <<now, bucket, lost>>

\* The old expiry of the key may come between the two commands of a write.
Tick ==
  /\ now < MaxTime
  /\ now' = now + 1
  /\ given' = given + IF now' = bucket.expires /\ \E r \in Consumers : call[r].at = "expire"
                      THEN Full ELSE 0
  /\ UNCHANGED <<bucket, call, lost>>

BucketNext ==
  \/ Tick
  \/ \E r \in Consumers :
       \/ ReadClock(r) \/ LetIn(r) \/ Read(r) \/ Deny(r) \/ ReadNothing(r) \/ ReadFails(r)
       \/ Write(r) \/ ExpireBucket(r) \/ WriteFails(r) \/ DieHalfway(r)

BucketSpec == BucketInit /\ [][BucketNext]_bucketVars
-----------------------------------------------------------------------------
(***************************************************************************)
(* Properties                                                              *)
(***************************************************************************)
\* However requests overlap, those that were let in are covered by one full
\* bucket and what was refilled since, one token for every admission that an
\* overlapping write lost, and what failures gave away: a token for a request
\* let in without the bucket, a bucket for one that was started anew or whose
\* key expired before its time (TokenBucket.consume, get_ and
\* set_rate_limit_state).
AdmittedIsBounded ==
  Admitted * Period <= Full + now * Capacity + lost * Period + given

\* No request that was let in had read a time later than this one by more.
OvertakenBy(r, ticks) ==
  \A q \in AdmittedSince(-1) : call[q].read <= call[r].read + ticks

\* A request is only denied when the user had a full quota in the Period before
\* the time it had read, counting the requests that were cut off after they had
\* paid.  If requests with a later time were faster, it goes short of what is
\* refilled by their time, and of nothing else: neither lost updates nor expiry
\* nor a failure ever takes tokens away (TokenBucket.consume).
DeniedHadQuota ==
  [][\A r \in Consumers :
       call[r].at # "denied" /\ call'[r].at = "denied" =>
         \A ticks \in 0..MaxTime : OvertakenBy(r, ticks) =>
           (Cardinality(AdmittedSince(call[r].read - Period)) + 1) * Period
             + ticks * Capacity > Full]_bucketVars
=============================================================================
