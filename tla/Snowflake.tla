------------------------------ MODULE Snowflake -----------------------------
(***************************************************************************)
(* SnowflakeID.generate() of app/utility/snowflake.py, called by the       *)
(* threads of several processes, each with its own instance, lock and      *)
(* clock.  Times are milliseconds since the custom epoch.  A process that  *)
(* is restarted is another process: it remembers nothing.                  *)
(***************************************************************************)
EXTENDS Integers, Sequences

CONSTANTS
  Processes,    \* API and Celery processes
  Threads,      \* threads that generate ids
  Home,         \* the process of each thread
  Tag,          \* datacenter_id and worker_id of each process, as one number
  Tags,         \* how many of them there are (2^10)
  MaxSequence,  \* max_sequence (2^12 - 1)
  MaxTime,      \* bound: the clocks stop here
  MaxBacks,     \* bound: times each clock is set back
  NoThread      \* "the lock is free"

ASSUME HomeAssumption == Home \in [Threads -> Processes]
ASSUME TagAssumption == Tags \in Nat /\ Tag \in [Processes -> 0..(Tags - 1)]
ASSUME SequenceAssumption == MaxSequence \in Nat
ASSUME BoundAssumption == MaxTime \in Nat /\ MaxBacks \in Nat
ASSUME NoThreadAssumption == NoThread \notin Threads

VARIABLES
  clock,     \* what time.time() shows in each process
  backs,     \* how often it was set back
  lock,      \* self.lock: the thread that holds it
  sequence,  \* self.sequence
  last,      \* self.last_timestamp
  at,        \* where each thread is in generate()
  ts,        \* its local variable timestamp
  issued     \* history: the ids each process handed out, in order

clocks     == <<clock, backs>>
generators == <<lock, sequence, last>>
vars       == <<clocks, generators, at, ts, issued>>

Steps == {"idle", "clock", "compare", "wait", "build"}

\* The fields do not overlap, so that | adds them up.
Id(p, time, seq) == (time * Tags + Tag[p]) * (MaxSequence + 1) + seq

TypeOK ==
  /\ clock \in [Processes -> 0..MaxTime]
  /\ backs \in [Processes -> 0..MaxBacks]
  /\ lock \in [Processes -> Threads \cup {NoThread}]
  /\ sequence \in [Processes -> 0..MaxSequence]
  /\ last \in [Processes -> -1..MaxTime]
  /\ at \in [Threads -> Steps]
  /\ ts \in [Threads -> 0..MaxTime]
  /\ issued \in [Processes -> Seq(Nat)]

Init ==
  /\ clock = [p \in Processes |-> 0]
  /\ backs = [p \in Processes |-> 0]
  /\ lock = [p \in Processes |-> NoThread]
  /\ sequence = [p \in Processes |-> 0]
  /\ last = [p \in Processes |-> -1]
  /\ at = [t \in Threads |-> "idle"]
  /\ ts = [t \in Threads |-> 0]
  /\ issued = [p \in Processes |-> <<>>]
-----------------------------------------------------------------------------
\* The operating system's clock runs, and may be set back.
Tick(p) ==
  /\ clock[p] < MaxTime
  /\ clock' = [clock EXCEPT ![p] = @ + 1]
  /\ UNCHANGED <<backs, generators, at, ts, issued>>

SetBack(p) ==
  /\ backs[p] < MaxBacks
  /\ \E time \in 0..(clock[p] - 1) : clock' = [clock EXCEPT ![p] = time]
  /\ backs' = [backs EXCEPT ![p] = @ + 1]
  /\ UNCHANGED <<generators, at, ts, issued>>

\* Mutant: the lock is not waited for.
AcquireAtOnce(t) ==
  /\ at[t] = "idle"
  /\ last[Home[t]] < MaxTime
  /\ lock' = [lock EXCEPT ![Home[t]] = t]
  /\ at' = [at EXCEPT ![t] = "clock"]
  /\ UNCHANGED <<clocks, sequence, last, ts, issued>>

\* with self.lock.  (Bound: no call once an id bears the last time there is.)
Acquire(t) ==
  /\ at[t] = "idle"
  /\ last[Home[t]] < MaxTime
  /\ lock[Home[t]] = NoThread
  /\ lock' = [lock EXCEPT ![Home[t]] = t]
  /\ at' = [at EXCEPT ![t] = "clock"]
  /\ UNCHANGED <<clocks, sequence, last, ts, issued>>

ReadClock(t) ==
  /\ at[t] = "clock"
  /\ ts' = [ts EXCEPT ![t] = clock[Home[t]]]
  /\ at' = [at EXCEPT ![t] = "compare"]
  /\ UNCHANGED <<clocks, generators, issued>>

Release(t) == lock' = [lock EXCEPT ![Home[t]] = NoThread]

\* Mutant: the exception leaves the lock behind.
ClockMovedBackLocked(t) ==
  /\ at[t] = "compare"
  /\ ts[t] < last[Home[t]]
  /\ at' = [at EXCEPT ![t] = "idle"]
  /\ UNCHANGED <<clocks, generators, ts, issued>>

\* The caller gets an exception, no id.
ClockMovedBack(t) ==
  /\ at[t] = "compare"
  /\ ts[t] < last[Home[t]]
  /\ at' = [at EXCEPT ![t] = "idle"]
  /\ Release(t)
  /\ UNCHANGED <<clocks, sequence, last, ts, issued>>

\* Mutant: the sequence is not masked.
SameMillisecondUnmasked(t) ==
  /\ at[t] = "compare"
  /\ ts[t] = last[Home[t]]
  /\ sequence' = [sequence EXCEPT ![Home[t]] = @ + 1]
  /\ at' = [at EXCEPT ![t] = "build"]
  /\ UNCHANGED <<clocks, lock, last, ts, issued>>

SameMillisecond(t) ==
  LET next == (sequence[Home[t]] + 1) % (MaxSequence + 1) IN
  /\ at[t] = "compare"
  /\ ts[t] = last[Home[t]]
  /\ sequence' = [sequence EXCEPT ![Home[t]] = next]
  /\ at' = [at EXCEPT ![t] = IF next = 0 THEN "wait" ELSE "build"]
  /\ UNCHANGED <<clocks, lock, last, ts, issued>>

NewMillisecond(t) ==
  /\ at[t] = "compare"
  /\ ts[t] > last[Home[t]]
  /\ sequence' = [sequence EXCEPT ![Home[t]] = 0]
  /\ at' = [at EXCEPT ![t] = "build"]
  /\ UNCHANGED <<clocks, lock, last, ts, issued>>

\* The busy loop ends with the first time after last_timestamp it reads.
WaitNextMillis(t) ==
  /\ at[t] = "wait"
  /\ clock[Home[t]] > last[Home[t]]
  /\ ts' = [ts EXCEPT ![t] = clock[Home[t]]]
  /\ at' = [at EXCEPT ![t] = "build"]
  /\ UNCHANGED <<clocks, generators, issued>>

Build(t) ==
  LET p == Home[t] IN
  /\ at[t] = "build"
  /\ last' = [last EXCEPT ![p] = ts[t]]
  /\ issued' = [issued EXCEPT ![p] = Append(@, Id(p, ts[t], sequence[p]))]
  /\ at' = [at EXCEPT ![t] = "idle"]
  /\ Release(t)
  /\ UNCHANGED <<clocks, sequence, ts>>
-----------------------------------------------------------------------------
Generate(t) ==
  \/ ReadClock(t)
  \/ ClockMovedBack(t)
  \/ SameMillisecond(t)
  \/ NewMillisecond(t)
  \/ WaitNextMillis(t)
  \/ Build(t)

Next ==
  \/ \E p \in Processes : Tick(p) \/ SetBack(p)
  \/ \E t \in Threads : Acquire(t) \/ Generate(t)

\* Time passes, and the thread with the lock is scheduled.  Nobody has to ask
\* for an id, and no thread is promised the lock.
Fairness ==
  /\ \A p \in Processes : WF_vars(Tick(p))
  /\ \A t \in Threads : WF_vars(Generate(t))

Spec == Init /\ [][Next]_vars
FairSpec == Spec /\ Fairness
-----------------------------------------------------------------------------
(***************************************************************************)
(* Properties                                                              *)
(***************************************************************************)
\* Ids of one process never repeat and keep growing, through exhausted
\* milliseconds and clocks that are set back while a thread is anywhere in
\* generate().
Ids == 0..((MaxTime + 1) * Tags * (MaxSequence + 1))
Allocator == INSTANCE IdAllocator
ImplementsAllocator == Allocator!Spec

\* The lock is given back: neither the exception nor the wait for the next
\* millisecond, even on a clock that is set back meanwhile, keeps it for ever.
LockIsReleased ==
  \A p \in Processes : lock[p] # NoThread ~> lock[p] = NoThread
=============================================================================
