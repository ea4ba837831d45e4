--------------------------- MODULE SnowflakeProofs --------------------------
(***************************************************************************)
(* Proofs about Snowflake, for any processes, threads, tags, sequence      *)
(* width and clocks that are set back any number of times.                 *)
(***************************************************************************)
EXTENDS Snowflake, TLAPS

\* Exactly the thread that holds the lock of its process is in generate().
Exclusive == \A t \in Threads : at[t] # "idle" <=> lock[Home[t]] = t

\* Ids so far are below those of the next millisecond ...
BelowNext ==
  \A p \in Processes : \A k \in 1..Len(issued[p]) : issued[p][k] < Id(p, last[p] + 1, 0)

\* ... and at most the one last_timestamp and sequence stand for, until a
\* thread has moved them on.
UpToDate ==
  \A p \in Processes :
    (\A t \in Threads : Home[t] = p => at[t] \notin {"wait", "build"}) =>
      \A k \in 1..Len(issued[p]) : issued[p][k] <= Id(p, last[p], sequence[p])

\* A thread about to build an id has a time and sequence that are new.
Ready ==
  \A t \in Threads :
    LET p == Home[t] IN
    /\ at[t] = "wait" => sequence[p] = 0
    /\ at[t] = "build" =>
         \/ ts[t] > last[p]
         \/ /\ ts[t] = last[p]
            /\ \A k \in 1..Len(issued[p]) : issued[p][k] < Id(p, ts[t], sequence[p])

IInv == TypeOK /\ Exclusive /\ BelowNext /\ UpToDate /\ Ready

LEMMA HomeType == \A t \in Threads : Home[t] \in Processes
BY HomeAssumption
-----------------------------------------------------------------------------
(* Arithmetic of the packed fields. *)

\* Dividing by the size of a field is unambiguous.
LEMMA FieldsApart ==
  ASSUME NEW size \in Nat, NEW a \in Int, NEW b \in Int,
         NEW x \in 0..(size - 1), NEW y \in 0..(size - 1),
         a < b
  PROVE  a * size + x < b * size + y
<1>1. (a + 1) * size <= b * size
  <2>1. PICK n \in Nat : b = a + 1 + n
    <3>1. b - (a + 1) \in Nat /\ b = a + 1 + (b - (a + 1))
      OBVIOUS
    <3> QED BY <3>1
  <2>2. n * size >= 0
    OBVIOUS
  <2>3. b * size = (a + 1) * size + n * size
    BY <2>1
  <2>4. b * size \in Int /\ (a + 1) * size \in Int /\ n * size \in Int
    OBVIOUS
  <2> QED BY <2>2, <2>3, <2>4
<1>2. (a + 1) * size = a * size + size
  OBVIOUS
<1>3. a * size \in Int /\ b * size \in Int /\ (a + 1) * size \in Int
  OBVIOUS
<1> QED BY <1>1, <1>2, <1>3

LEMMA IdInt ==
  ASSUME NEW p \in Processes, NEW time \in Int, NEW seq \in 0..MaxSequence
  PROVE  /\ time * Tags + Tag[p] \in Int
         /\ Id(p, time, seq) \in Int
BY TagAssumption, SequenceAssumption DEF Id

\* A later time makes a greater id, whatever the sequence numbers are.
LEMMA IdLater ==
  ASSUME NEW p \in Processes, NEW t1 \in Int, NEW t2 \in Int, t1 < t2,
         NEW s1 \in 0..MaxSequence, NEW s2 \in 0..MaxSequence
  PROVE  Id(p, t1, s1) < Id(p, t2, s2)
<1> DEFINE a == t1 * Tags + Tag[p]
           b == t2 * Tags + Tag[p]
           size == MaxSequence + 1
<1>1. a < b
  BY FieldsApart, TagAssumption
<1>2. a \in Int /\ b \in Int
  BY TagAssumption
<1>3. size \in Nat /\ s1 \in 0..(size - 1) /\ s2 \in 0..(size - 1)
  BY SequenceAssumption
<1>4. Id(p, t1, s1) = a * size + s1 /\ Id(p, t2, s2) = b * size + s2
  BY DEF Id
<1> HIDE DEF a, b, size
<1>5. a * size + s1 < b * size + s2
  BY <1>1, <1>2, <1>3, FieldsApart
<1> QED BY <1>4, <1>5

LEMMA IdNatural ==
  ASSUME NEW p \in Processes, NEW time \in Nat, NEW seq \in 0..MaxSequence
  PROVE  Id(p, time, seq) \in Nat
<1>1. time * Tags \in Nat
  BY TagAssumption
<1>2. time * Tags + Tag[p] \in Nat
  BY <1>1, TagAssumption
<1>3. (time * Tags + Tag[p]) * (MaxSequence + 1) \in Nat
  BY <1>2, SequenceAssumption
<1> QED BY <1>3, SequenceAssumption DEF Id

LEMMA IdNextSequence ==
  ASSUME NEW p \in Processes, NEW time \in Int, NEW seq \in 0..MaxSequence
  PROVE  Id(p, time, seq + 1) = Id(p, time, seq) + 1
<1>1. (time * Tags + Tag[p]) * (MaxSequence + 1) \in Int
  BY TagAssumption, SequenceAssumption
<1> QED BY <1>1, SequenceAssumption DEF Id

LEMMA IdInRange ==
  ASSUME NEW p \in Processes, NEW time \in 0..MaxTime, NEW seq \in 0..MaxSequence
  PROVE  Id(p, time, seq) \in Ids
<1> DEFINE a == time * Tags + Tag[p]
           b == (MaxTime + 1) * Tags
           size == MaxSequence + 1
<1>1. a < b + 0
  BY FieldsApart, TagAssumption, BoundAssumption
<1>2. a \in Int /\ b \in Int
  BY TagAssumption, BoundAssumption
<1>3. size \in Nat /\ seq \in 0..(size - 1) /\ 0 \in 0..(size - 1)
  BY SequenceAssumption
<1>4. Id(p, time, seq) = a * size + seq /\ Ids = 0..(b * size)
  BY DEF Id, Ids
<1> HIDE DEF a, b, size
<1>5. a * size + seq < b * size + 0
  BY <1>1, <1>2, <1>3, FieldsApart
<1>6. b * size \in Int /\ Id(p, time, seq) \in Nat
  BY <1>2, <1>3, IdNatural, BoundAssumption
<1> QED BY <1>4, <1>5, <1>6
-----------------------------------------------------------------------------
(* The invariant. *)

LEMMA InvInit == Init => IInv
<1> SUFFICES ASSUME Init
             PROVE  IInv
  OBVIOUS
<1> USE DEF Init
<1>1. TypeOK
  BY BoundAssumption, SequenceAssumption DEF TypeOK, Steps
<1>2. Exclusive /\ Ready
  BY HomeType, NoThreadAssumption DEF Exclusive, Ready
<1>3. BelowNext /\ UpToDate
  BY DEF BelowNext, UpToDate
<1> QED BY <1>1, <1>2, <1>3 DEF IInv

\* Every step but Build leaves issued and last_timestamp alone.
LEMMA KeepsIds ==
  ASSUME BelowNext, UNCHANGED <<issued, last>>
  PROVE  BelowNext'
BY DEF BelowNext, Id

LEMMA TypeStep ==
  ASSUME TypeOK, NEW t \in Threads, Acquire(t) \/ Generate(t)
  PROVE  clock' = clock /\ backs' = backs /\ TypeOK'
<1> DEFINE p == Home[t]
<1>0. p \in Processes
  BY HomeType
<1> HIDE DEF p
<1> USE DEF TypeOK, Steps, clocks, generators
<1>1. CASE Acquire(t)
  BY <1>0, <1>1 DEF Acquire, p
<1>2. CASE ReadClock(t) \/ WaitNextMillis(t)
  BY <1>0, <1>2 DEF ReadClock, WaitNextMillis, p
<1>3. CASE ClockMovedBack(t)
  <2>1. /\ lock' = [lock EXCEPT ![p] = NoThread]
        /\ at' = [at EXCEPT ![t] = "idle"]
        /\ UNCHANGED <<clock, backs, sequence, last, ts, issued>>
    BY <1>3 DEF ClockMovedBack, Release, p
  <2> QED BY <1>0, <2>1
<1>6. CASE NewMillisecond(t)
  BY <1>0, <1>6, SequenceAssumption DEF NewMillisecond, p
<1>4. CASE SameMillisecond(t)
  <2>1. (sequence[p] + 1) % (MaxSequence + 1) \in 0..MaxSequence
    BY <1>0, SequenceAssumption
  <2> QED BY <1>0, <1>4, <2>1 DEF SameMillisecond, p
<1>5. CASE Build(t)
  <2>1. Id(p, ts[t], sequence[p]) \in Nat
    BY <1>0, IdNatural
  <2>2. last' = [last EXCEPT ![p] = ts[t]]
        /\ issued' = [issued EXCEPT ![p] = Append(@, Id(p, ts[t], sequence[p]))]
        /\ at' = [at EXCEPT ![t] = "idle"]
        /\ lock' = [lock EXCEPT ![p] = NoThread]
        /\ UNCHANGED <<clock, backs, sequence, ts>>
    BY <1>5 DEF Build, Release, p
  <2>3. Append(issued[p], Id(p, ts[t], sequence[p])) \in Seq(Nat)
    BY <1>0, <2>1
  <2>4. issued' \in [Processes -> Seq(Nat)]
    BY <1>0, <2>2, <2>3
  <2> QED BY <1>0, <2>2, <2>4
<1> QED BY <1>1, <1>2, <1>3, <1>4, <1>5, <1>6 DEF Generate

\* Only the holder of the lock is anywhere in generate().
LEMMA Alone ==
  ASSUME TypeOK, Exclusive, NEW t \in Threads, at[t] # "idle"
  PROVE  \A u \in Threads : u # t /\ Home[u] = Home[t] => at[u] = "idle"
BY DEF Exclusive

\* A thread that moves inside generate() keeps the lock; one that leaves gives it back.
LEMMA ExclusiveStep ==
  ASSUME TypeOK, Exclusive, NEW t \in Threads, Acquire(t) \/ Generate(t)
  PROVE  Exclusive'
<1> DEFINE p == Home[t]
<1>0. p \in Processes /\ \A u \in Threads : Home[u] \in Processes
  BY HomeType
<1> USE NoThreadAssumption DEF TypeOK, Exclusive, clocks, generators
<1>1. CASE Acquire(t)
  BY <1>0, <1>1 DEF Acquire
<1>2. CASE ReadClock(t) \/ SameMillisecond(t) \/ NewMillisecond(t) \/ WaitNextMillis(t)
  BY <1>0, <1>2 DEF ReadClock, SameMillisecond, NewMillisecond, WaitNextMillis
<1>3. CASE ClockMovedBack(t) \/ Build(t)
  <2>1. /\ at[t] # "idle"
        /\ lock' = [lock EXCEPT ![p] = NoThread]
        /\ at' = [at EXCEPT ![t] = "idle"]
    BY <1>3 DEF ClockMovedBack, Build, Release
  <2>2. lock[p] = t
    BY <2>1
  <2> HIDE DEF p
  <2>3. ASSUME NEW u \in Threads, Home[u] = p
        PROVE  at'[u] = "idle" /\ lock'[Home[u]] # u
    BY <1>0, <2>1, <2>2, <2>3
  <2>4. ASSUME NEW u \in Threads, Home[u] # p
        PROVE  at'[u] = at[u] /\ lock'[Home[u]] = lock[Home[u]]
    BY <1>0, <2>1, <2>4 DEF p
  <2> QED BY <2>3, <2>4
<1> QED BY <1>1, <1>2, <1>3 DEF Generate

\* A step that changes neither the ids nor the generator of any process, and
\* leaves each thread where it is as far as "wait" and "build" go.
LEMMA QuietStep ==
  ASSUME TypeOK, UpToDate, Ready, UNCHANGED <<issued, last, sequence>>,
         \A u \in Threads : /\ at'[u] \in {"wait", "build"} => at'[u] = at[u] /\ ts'[u] = ts[u]
                            /\ at[u] \in {"wait", "build"} => at'[u] = at[u]
  PROVE  UpToDate' /\ Ready'
<1>1. UpToDate'
  BY DEF UpToDate, Id
<1>2. Ready'
  BY DEF Ready, Id
<1> QED BY <1>1, <1>2

\* Masking does nothing but turn the number after the last one into 0.
LEMMA MaskedIncrement ==
  ASSUME NEW seq \in 0..MaxSequence, (seq + 1) % (MaxSequence + 1) # 0
  PROVE  (seq + 1) % (MaxSequence + 1) = seq + 1
<1> DEFINE size == MaxSequence + 1
<1>1. size \in Nat \ {0} /\ seq + 1 \in 1..size
  BY SequenceAssumption
<1> HIDE DEF size
<1>2. CASE seq + 1 = size
  <2>1. size % size = 0
    BY <1>1
  <2> QED BY <1>2, <2>1 DEF size
<1>3. CASE seq + 1 < size
  <2>1. (seq + 1) % size = seq + 1
    BY <1>1, <1>3
  <2> QED BY <2>1 DEF size
<1> QED BY <1>1, <1>2, <1>3

\* Moving last_timestamp and sequence, before the id they stand for is built.
LEMMA AdvanceStep ==
  ASSUME TypeOK, Exclusive, UpToDate, Ready, NEW t \in Threads,
         SameMillisecond(t) \/ NewMillisecond(t) \/ WaitNextMillis(t)
  PROVE  UpToDate' /\ Ready'
<1> DEFINE p == Home[t]
<1>0. p \in Processes
  BY HomeType
<1>1. /\ at[t] # "idle"
      /\ UNCHANGED <<issued, last>>
      /\ \A q \in Processes : q # p => sequence'[q] = sequence[q]
      /\ \A u \in Threads : u # t => at'[u] = at[u] /\ ts'[u] = ts[u]
      /\ at'[t] \in {"wait", "build"}
  BY <1>0 DEF TypeOK, generators, SameMillisecond, NewMillisecond, WaitNextMillis
<1>2. \A u \in Threads : u # t /\ Home[u] = p => at[u] = "idle"
  BY <1>1, Alone
<1>3. UpToDate'
  BY <1>1 DEF UpToDate, Id
<1>4. at'[t] = "wait" => sequence'[p] = 0
  BY <1>0 DEF TypeOK, SameMillisecond, NewMillisecond, WaitNextMillis
<1>5. at'[t] = "build" =>
         \/ ts'[t] > last[p]
         \/ /\ ts'[t] = last[p]
            /\ \A k \in 1..Len(issued[p]) : issued[p][k] < Id(p, ts'[t], sequence'[p])
  <2>1. CASE SameMillisecond(t)
    <3> SUFFICES ASSUME at'[t] = "build"
                 PROVE  /\ ts'[t] = last[p]
                        /\ \A k \in 1..Len(issued[p]) : issued[p][k] < Id(p, ts'[t], sequence'[p])
      OBVIOUS
    <3> DEFINE next == (sequence[p] + 1) % (MaxSequence + 1)
    <3>1. /\ ts'[t] = last[p] /\ at[t] = "compare"
          /\ sequence'[p] = next /\ next # 0
      BY <1>0, <2>1 DEF SameMillisecond, TypeOK
    <3>2. next = sequence[p] + 1
      BY <1>0, <3>1, MaskedIncrement DEF TypeOK
    <3>3. \A u \in Threads : Home[u] = p => at[u] \notin {"wait", "build"}
      BY <1>2, <3>1
    <3>4. \A k \in 1..Len(issued[p]) : issued[p][k] <= Id(p, last[p], sequence[p])
      BY <1>0, <3>3 DEF UpToDate
    <3>5. last[p] \in Int /\ sequence[p] \in 0..MaxSequence
      BY <1>0 DEF TypeOK
    <3>6. Id(p, last[p], sequence[p] + 1) = Id(p, last[p], sequence[p]) + 1
      BY <1>0, <3>5, IdNextSequence
    <3>7. Id(p, last[p], sequence[p]) \in Int
      BY <1>0, <3>5, IdInt
    <3>8. \A k \in 1..Len(issued[p]) : issued[p][k] \in Int
      BY <1>0 DEF TypeOK
    <3> HIDE DEF next, p
    <3> QED BY <3>1, <3>2, <3>4, <3>6, <3>7, <3>8
  <2>2. CASE NewMillisecond(t) \/ WaitNextMillis(t)
    BY <2>2 DEF NewMillisecond, WaitNextMillis, TypeOK
  <2> QED BY <2>1, <2>2
<1>6. Ready'
  <2> SUFFICES ASSUME NEW u \in Threads, Home[u] # p
               PROVE  /\ at'[u] = "wait" => sequence'[Home[u]] = 0
                      /\ at'[u] = "build" =>
                           \/ ts'[u] > last'[Home[u]]
                           \/ /\ ts'[u] = last'[Home[u]]
                              /\ \A k \in 1..Len(issued'[Home[u]]) :
                                   issued'[Home[u]][k] < Id(Home[u], ts'[u], sequence'[Home[u]])
    BY <1>1, <1>2, <1>4, <1>5 DEF Ready, Id
  <2> QED BY <1>1, HomeType DEF Ready
<1> QED BY <1>3, <1>6

\* What Build appends is greater than all ids before it.
LEMMA BuildIsNew ==
  ASSUME TypeOK, BelowNext, Ready, NEW t \in Threads, at[t] = "build"
  PROVE  LET p == Home[t] IN
         \A k \in 1..Len(issued[p]) : issued[p][k] < Id(p, ts[t], sequence[p])
<1> DEFINE p == Home[t]
<1>0. /\ p \in Processes
      /\ ts[t] \in Int /\ last[p] \in Int /\ sequence[p] \in 0..MaxSequence
      /\ \A k \in 1..Len(issued[p]) : issued[p][k] \in Int
  BY HomeType DEF TypeOK
<1>1. CASE ts[t] > last[p]
  <2>1. Id(p, last[p] + 1, 0) <= Id(p, ts[t], sequence[p])
    <3>1. CASE ts[t] = last[p] + 1
      <4> DEFINE m == ((last[p] + 1) * Tags + Tag[p]) * (MaxSequence + 1)
      <4>1. m \in Int
        BY <1>0, SequenceAssumption, TagAssumption
      <4>2. Id(p, last[p] + 1, 0) = m + 0 /\ Id(p, ts[t], sequence[p]) = m + sequence[p]
        BY <3>1 DEF Id
      <4> HIDE DEF m
      <4> QED BY <1>0, <4>1, <4>2
    <3>2. CASE ts[t] > last[p] + 1
      <4>1. Id(p, last[p] + 1, 0) < Id(p, ts[t], sequence[p])
        BY <1>0, <3>2, IdLater, SequenceAssumption
      <4> QED BY <1>0, <4>1, IdInt, SequenceAssumption
    <3> QED BY <1>0, <1>1, <3>1, <3>2
  <2>2. Id(p, last[p] + 1, 0) \in Int /\ Id(p, ts[t], sequence[p]) \in Int
    BY <1>0, IdInt, SequenceAssumption
  <2>3. \A k \in 1..Len(issued[p]) : issued[p][k] < Id(p, last[p] + 1, 0)
    BY <1>0 DEF BelowNext
  <2> HIDE DEF p
  <2> QED BY <1>0, <2>1, <2>2, <2>3 DEF p
<1>2. CASE ~(ts[t] > last[p])
  BY <1>2 DEF Ready
<1> QED BY <1>1, <1>2

LEMMA BuildStep ==
  ASSUME TypeOK, Exclusive, BelowNext, UpToDate, Ready, NEW t \in Threads, Build(t)
  PROVE  BelowNext' /\ UpToDate' /\ Ready'
<1> DEFINE p == Home[t]
           id == Id(p, ts[t], sequence[p])
<1>0. /\ p \in Processes
      /\ ts[t] \in Nat /\ sequence[p] \in 0..MaxSequence
      /\ issued[p] \in Seq(Nat)
      /\ id \in Nat
  BY HomeType, IdNatural DEF TypeOK
<1>1. /\ last' = [last EXCEPT ![p] = ts[t]]
      /\ issued' = [issued EXCEPT ![p] = Append(@, id)]
      /\ at' = [at EXCEPT ![t] = "idle"]
      /\ at[t] = "build"
      /\ UNCHANGED <<sequence, ts>>
  BY DEF Build
<1>2. \A k \in 1..Len(issued[p]) : issued[p][k] < id
  BY <1>1, BuildIsNew
<1>3. id < Id(p, ts[t] + 1, 0)
  BY <1>0, IdLater, SequenceAssumption
<1>4. Id(p, ts[t] + 1, 0) \in Int
  BY <1>0, IdInt, SequenceAssumption
<1>5. \A u \in Threads : u # t /\ Home[u] = p => at[u] = "idle"
  BY <1>1, Alone
<1> HIDE DEF id
<1>6. issued'[p] = Append(issued[p], id) /\ last'[p] = ts[t]
  BY <1>0, <1>1 DEF TypeOK
<1>7. \A k \in 1..Len(issued'[p]) :
          \/ k \in 1..Len(issued[p]) /\ issued'[p][k] = issued[p][k]
          \/ issued'[p][k] = id
  BY <1>0, <1>6
<1>8. \A q \in Processes : q # p => issued'[q] = issued[q] /\ last'[q] = last[q]
  BY <1>1 DEF TypeOK
<1>9. \A k \in 1..Len(issued'[p]) : issued'[p][k] <= id /\ issued'[p][k] < Id(p, ts[t] + 1, 0)
  <2>1. \A k \in 1..Len(issued[p]) : issued[p][k] \in Nat
    BY <1>0
  <2> SUFFICES ASSUME NEW k \in 1..Len(issued'[p])
               PROVE  issued'[p][k] <= id /\ issued'[p][k] < Id(p, ts[t] + 1, 0)
    OBVIOUS
  <2>2. CASE issued'[p][k] = id
    BY <1>0, <1>3, <2>2
  <2>3. CASE k \in 1..Len(issued[p]) /\ issued'[p][k] = issued[p][k]
    <3>1. issued[p][k] < id /\ issued[p][k] \in Nat
      BY <1>2, <2>1, <2>3
    <3> HIDE DEF p
    <3> QED BY <1>0, <1>3, <1>4, <2>3, <3>1
  <2> QED BY <1>7, <2>2, <2>3
<1>10. BelowNext'
  BY <1>6, <1>8, <1>9 DEF BelowNext, Id
<1>11. UpToDate'
  <2>1. \A k \in 1..Len(issued'[p]) : issued'[p][k] <= Id(p, last'[p], sequence'[p])
    BY <1>1, <1>6, <1>9 DEF id
  <2>2. \A q \in Processes : q # p => \A u \in Threads : Home[u] = q => at'[u] = at[u]
    BY <1>1 DEF TypeOK
  <2> HIDE DEF p
  <2> QED BY <1>1, <1>8, <2>1, <2>2 DEF UpToDate, Id
<1>12. Ready'
  <2> SUFFICES ASSUME NEW u \in Threads, at'[u] # "idle"
               PROVE  /\ at'[u] = "wait" => sequence'[Home[u]] = 0
                      /\ at'[u] = "build" =>
                           \/ ts'[u] > last'[Home[u]]
                           \/ /\ ts'[u] = last'[Home[u]]
                              /\ \A k \in 1..Len(issued'[Home[u]]) :
                                   issued'[Home[u]][k] < Id(Home[u], ts'[u], sequence'[Home[u]])
    BY DEF Ready, Id
  <2>1. u # t /\ at'[u] = at[u]
    BY <1>1 DEF TypeOK
  <2>2. Home[u] # p /\ Home[u] \in Processes
    BY <1>5, <2>1, HomeType
  <2> QED BY <1>1, <1>8, <2>1, <2>2 DEF Ready
<1> QED BY <1>10, <1>11, <1>12

LEMMA InvStep == IInv /\ [Next]_vars => IInv'
<1> SUFFICES ASSUME IInv, [Next]_vars
             PROVE  IInv'
  OBVIOUS
<1> USE DEF IInv
<1>1. CASE UNCHANGED vars
  <2>1. UNCHANGED <<clock, backs, lock, sequence, last, at, ts, issued>>
    BY <1>1 DEF vars, clocks, generators
  <2>2. TypeOK' /\ Exclusive'
    BY <2>1 DEF TypeOK, Exclusive
  <2> QED BY <2>1, <2>2, KeepsIds, QuietStep
<1>2. ASSUME NEW p \in Processes, Tick(p) \/ SetBack(p)
      PROVE  IInv'
  <2>1. UNCHANGED <<lock, sequence, last, at, ts, issued>>
    BY <1>2 DEF Tick, SetBack, generators
  <2>2. TypeOK'
    <3>1. PICK time \in 0..MaxTime : clock' = [clock EXCEPT ![p] = time]
      <4>1. clock[p] \in 0..MaxTime
        BY DEF TypeOK
      <4>2. CASE Tick(p)
        <5>1. clock[p] + 1 \in 0..MaxTime
          BY <4>1, <4>2, BoundAssumption DEF Tick
        <5> QED BY <4>2, <5>1 DEF Tick
      <4>3. CASE SetBack(p)
        <5>1. \A time \in 0..(clock[p] - 1) : time \in 0..MaxTime
          BY <4>1, BoundAssumption
        <5> QED BY <4>3, <5>1 DEF SetBack
      <4> QED BY <1>2, <4>2, <4>3
    <3>2. backs' \in [Processes -> 0..MaxBacks]
      <4>1. CASE Tick(p)
        BY <4>1 DEF TypeOK, Tick
      <4>2. CASE SetBack(p)
        <5>1. backs[p] + 1 \in 0..MaxBacks
          BY <4>2, BoundAssumption DEF TypeOK, SetBack
        <5> QED BY <4>2, <5>1 DEF TypeOK, SetBack
      <4> QED BY <1>2, <4>1, <4>2
    <3>3. clock' \in [Processes -> 0..MaxTime]
      BY <3>1 DEF TypeOK
    <3> QED BY <2>1, <3>2, <3>3 DEF TypeOK
  <2>3. Exclusive'
    BY <2>1 DEF Exclusive
  <2> QED BY <2>1, <2>2, <2>3, KeepsIds, QuietStep
<1>3. ASSUME NEW t \in Threads, Acquire(t) \/ ReadClock(t) \/ ClockMovedBack(t)
      PROVE  IInv'
  <2>1. UNCHANGED <<issued, last, sequence>>
    BY <1>3 DEF Acquire, ReadClock, ClockMovedBack, generators
  <2>2. \A u \in Threads : /\ at'[u] \in {"wait", "build"} => at'[u] = at[u] /\ ts'[u] = ts[u]
                           /\ at[u] \in {"wait", "build"} => at'[u] = at[u]
    BY <1>3 DEF TypeOK, Acquire, ReadClock, ClockMovedBack
  <2>3. TypeOK' /\ Exclusive'
    BY <1>3, TypeStep, ExclusiveStep DEF Generate
  <2> QED BY <2>1, <2>2, <2>3, KeepsIds, QuietStep
<1>4. ASSUME NEW t \in Threads, SameMillisecond(t) \/ NewMillisecond(t) \/ WaitNextMillis(t)
      PROVE  IInv'
  <2>1. UNCHANGED <<issued, last>>
    BY <1>4 DEF SameMillisecond, NewMillisecond, WaitNextMillis, generators
  <2>2. TypeOK' /\ Exclusive'
    BY <1>4, TypeStep, ExclusiveStep DEF Generate
  <2> QED BY <1>4, <2>1, <2>2, KeepsIds, AdvanceStep
<1>5. ASSUME NEW t \in Threads, Build(t)
      PROVE  IInv'
  BY <1>5, TypeStep, ExclusiveStep, BuildStep DEF Generate
<1> QED BY <1>1, <1>2, <1>3, <1>4, <1>5 DEF Next, Generate

LEMMA Invariance == Spec => []IInv
BY InvInit, InvStep, PTL DEF Spec
-----------------------------------------------------------------------------
\* The generator of a process never leaves its ranges: above all, a sequence
\* number never spills into the worker's field.
THEOREM TypeCorrect == Spec => []TypeOK
BY Invariance, PTL DEF IInv

\* Whatever the threads and the clock do, the ids of a process keep growing.
THEOREM Implements == Spec => ImplementsAllocator
<1>1. Init => Allocator!Init
  BY DEF Init, Allocator!Init
<1>2. IInv /\ [Next]_vars => [Allocator!Next]_issued
  <2> SUFFICES ASSUME IInv, [Next]_vars, issued' # issued
               PROVE  Allocator!Next
    OBVIOUS
  <2>1. PICK t \in Threads : Build(t)
    BY DEF Next, Generate, vars, clocks, generators, Tick, SetBack, Acquire, ReadClock, ClockMovedBack,
           SameMillisecond, NewMillisecond, WaitNextMillis
  <2> DEFINE p == Home[t]
             id == Id(p, ts[t], sequence[p])
  <2>2. p \in Processes /\ id \in Ids
    BY HomeType, IdInRange DEF IInv, TypeOK
  <2>3. \A k \in 1..Len(issued[p]) : issued[p][k] < id
    BY <2>1, BuildIsNew DEF IInv, Build
  <2>4. issued' = [issued EXCEPT ![p] = Append(@, id)]
    BY <2>1 DEF Build
  <2>5. Allocator!Issue(p, id)
    BY <2>3, <2>4 DEF Allocator!Issue
  <2> QED BY <2>2, <2>5 DEF Allocator!Next
<1> QED BY <1>1, <1>2, Invariance, PTL DEF Spec, ImplementsAllocator, Allocator!Spec
=============================================================================
