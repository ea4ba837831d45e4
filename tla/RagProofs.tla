------------------------------ MODULE RagProofs ------------------------------
(***************************************************************************)
(* Proofs about how questions are answered.  TextChunker, for any texts,   *)
(* chunk sizes and overlaps; HybridSearch, for any answers of the two      *)
(* searches over its chunks, any k and any limits; QueryCache, for any     *)
(* documents, questions, clients, sweeps and faults.                       *)
(***************************************************************************)
EXTENDS HybridSearch, QueryCache, FiniteSetTheorems, TLAPS

(***************************************************************************)
(* TextChunker                                                             *)
(***************************************************************************)
Intervals == [from : Nat, to : Nat]

\* The last chunk is whole, and the next one begins a stride behind it.
LastLeadsOn ==
  loop = "run" =>
    /\ ~text.blank
    /\ chunks = <<>> => start = 0
    /\ chunks # <<>> =>
         LET last == chunks[Len(chunks)]
         IN  start = last.from + Stride /\ last.to = last.from + text.size /\ last.to < text.tokens

\* Some chunk holds the passage that begins at a token.
InChunk(i, token) ==
  /\ chunks[i].from <= token
  /\ Min({token + Min({text.overlap + 1, text.size}), text.tokens}) <= chunks[i].to
Whole(token) == \E i \in DOMAIN chunks : InChunk(i, token)

WholeSoFar == loop = "run" => \A token \in 0..(start - 1) : Whole(token)

NothingYet == loop = "begin" => chunks = <<>> /\ start = 0

ChunkerIInv ==
  /\ ChunkerTypeOK /\ NothingYet /\ LastLeadsOn /\ WholeSoFar
  /\ ChunksAdvance /\ PassagesAreWhole

LEMMA Larger ==
  ASSUME NEW a \in Int, NEW b \in Int
  PROVE  Max({a, b}) = IF a >= b THEN a ELSE b
BY DEF Max

LEMMA Smaller ==
  ASSUME NEW a \in Int, NEW b \in Int
  PROVE  Min({a, b}) = IF a <= b THEN a ELSE b
BY DEF Min

LEMMA TextType ==
  ASSUME ChunkerTypeOK
  PROVE  /\ text.tokens \in Nat /\ text.size \in Nat \ {0} /\ text.overlap \in Nat
         /\ text.blank \in BOOLEAN
BY ChunkerAssumption DEF ChunkerTypeOK, Texts

\* The stride is at least one token, and what it leaves of a chunk is enough for
\* a passage.
LEMMA Strides ==
  ASSUME ChunkerTypeOK
  PROVE  /\ Stride \in Nat \ {0}
         /\ Min({text.overlap + 1, text.size}) \in Nat
         /\ Stride - 1 + Min({text.overlap + 1, text.size}) <= text.size
<1>1. text.size \in Nat \ {0} /\ text.overlap \in Nat
  BY TextType
<1>2. Stride = IF text.size - text.overlap >= 1 THEN text.size - text.overlap ELSE 1
  BY <1>1, Larger DEF Stride
<1>3. Min({text.overlap + 1, text.size})
        = IF text.overlap + 1 <= text.size THEN text.overlap + 1 ELSE text.size
  BY <1>1, Smaller
<1> QED BY <1>1, <1>2, <1>3

LEMMA ChunkerStart == ChunkerInit => ChunkerIInv
<1> SUFFICES ASSUME ChunkerInit PROVE ChunkerIInv
  OBVIOUS
<1>1. text \in Texts /\ start = 0 /\ chunks = <<>> /\ loop = "begin"
  BY DEF ChunkerInit
<1> QED
  BY <1>1 DEF ChunkerIInv, ChunkerTypeOK, NothingYet, LastLeadsOn, WholeSoFar, ChunksAdvance,
              PassagesAreWhole

LEMMA ShortStep ==
  ASSUME ChunkerIInv, Short
  PROVE  ChunkerIInv'
<1>0. /\ ChunkerTypeOK /\ loop' = "end" /\ UNCHANGED <<text, start>>
      /\ text.blank \/ text.tokens <= text.size
      /\ chunks' = IF text.blank THEN <<>> ELSE <<Interval(0, text.tokens)>>
  BY DEF ChunkerIInv, Short
<1>1. /\ text.tokens \in Nat /\ text.size \in Nat \ {0} /\ text.overlap \in Nat
      /\ text.blank \in BOOLEAN
  BY <1>0, TextType
<1>2. ChunkerTypeOK'
  <2>1. Interval(0, text.tokens) \in [from : Nat, to : Nat]
    BY <1>1 DEF Interval
  <2>2. CASE text.blank
    BY <1>0, <2>2 DEF ChunkerTypeOK
  <2>3. CASE ~text.blank
    <3>1. chunks' = <<Interval(0, text.tokens)>>
      BY <1>0, <2>3
    <3>2. chunks' \in Seq(Intervals)
      BY <2>1, <3>1 DEF Intervals
    <3> QED BY <1>0, <3>2 DEF ChunkerTypeOK, Intervals
  <2> QED BY <2>2, <2>3
<1>3. NothingYet' /\ LastLeadsOn' /\ WholeSoFar'
  BY <1>0 DEF NothingYet, LastLeadsOn, WholeSoFar
<1>4. ChunksAdvance'
  <2>1. Len(chunks') - 1 <= 0
    BY <1>0
  <2>2. Len(chunks') \in Nat
    BY <1>2 DEF ChunkerTypeOK
  <2> QED BY <2>1, <2>2 DEF ChunksAdvance
<1>5. PassagesAreWhole'
  <2> SUFFICES ASSUME ~text.blank, NEW token \in 0..(text.tokens - 1)
               PROVE  \E i \in DOMAIN chunks' :
                        /\ chunks'[i].from <= token
                        /\ Min({token + Min({text.overlap + 1, text.size}), text.tokens})
                             <= chunks'[i].to
    BY <1>0 DEF PassagesAreWhole
  <2>1. chunks' = <<Interval(0, text.tokens)>>
    BY <1>0
  <2>2. 1 \in DOMAIN chunks' /\ chunks'[1].from = 0 /\ chunks'[1].to = text.tokens
    BY <2>1 DEF Interval
  <2>3. Min({text.overlap + 1, text.size}) \in Nat
    BY <1>0, Strides
  <2>4. Min({token + Min({text.overlap + 1, text.size}), text.tokens}) <= text.tokens
    BY <1>1, <2>3, Smaller
  <2> QED BY <1>1, <2>2, <2>4
<1> QED BY <1>2, <1>3, <1>4, <1>5 DEF ChunkerIInv

LEMMA LongStep ==
  ASSUME ChunkerIInv, Long
  PROVE  ChunkerIInv'
<1>1. /\ loop = "begin" /\ loop' = "run" /\ ~text.blank /\ chunks = <<>> /\ start = 0
      /\ UNCHANGED <<text, start, chunks>>
  BY DEF ChunkerIInv, NothingYet, Long
<1>2. ChunkerTypeOK' /\ ChunksAdvance'
  BY <1>1 DEF ChunkerIInv, ChunkerTypeOK, ChunksAdvance
<1>3. NothingYet' /\ LastLeadsOn' /\ WholeSoFar' /\ PassagesAreWhole'
  BY <1>1 DEF NothingYet, LastLeadsOn, WholeSoFar, PassagesAreWhole
<1> QED BY <1>2, <1>3 DEF ChunkerIInv

LEMMA CutStep ==
  ASSUME ChunkerIInv, Cut
  PROVE  ChunkerIInv'
<1> DEFINE to   == Min({start + text.size, text.tokens})
           n    == Len(chunks)
           reach == Min({text.overlap + 1, text.size})
<1>0. /\ ChunkerTypeOK /\ loop = "run" /\ UNCHANGED text
      /\ chunks' = Append(chunks, Interval(start, to))
      /\ start' = IF to = text.tokens THEN start ELSE start + Stride
      /\ loop' = IF to = text.tokens THEN "end" ELSE "run"
  BY DEF ChunkerIInv, Cut
<1>1. text.tokens \in Nat /\ text.size \in Nat \ {0} /\ start \in Nat /\ ~text.blank
  BY <1>0, TextType DEF ChunkerTypeOK, ChunkerIInv, LastLeadsOn
<1>2. Stride \in Nat \ {0} /\ reach \in Nat /\ Stride - 1 + reach <= text.size
  BY <1>0, Strides
<1>3. to \in Nat /\ to = IF start + text.size <= text.tokens THEN start + text.size ELSE text.tokens
  BY <1>1, Smaller
<1>4. Stride' = Stride
  BY <1>0 DEF Stride
<1> HIDE DEF to
<1>5. n \in Nat /\ chunks \in Seq([from : Nat, to : Nat])
  BY <1>0 DEF ChunkerTypeOK
<1>6. Interval(start, to) \in [from : Nat, to : Nat]
  BY <1>1, <1>3 DEF Interval
<1>7. /\ chunks' \in Seq([from : Nat, to : Nat]) /\ Len(chunks') = n + 1
      /\ \A i \in 1..n : chunks'[i] = chunks[i]
      /\ chunks'[n + 1].from = start /\ chunks'[n + 1].to = to
      /\ DOMAIN chunks = 1..n /\ DOMAIN chunks' = 1..(n + 1) /\ chunks' # <<>>
  BY <1>0, <1>5, <1>6 DEF Interval
<1>8. ASSUME n # 0
      PROVE  /\ n \in 1..n /\ start = chunks[n].from + Stride
             /\ chunks[n].to = chunks[n].from + text.size /\ chunks[n].to < text.tokens
             /\ chunks[n].from \in Nat
  <2>1. chunks # <<>> /\ n \in 1..n
    BY <1>5, <1>8
  <2>2. chunks \in Seq(Intervals)
    BY <1>5 DEF Intervals
  <2>3. chunks[n] \in Intervals
    BY <2>1, <2>2
  <2> QED BY <1>0, <2>1, <2>3 DEF Intervals, ChunkerIInv, LastLeadsOn
<1> HIDE DEF n, reach
<1>9. ChunkerTypeOK'
  BY <1>0, <1>1, <1>2, <1>7 DEF ChunkerTypeOK
<1>10. NothingYet'
  BY <1>0 DEF NothingYet
<1>11. LastLeadsOn'
  BY <1>0, <1>1, <1>3, <1>4, <1>5, <1>7 DEF LastLeadsOn
<1>12. ChunksAdvance'
  <2> SUFFICES ASSUME NEW i \in 1..n
               PROVE  chunks'[i].from < chunks'[i + 1].from /\ chunks'[i].to < chunks'[i + 1].to
    BY <1>5, <1>7 DEF ChunksAdvance
  <2>1. CASE i = n
    <3>1. n # 0 /\ chunks'[n] = chunks[n]
      BY <1>5, <1>7, <2>1
    <3>2. chunks[n].from < start /\ chunks[n].to < to
      BY <1>1, <1>2, <1>3, <1>8, <3>1
    <3> QED BY <1>7, <2>1, <3>1, <3>2
  <2>2. CASE i # n
    <3>1. i \in 1..(n - 1) /\ i + 1 \in 1..n
      BY <1>5, <2>2
    <3> QED BY <1>7, <3>1 DEF ChunkerIInv, ChunksAdvance, n
  <2> QED BY <2>1, <2>2
\* Every token before the next start has its passage, and once the loop has
\* ended the tokens behind it have theirs in the last chunk.
<1>13. ASSUME NEW token \in Nat, token < start
       PROVE  Whole(token)'
  <2>1. Whole(token)
    BY <1>0, <1>1, <1>13 DEF ChunkerIInv, WholeSoFar
  <2>2. PICK i \in DOMAIN chunks : InChunk(i, token)
    BY <2>1 DEF Whole
  <2>3. i \in 1..n /\ i \in DOMAIN chunks' /\ chunks'[i] = chunks[i]
    BY <1>5, <1>7, <2>2
  <2>4. InChunk(i, token)'
    BY <1>0, <2>2, <2>3 DEF InChunk
  <2> QED BY <2>3, <2>4 DEF Whole
<1>14. ASSUME NEW token \in Nat, start <= token,
              Min({token + reach, text.tokens}) <= to
       PROVE  Whole(token)'
  <2>1. PICK i \in Nat : i = n + 1
    BY <1>5
  <2>2. i \in DOMAIN chunks' /\ chunks'[i].from = start /\ chunks'[i].to = to
    BY <1>5, <1>7, <2>1
  <2>3. Min({token + Min({text'.overlap + 1, text'.size}), text'.tokens}) <= to
    BY <1>0, <1>14 DEF reach
  <2>4. InChunk(i, token)'
    BY <1>14, <2>2, <2>3 DEF InChunk
  <2> QED BY <2>2, <2>4 DEF Whole
<1>15. WholeSoFar'
  <2> SUFFICES ASSUME to # text.tokens, NEW token \in 0..(start' - 1)
               PROVE  Whole(token)'
    BY <1>0 DEF WholeSoFar
  <2>1. start' = start + Stride /\ to = start + text.size
    BY <1>0, <1>3
  <2>2. CASE token < start
    BY <1>13, <2>2
  <2>3. CASE start <= token
    <3>1. token + reach <= to
      BY <1>1, <1>2, <2>1
    <3>2. Min({token + reach, text.tokens}) <= to
      BY <1>1, <1>2, <1>3, <3>1, Smaller
    <3> QED BY <1>14, <2>3, <3>2
  <2> QED BY <1>1, <2>2, <2>3
<1>16. PassagesAreWhole'
  <2> SUFFICES ASSUME to = text.tokens, NEW token \in 0..(text.tokens - 1)
               PROVE  Whole(token)'
    BY <1>0 DEF PassagesAreWhole, Whole, InChunk
  <2>1. CASE token < start
    BY <1>13, <2>1
  <2>2. CASE start <= token
    <3>1. Min({token + reach, text.tokens}) <= to
      BY <1>1, <1>2, Smaller
    <3> QED BY <1>14, <2>2, <3>1
  <2> QED BY <1>1, <2>1, <2>2
<1> QED BY <1>9, <1>10, <1>11, <1>12, <1>15, <1>16 DEF ChunkerIInv

LEMMA ChunkerSteady ==
  ChunkerIInv /\ [HybridNext]_hybridVars => ChunkerIInv'
<1> SUFFICES ASSUME ChunkerIInv, [HybridNext]_hybridVars PROVE ChunkerIInv'
  OBVIOUS
<1>1. CASE UNCHANGED chunkerVars
  <2>1. UNCHANGED <<text, start, chunks, loop>>
    BY <1>1 DEF chunkerVars
  <2> QED
    BY <2>1 DEF ChunkerIInv, ChunkerTypeOK, NothingYet, LastLeadsOn, WholeSoFar, Whole, InChunk,
                Stride, ChunksAdvance, PassagesAreWhole
<1>2. CASE ChunkerNext
  BY <1>2, ShortStep, LongStep, CutStep DEF ChunkerNext
<1>3. CASE UNCHANGED hybridVars
  BY <1>1, <1>3 DEF hybridVars
<1>4. CASE HybridNext
  BY <1>1, <1>2, <1>4
     DEF HybridNext, BeginSearch, VectorSearch, KeywordSearch, SearchFails, ReturnVector,
         ReturnKeyword, Fuse, Return
<1> QED BY <1>3, <1>4

LEMMA ChunkerIsSteady == HybridSpec => []ChunkerIInv
<1>1. HybridInit => ChunkerIInv
  BY ChunkerStart DEF HybridInit
<1> QED BY <1>1, ChunkerSteady, PTL DEF HybridSpec

\* However long the text and the overlap, the loop goes forward and no chunk lies
\* inside another (DocumentChunker.chunk).
THEOREM ChunksGoForward == HybridSpec => []ChunksAdvance
<1>1. ChunkerIInv => ChunksAdvance
  BY DEF ChunkerIInv
<1> QED BY ChunkerIsSteady, <1>1, PTL

\* Every passage of up to an overlap and a token lies whole in a chunk, for every
\* chunk size and overlap (DocumentChunker.chunk).
THEOREM NoPassageIsTorn == HybridSpec => []PassagesAreWhole
<1>1. ChunkerIInv => PassagesAreWhole
  BY DEF ChunkerIInv
<1> QED BY ChunkerIsSteady, <1>1, PTL

-----------------------------------------------------------------------------
(***************************************************************************)
(* HybridSearch: reciprocal rank fusion                                    *)
(***************************************************************************)
\* The lists when both searches have answered.
Lists == vector \in Seq(Nat \cup {Legacy}) /\ keyword \in Seq(Nat)

LEMMA Ranks ==
  ASSUME NEW S, NEW list \in Seq(S), NEW c \in Range(list)
  PROVE  /\ Rank(list, c) \in 1..Len(list) /\ list[Rank(list, c)] = c
         /\ Rank(list, c) \in Nat \ {0}
<1>1. DOMAIN list = 1..Len(list) /\ Len(list) \in Nat
  OBVIOUS
<1>2. \E i \in DOMAIN list : list[i] = c
  BY DEF Range
<1>3. Rank(list, c) \in DOMAIN list /\ list[Rank(list, c)] = c
  BY <1>2 DEF Rank
<1> QED BY <1>1, <1>3

\* The rank of a chunk in each list that holds it, and where it enters.
LEMMA MergedRanks ==
  ASSUME Lists, NEW c \in Merged
  PROVE  /\ In(vector, c) \/ In(keyword, c)
         /\ In(vector, c) => /\ Rank(vector, c) \in 1..Len(vector)
                             /\ vector[Rank(vector, c)] = c
         /\ In(keyword, c) => /\ Rank(keyword, c) \in 1..Len(keyword)
                              /\ keyword[Rank(keyword, c)] = c
         /\ Len(vector) \in Nat /\ Len(keyword) \in Nat
<1>1. In(vector, c) \/ In(keyword, c)
  BY DEF Merged, In
<1>2. vector \in Seq(Nat \cup {Legacy}) /\ keyword \in Seq(Nat)
  BY DEF Lists
<1>3. In(vector, c) => Rank(vector, c) \in 1..Len(vector) /\ vector[Rank(vector, c)] = c
  BY <1>2, Ranks DEF In
<1>4. In(keyword, c) => Rank(keyword, c) \in 1..Len(keyword) /\ keyword[Rank(keyword, c)] = c
  BY <1>2, Ranks DEF In
<1> QED BY <1>1, <1>2, <1>3, <1>4

\* A score is a fraction of two positive numbers.
LEMMA ScoreIs ==
  ASSUME Lists, NEW c \in Merged
  PROVE  /\ RrfScore(c).over \in Nat \ {0}
         /\ RrfScore(c).under \in Nat \ {0}
         /\ In(vector, c) /\ In(keyword, c) =>
              /\ RrfScore(c).over = (K + Rank(vector, c)) + (K + Rank(keyword, c))
              /\ RrfScore(c).under = (K + Rank(vector, c)) * (K + Rank(keyword, c))
         /\ ~(In(vector, c) /\ In(keyword, c)) =>
              RrfScore(c).over = 1 /\ RrfScore(c).under > K
<1> DEFINE v == K + Rank(vector, c)
           w == K + Rank(keyword, c)
<1>1. K \in Nat
  BY FusionAssumption
<1>2. In(vector, c) => v \in Nat \ {0} /\ v > K
  BY <1>1, MergedRanks
<1>3. In(keyword, c) => w \in Nat \ {0} /\ w > K
  BY <1>1, MergedRanks
<1>4. In(vector, c) \/ In(keyword, c)
  BY MergedRanks
<1>5. RrfScore(c) = IF In(vector, c) /\ In(keyword, c)
                    THEN [over |-> v + w, under |-> v * w]
                    ELSE [over |-> 1, under |-> IF In(vector, c) THEN v ELSE w]
  BY DEF RrfScore, Score
<1> HIDE DEF v, w
<1>6. CASE In(vector, c) /\ In(keyword, c)
  <2>1. RrfScore(c) = [over |-> v + w, under |-> v * w]
    BY <1>5, <1>6
  <2>2. v + w \in Nat \ {0} /\ v * w \in Nat \ {0}
    BY <1>2, <1>3, <1>6
  <2> QED BY <1>6, <2>1, <2>2 DEF v, w
<1>7. CASE In(vector, c) /\ ~In(keyword, c)
  BY <1>2, <1>5, <1>7
<1>8. CASE ~In(vector, c) /\ In(keyword, c)
  BY <1>3, <1>5, <1>8
<1> QED BY <1>4, <1>6, <1>7, <1>8

LEMMA EntryIs ==
  ASSUME Lists, NEW c \in Merged
  PROVE  Entered(c) \in Nat
<1>1. CASE In(vector, c)
  BY <1>1, MergedRanks DEF Entered
<1>2. CASE ~In(vector, c)
  <2>1. In(keyword, c) /\ Rank(keyword, c) \in 1..Len(keyword)
    BY <1>2, MergedRanks
  <2> QED BY <1>2, <2>1, MergedRanks DEF Entered
<1> QED BY <1>1, <1>2

LEMMA EntriesDiffer ==
  ASSUME Lists, NEW c \in Merged, NEW d \in Merged, Entered(c) = Entered(d)
  PROVE  c = d
<1>1. CASE In(vector, c) /\ In(vector, d)
  <2>1. Rank(vector, c) = Rank(vector, d)
    BY <1>1 DEF Entered
  <2> QED BY <1>1, <2>1, MergedRanks
<1>2. CASE ~In(vector, c) /\ ~In(vector, d)
  <2>1. Len(vector) + Rank(keyword, c) = Len(vector) + Rank(keyword, d)
    BY <1>2 DEF Entered
  <2>2. In(keyword, c) /\ In(keyword, d)
    BY <1>2, MergedRanks
  <2>3. Rank(keyword, c) = Rank(keyword, d)
    BY <2>1, <2>2, MergedRanks
  <2> QED BY <2>2, <2>3, MergedRanks
<1>3. ASSUME NEW x \in Merged, NEW y \in Merged, In(vector, x), ~In(vector, y)
      PROVE  Entered(x) < Entered(y)
  <2>1. Rank(vector, x) \in 1..Len(vector) /\ Rank(keyword, y) \in 1..Len(keyword)
    BY <1>3, MergedRanks
  <2>2. Len(vector) \in Nat /\ Len(keyword) \in Nat
    BY MergedRanks
  <2>3. Entered(x) = Rank(vector, x) /\ Entered(y) = Len(vector) + Rank(keyword, y)
    BY <1>3 DEF Entered
  <2> QED BY <2>1, <2>2, <2>3
<1>4. Entered(c) \in Nat
  BY EntryIs
<1> QED BY <1>1, <1>2, <1>3, <1>4

(***************************************************************************)
(* Fractions                                                               *)
(***************************************************************************)
LEMMA TimesGrows ==
  ASSUME NEW a \in Nat, NEW b \in Nat, NEW c \in Nat \ {0}
  PROVE  (a > b) <=> (a * c > b * c)
OBVIOUS

\* The order of fractions.
LEMMA FractionsLead ==
  ASSUME NEW a \in Nat \ {0}, NEW b \in Nat \ {0}, NEW c \in Nat \ {0}, NEW d \in Nat \ {0},
         NEW e \in Nat \ {0}, NEW f \in Nat \ {0}, a * d >= c * b, c * f >= e * d
  PROVE  /\ a * f >= e * b
         /\ (a * d > c * b \/ c * f > e * d) => a * f > e * b
<1>1. PICK x \in Nat, y \in Nat, z \in Nat, t \in Nat, p \in Nat, q \in Nat :
        /\ x = a * d /\ y = c * b /\ z = c * f /\ t = e * d /\ p = a * f /\ q = e * b
  OBVIOUS
\* afd >= cbf = cfb >= edb
<1>2. x * f = p * d /\ y * f = z * b /\ t * b = q * d
  BY <1>1
<1>3. x * f >= y * f /\ z * b >= t * b
  BY <1>1, TimesGrows
<1>4. (x > y => x * f > y * f) /\ (z > t => z * b > t * b)
  BY <1>1, TimesGrows
<1>5. x * f \in Nat /\ y * f \in Nat /\ z * b \in Nat /\ t * b \in Nat /\ p * d \in Nat /\ q * d \in Nat
  BY <1>1
<1>6. p * d >= q * d
  BY <1>2, <1>3, <1>5
<1>7. x > y \/ z > t => p * d > q * d
  BY <1>2, <1>3, <1>4, <1>5
<1>8. p >= q
  BY <1>5, <1>6, TimesGrows, <1>1
<1>9. x > y \/ z > t => p > q
  BY <1>7, TimesGrows
<1> QED BY <1>1, <1>8, <1>9

\* Two ranks down to k + 2, not both that far down, beat any one rank.
LEMMA TwoBeatOne ==
  ASSUME NEW k \in Nat, NEW v \in Nat \ {0}, NEW w \in Nat \ {0}, NEW u \in Nat,
         v <= 2 * (k + 1), w <= 2 * (k + 1), v + w < 4 * (k + 1), u > k
  PROVE  (v + w) * u > 1 * (v * w)
<1> DEFINE m == 2 * (k + 1)
<1>1. v * w <= v * m /\ v * w <= m * w
  OBVIOUS
<1>2. v * w < v * m \/ v * w < m * w
  <2>1. w < m \/ v < m
    OBVIOUS
  <2> QED BY <2>1
<1>3. 2 * (v * w) < v * m + m * w
  BY <1>1, <1>2
<1>4. v * m + m * w = 2 * ((v + w) * (k + 1))
  OBVIOUS
<1>5. (v + w) * u >= (v + w) * (k + 1)
  OBVIOUS
<1> QED BY <1>3, <1>4, <1>5

(***************************************************************************)
(* The sort                                                                *)
(***************************************************************************)
LEMMA OrderIsTotal ==
  ASSUME Lists, NEW c \in Merged, NEW d \in Merged, c # d
  PROVE  Before(c, d) \/ Before(d, c)
<1>1. Entered(c) \in Nat /\ Entered(d) \in Nat /\ Entered(c) # Entered(d)
  BY EntryIs, EntriesDiffer
<1> QED BY <1>1 DEF Before

LEMMA OrderIsStrict ==
  ASSUME Lists, NEW c \in Merged
  PROVE  ~Before(c, c)
<1>1. RrfScore(c).over \in Nat /\ RrfScore(c).under \in Nat /\ Entered(c) \in Nat
  BY ScoreIs, EntryIs
<1>2. RrfScore(c).over * RrfScore(c).under \in Nat
  BY <1>1
<1> QED BY <1>1, <1>2 DEF Before, Higher

LEMMA OrderLeadsOn ==
  ASSUME Lists, NEW c \in Merged, NEW d \in Merged, NEW e \in Merged,
         Before(c, d), Before(d, e)
  PROVE  Before(c, e)
<1>1. PICK a \in Nat \ {0}, b \in Nat \ {0} : a = RrfScore(c).over /\ b = RrfScore(c).under
  BY ScoreIs
<1>2. PICK f \in Nat \ {0}, g \in Nat \ {0} : f = RrfScore(d).over /\ g = RrfScore(d).under
  BY ScoreIs
<1>3. PICK p \in Nat \ {0}, q \in Nat \ {0} : p = RrfScore(e).over /\ q = RrfScore(e).under
  BY ScoreIs
<1>4. /\ Higher(c, d) <=> a * g > f * b
      /\ Higher(d, c) <=> f * b > a * g
      /\ Higher(d, e) <=> f * q > p * g
      /\ Higher(e, d) <=> p * g > f * q
      /\ Higher(c, e) <=> a * q > p * b
      /\ Higher(e, c) <=> p * b > a * q
  BY <1>1, <1>2, <1>3 DEF Higher
<1>5. /\ a * g \in Nat /\ f * b \in Nat /\ f * q \in Nat /\ p * g \in Nat /\ a * q \in Nat
      /\ p * b \in Nat
  OBVIOUS
<1>6. a * g >= f * b /\ f * q >= p * g
  BY <1>4, <1>5 DEF Before
<1>7. /\ a * q >= p * b
      /\ a * g > f * b \/ f * q > p * g => a * q > p * b
  BY <1>6, FractionsLead
<1>8. CASE Higher(c, d) \/ Higher(d, e)
  BY <1>4, <1>7, <1>8 DEF Before
<1>9. CASE ~Higher(c, d) /\ ~Higher(d, e)
  <2>1. Entered(c) < Entered(d) /\ Entered(d) < Entered(e)
    BY <1>9 DEF Before
  <2>2. Entered(c) < Entered(e)
    BY <2>1, EntryIs
  <2> QED BY <1>4, <1>5, <1>7, <2>2 DEF Before
<1> QED BY <1>8, <1>9

LEMMA MergedIsFinite ==
  ASSUME Lists
  PROVE  IsFiniteSet(Merged) /\ Cardinality(Merged) \in Nat
<1>1. ASSUME NEW S, NEW list \in Seq(S)
      PROVE  IsFiniteSet(Range(list))
  <2>1. DOMAIN list = 1..Len(list) /\ Len(list) \in Nat
    OBVIOUS
  <2>2. IsFiniteSet(1..Len(list))
    BY <2>1, FS_Interval
  <2>3. list \in Surjection(1..Len(list), Range(list))
    BY <2>1 DEF Surjection, Range
  <2> QED BY <2>2, <2>3, FS_Surjection
<1>2. IsFiniteSet(Range(vector)) /\ IsFiniteSet(Range(keyword))
  BY <1>1 DEF Lists
<1>3. IsFiniteSet(Range(vector) \cup Range(keyword))
  BY <1>2, FS_Union
<1>4. IsFiniteSet(Merged)
  BY <1>3, FS_Subset DEF Merged
<1> QED BY <1>4, FS_CardinalityType

\* How many come before a chunk.
Place(c) == Cardinality({d \in Merged : Before(d, c)})

LEMMA PlaceIs ==
  ASSUME Lists, NEW c \in Merged
  PROVE  Place(c) \in 0..(Cardinality(Merged) - 1)
<1> DEFINE Ahead == {d \in Merged : Before(d, c)}
<1>1. IsFiniteSet(Merged) /\ Cardinality(Merged) \in Nat
  BY MergedIsFinite
<1>2. Ahead \subseteq Merged /\ c \notin Ahead
  BY OrderIsStrict
<1>3. /\ IsFiniteSet(Ahead) /\ Cardinality(Ahead) <= Cardinality(Merged)
      /\ Cardinality(Merged) = Cardinality(Ahead) => Merged = Ahead
  BY <1>1, <1>2, FS_Subset
<1>4. Cardinality(Ahead) \in Nat
  BY <1>3, FS_CardinalityType
<1>5. Cardinality(Ahead) # Cardinality(Merged)
  BY <1>2, <1>3
<1> HIDE DEF Ahead
<1>6. Cardinality(Ahead) \in 0..(Cardinality(Merged) - 1)
  BY <1>1, <1>3, <1>4, <1>5
<1> QED BY <1>6 DEF Place, Ahead

LEMMA PlacesFollow ==
  ASSUME Lists, NEW c \in Merged, NEW d \in Merged, Before(c, d)
  PROVE  Place(c) < Place(d)
<1> DEFINE First == {e \in Merged : Before(e, c)}
           Then == {e \in Merged : Before(e, d)}
<1>1. First \subseteq Then
  BY OrderLeadsOn
<1>2. c \in Then /\ c \notin First
  BY OrderIsStrict
<1>3. IsFiniteSet(Then) /\ IsFiniteSet(First)
  BY MergedIsFinite, FS_Subset
<1>4. Cardinality(First) <= Cardinality(Then) /\ (Cardinality(Then) = Cardinality(First) => Then = First)
  BY <1>1, <1>3, FS_Subset
<1>5. Cardinality(First) \in Nat /\ Cardinality(Then) \in Nat
  BY <1>3, FS_CardinalityType
<1> HIDE DEF First, Then
<1>6. Cardinality(First) < Cardinality(Then)
  BY <1>2, <1>4, <1>5
<1> QED BY <1>6 DEF Place, First, Then

LEMMA PlacesDiffer ==
  ASSUME Lists, NEW c \in Merged, NEW d \in Merged, Place(c) = Place(d)
  PROVE  c = d
<1>1. Place(c) \in Int /\ Place(d) \in Int
  BY PlaceIs
<1> QED BY <1>1, OrderIsTotal, PlacesFollow

\* Every place is taken.
LEMMA PlacesAreTaken ==
  ASSUME Lists, NEW n \in 1..Cardinality(Merged)
  PROVE  \E c \in Merged : Place(c) = n - 1
<1> DEFINE Places == 0..(Cardinality(Merged) - 1)
           place  == [c \in Merged |-> Place(c)]
<1>1. IsFiniteSet(Merged) /\ Cardinality(Merged) \in Nat
  BY MergedIsFinite
<1>2. IsFiniteSet(Places) /\ Cardinality(Places) = Cardinality(Merged)
  <2>1. PICK size \in Nat : size = Cardinality(Merged)
    BY <1>1
  <2>2. 0 \in Int /\ size - 1 \in Int
    OBVIOUS
  <2>3. IsFiniteSet(0..(size - 1)) /\ Cardinality(0..(size - 1)) = size
    BY <2>2, FS_Interval
  <2> QED BY <2>1, <2>3
<1>3. place \in [Merged -> Places] /\ IsInjective(place)
  BY PlaceIs, PlacesDiffer DEF IsInjective
<1>4. place \in Injection(Merged, Places)
  BY <1>3 DEF Injection
<1>5. place \in Surjection(Merged, Places)
  BY <1>2, <1>4, FS_Injection
<1>6. n - 1 \in Places
  BY <1>1
<1> QED BY <1>5, <1>6 DEF Surjection

LEMMA SortedIs ==
  ASSUME Lists
  PROVE  /\ Sorted \in Seq(Merged) /\ Len(Sorted) = Cardinality(Merged)
         /\ \A n \in 1..Len(Sorted) : Place(Sorted[n]) = n - 1
         /\ \A c \in Merged : Place(c) + 1 \in 1..Len(Sorted) /\ Sorted[Place(c) + 1] = c
<1>1. Cardinality(Merged) \in Nat
  BY MergedIsFinite
<1>2. ASSUME NEW n \in 1..Cardinality(Merged)
      PROVE  Sorted[n] \in Merged /\ Place(Sorted[n]) = n - 1
  BY <1>2, PlacesAreTaken DEF Sorted, Place
<1>3. Sorted \in [1..Cardinality(Merged) -> Merged]
  BY <1>2 DEF Sorted
<1>4. Sorted \in Seq(Merged) /\ Len(Sorted) = Cardinality(Merged)
  BY <1>1, <1>3
<1>5. ASSUME NEW c \in Merged
      PROVE  Place(c) + 1 \in 1..Len(Sorted) /\ Sorted[Place(c) + 1] = c
  <2>1. Place(c) + 1 \in 1..Cardinality(Merged) /\ (Place(c) + 1) - 1 = Place(c)
    BY <1>1, PlaceIs
  <2>2. Sorted[Place(c) + 1] \in Merged /\ Place(Sorted[Place(c) + 1]) = Place(c)
    BY <1>2, <2>1
  <2> QED BY <1>4, <2>1, <2>2, PlacesDiffer
<1> QED BY <1>2, <1>4, <1>5

(***************************************************************************)
(* The search                                                              *)
(***************************************************************************)
\* What is returned is the top of the sorted list.
SearchIInv ==
  /\ search.limit \in Nat
  /\ vector \in Seq(Nat \cup {Legacy})
  /\ keyword = Unasked \/ keyword \in Seq(Nat)
  /\ Fused => Lists /\ results = Top(Sorted, search.limit)

LEMMA TopIs ==
  ASSUME NEW S, NEW list \in Seq(S), NEW limit \in Nat
  PROVE  /\ Top(list, limit) \in Seq(S)
         /\ Len(Top(list, limit)) = IF limit <= Len(list) THEN limit ELSE Len(list)
         /\ \A i \in 1..Len(Top(list, limit)) : Top(list, limit)[i] = list[i]
<1> DEFINE n == Min({limit, Len(list)})
<1>1. Len(list) \in Nat /\ DOMAIN list = 1..Len(list)
  OBVIOUS
<1>2. n = IF limit <= Len(list) THEN limit ELSE Len(list)
  BY <1>1, Smaller
<1> HIDE DEF n
<1>3. n \in Nat /\ n <= Len(list)
  <2>1. PICK size \in Nat : size = Len(list)
    BY <1>1
  <2>2. n = IF limit <= size THEN limit ELSE size
    BY <1>2, <2>1
  <2>3. n \in Nat /\ n <= size
    BY ONLY <2>2, limit \in Nat, size \in Nat
  <2> QED BY <2>1, <2>3
<1>4. Top(list, limit) = SubSeq(list, 1, n)
  BY DEF Top, n
<1>5. /\ SubSeq(list, 1, n) \in Seq(S) /\ Len(SubSeq(list, 1, n)) = n
      /\ \A i \in 1..n : SubSeq(list, 1, n)[i] = list[i]
  BY <1>1, <1>3
<1> QED BY <1>2, <1>4, <1>5

LEMMA Answers ==
  ASSUME NEW S, IsFiniteSet(S), NEW list \in SetToAllKPermutations(S)
  PROVE  list \in Seq(S)
<1>1. PICK T \in SUBSET S : list \in SetToSeqs(T)
  BY DEF SetToAllKPermutations
<1>2. IsFiniteSet(T)
  BY FS_Subset
<1>3. Cardinality(T) \in Nat
  BY <1>2, FS_CardinalityType
<1>4. list \in [1..Cardinality(T) -> S]
  BY <1>1 DEF SetToSeqs
<1> QED BY <1>3, <1>4

LEMMA SearchStart == HybridInit => SearchIInv
<1> SUFFICES ASSUME HybridInit PROVE SearchIInv
  OBVIOUS
<1>1. search.limit = 1 /\ search.at = "idle" /\ vector = Unasked /\ keyword = Unasked
  BY DEF HybridInit
<1>2. Unasked \in Seq(Nat \cup {Legacy})
  BY DEF Unasked
<1> QED BY <1>1, <1>2 DEF SearchIInv, Fused

LEMMA SortedStays ==
  ASSUME UNCHANGED <<vector, keyword>>
  PROVE  Sorted' = Sorted
BY DEF Sorted, Merged, Before, Higher, RrfScore, Score, Entered, In, Rank

LEMMA SearchStays ==
  ASSUME SearchIInv, UNCHANGED searchVars
  PROVE  SearchIInv'
<1>1. UNCHANGED <<search, vector, keyword, results>>
  BY DEF searchVars
<1>2. Sorted' = Sorted
  BY <1>1, SortedStays
<1> QED BY <1>1, <1>2 DEF SearchIInv, Fused, Lists, Top

LEMMA FoundAre ==
  ASSUME ChunkerTypeOK
  PROVE  /\ \A list \in SetToAllKPermutations(Found \cup {Legacy}) :
              list \in Seq(Nat \cup {Legacy})
         /\ \A list \in SetToAllKPermutations(Found) : list \in Seq(Nat)
<1>1. Len(chunks) \in Nat
  BY DEF ChunkerTypeOK
<1>2. Found \subseteq Nat
  BY <1>1 DEF Found
<1>3. IsFiniteSet(Found)
  <2>1. PICK size \in Nat : size = Len(chunks)
    BY <1>1
  <2>2. 1 \in Int /\ size \in Int
    OBVIOUS
  <2>3. IsFiniteSet(1..size)
    BY <2>2, FS_Interval
  <2> QED BY <2>1, <2>3 DEF Found
<1>4. IsFiniteSet(Found \cup {Legacy})
  BY <1>3, FS_AddElement
<1>5. ASSUME NEW S, NEW T, S \subseteq T, IsFiniteSet(S), NEW list \in SetToAllKPermutations(S)
      PROVE  list \in Seq(T)
  <2>1. list \in Seq(S)
    BY <1>5, Answers
  <2> QED BY <1>5, <2>1
<1>6. Found \cup {Legacy} \subseteq Nat \cup {Legacy}
  BY <1>2
<1>7. ASSUME NEW list \in SetToAllKPermutations(Found \cup {Legacy})
      PROVE  list \in Seq(Nat \cup {Legacy})
  BY <1>4, <1>5, <1>6, <1>7
<1>8. ASSUME NEW list \in SetToAllKPermutations(Found)
      PROVE  list \in Seq(Nat)
  BY <1>2, <1>3, <1>5, <1>8
<1> QED BY <1>7, <1>8

LEMMA FetchIs ==
  ASSUME SearchIInv
  PROVE  FetchLimit \in Nat
BY DEF SearchIInv, FetchLimit

LEMMA SearchSteady ==
  ASSUME ChunkerTypeOK, SearchIInv, [HybridNext]_hybridVars
  PROVE  SearchIInv'
<1>1. CASE UNCHANGED searchVars
  BY <1>1, SearchStays
<1>2. CASE \E mode \in Modes, limit \in Limits : BeginSearch(mode, limit)
  <2>1. /\ search'.limit \in Nat /\ search'.at = "gather" /\ UNCHANGED <<vector, keyword>>
    BY <1>2, FusionAssumption DEF BeginSearch
  <2> QED BY <2>1 DEF SearchIInv, Fused, Unasked
<1>3. CASE VectorSearch
  <2>1. /\ search.at = "gather" /\ UNCHANGED <<search, keyword>>
    BY <1>3 DEF VectorSearch
  <2>2. PICK list \in SetToAllKPermutations(Found \cup {Legacy}) : vector' = Top(list, FetchLimit)
    BY <1>3 DEF VectorSearch
  <2>3. vector' \in Seq(Nat \cup {Legacy})
    BY <2>2, FoundAre, FetchIs, TopIs
  <2> QED BY <2>1, <2>3 DEF SearchIInv, Fused, Unasked
<1>4. CASE KeywordSearch
  <2>1. /\ search.at = "gather" /\ UNCHANGED <<search, vector>>
    BY <1>4 DEF KeywordSearch
  <2>2. PICK list \in SetToAllKPermutations(Found) : keyword' = Top(list, FetchLimit)
    BY <1>4 DEF KeywordSearch
  <2>3. keyword' \in Seq(Nat)
    BY <2>2, FoundAre, FetchIs, TopIs
  <2> QED BY <2>1, <2>3 DEF SearchIInv, Fused
<1>5. CASE SearchFails
  <2>1. search'.at = "failed" /\ search'.limit = search.limit /\ UNCHANGED <<vector, keyword>>
    BY <1>5 DEF SearchFails
  <2> QED BY <2>1 DEF SearchIInv, Fused, Unasked
<1>6. CASE ReturnVector \/ ReturnKeyword
  <2>0. search.mode # "hybrid" /\ UNCHANGED <<vector, keyword>>
    BY <1>6 DEF ReturnVector, ReturnKeyword, Return
  <2>1. search' = [search EXCEPT !.at = "done"]
    BY <1>6 DEF ReturnVector, ReturnKeyword, Return
  <2>2. search'.mode # "hybrid" /\ search'.limit = search.limit
    BY <2>0, <2>1
  <2> QED BY <2>0, <2>2 DEF SearchIInv, Fused, Unasked
<1>7. CASE Fuse
  <2>1. /\ keyword # Unasked /\ results' = Top(Sorted, search.limit)
        /\ search'.limit = search.limit /\ UNCHANGED <<vector, keyword>>
    BY <1>7 DEF Fuse, Return
  <2>2. results' = Top(Sorted', search'.limit)
    BY <2>1, SortedStays DEF Top
  <2>3. Lists /\ Lists'
    BY <2>1 DEF SearchIInv, Lists
  <2> QED BY <2>1, <2>2, <2>3 DEF SearchIInv, Lists, Unasked
<1>8. UNCHANGED searchVars \/ HybridNext
  BY DEF hybridVars
<1> QED BY <1>1, <1>2, <1>3, <1>4, <1>5, <1>6, <1>7, <1>8 DEF HybridNext

\* What the sort makes of the order of two chunks.
LEMMA BeforeIsFirst ==
  ASSUME SearchIInv, Fused, NEW c \in Merged, NEW d \in Range(results), Before(c, d)
  PROVE  In(results, c) /\ Rank(results, c) < Rank(results, d)
<1>1. Lists /\ results = Top(Sorted, search.limit) /\ search.limit \in Nat
  BY DEF SearchIInv
<1>2. Sorted \in Seq(Merged)
  BY <1>1, SortedIs
<1>3. /\ results \in Seq(Merged) /\ Len(results) <= Len(Sorted)
      /\ \A i \in 1..Len(results) : results[i] = Sorted[i]
  <2>1. PICK size \in Nat : size = Len(Sorted)
    BY <1>2
  <2> QED BY <1>1, <1>2, <2>1, TopIs
<1>4. PICK most \in Nat, size \in Nat : most = Len(results) /\ size = Len(Sorted)
  BY <1>2, <1>3
<1>5. ASSUME NEW i \in 1..most
      PROVE  i \in 1..size /\ Place(results[i]) = i - 1
  <2>1. i \in 1..size
    BY <1>3, <1>4
  <2> QED BY <1>1, <1>3, <1>4, <2>1, SortedIs
<1>6. /\ Rank(results, d) \in 1..most /\ results[Rank(results, d)] = d
  BY <1>3, <1>4, Ranks
<1>7. d \in Merged /\ Place(d) = Rank(results, d) - 1
  BY <1>3, <1>4, <1>5, <1>6
<1>8. PICK n \in Nat : n = Place(c) /\ n < Place(d)
  BY <1>1, <1>7, PlaceIs, PlacesFollow
<1>9. n + 1 \in 1..most /\ n + 1 < Rank(results, d)
  BY <1>6, <1>7, <1>8
<1>10. results[n + 1] = c
  BY <1>1, <1>3, <1>4, <1>8, <1>9, SortedIs
<1>11. In(results, c)
  BY <1>3, <1>4, <1>9, <1>10 DEF In, Range
<1>12. Rank(results, c) \in 1..most /\ results[Rank(results, c)] = c
  BY <1>3, <1>4, <1>11, Ranks DEF In
<1>13. Rank(results, c) = n + 1
  BY <1>5, <1>8, <1>12
<1> QED BY <1>9, <1>11, <1>13

LEMMA BothAreFirst == SearchIInv => BothBeatOne
<1> SUFFICES ASSUME SearchIInv, Fused,
                    NEW c \in Range(vector) \cap Range(keyword), NEW d \in Range(results),
                    Rank(vector, c) <= K + 2, Rank(keyword, c) <= K + 2,
                    Rank(vector, c) + Rank(keyword, c) < 2 * (K + 2),
                    ~(In(vector, d) /\ In(keyword, d))
             PROVE  In(results, c) /\ Rank(results, c) < Rank(results, d)
  BY DEF BothBeatOne
<1>1. Lists /\ K \in Nat
  BY FusionAssumption DEF SearchIInv
<1>2. c \in Merged /\ In(vector, c) /\ In(keyword, c)
  <2>1. c \in Nat
    BY <1>1 DEF Lists, Range
  <2> QED BY <2>1, LegacyAssumption DEF Merged, In
<1>3. d \in Merged
  <2>1. results \in Seq(Merged)
    BY <1>1, SortedIs, TopIs DEF SearchIInv
  <2> QED BY <2>1 DEF Range
<1>4. PICK v \in Nat \ {0}, w \in Nat \ {0} : v = K + Rank(vector, c) /\ w = K + Rank(keyword, c)
  BY <1>1, <1>2, MergedRanks
<1>5. PICK u \in Nat : u = RrfScore(d).under /\ u > K /\ RrfScore(d).over = 1
  BY <1>1, <1>3, ScoreIs
<1>6. RrfScore(c).over = v + w /\ RrfScore(c).under = v * w
  BY <1>1, <1>2, <1>4, ScoreIs
<1>7. v <= 2 * (K + 1) /\ w <= 2 * (K + 1) /\ v + w < 4 * (K + 1)
  <2>1. Rank(vector, c) \in Nat /\ Rank(keyword, c) \in Nat
    BY <1>1, <1>2, MergedRanks
  <2> QED BY <1>1, <1>4, <2>1
<1>8. (v + w) * u > 1 * (v * w)
  BY <1>1, <1>5, <1>7, TwoBeatOne
<1>9. Before(c, d)
  BY <1>5, <1>6, <1>8 DEF Before, Higher
<1> QED BY <1>2, <1>9, BeforeIsFirst

LEMMA HybridIsSteady == HybridSpec => [](ChunkerTypeOK /\ SearchIInv)
<1>1. ChunkerIInv => ChunkerTypeOK
  BY DEF ChunkerIInv
<1> QED BY <1>1, ChunkerIsSteady, SearchStart, SearchSteady, PTL DEF HybridSpec

\* A chunk that both searches found comes before all that only one found, down to
\* rank k + 2, for every k and lists of any length (reciprocal_rank_fusion).
THEOREM BothComeFirst == HybridSpec => []BothBeatOne
BY HybridIsSteady, BothAreFirst, PTL

(***************************************************************************)
(* QueryCache                                                              *)
(***************************************************************************)
\* What a request has found fits its question until it is stored.
FindingsFit ==
  \A r \in Requests : request[r].at \in {"generate", "store"} =>
    /\ request[r].cites # {}
    /\ request[r].cites \subseteq Within(request[r].key[2])

\* The numbers of sweeps are of the past.
Numbered ==
  /\ \A k \in Cached : cache[k].stored <= began
  /\ \A d \in Docs : swept[d] <= began

\* What a sweep that met no error has not still to remove was stored after it
\* began.
SweepIsThorough ==
  sweep.on /\ sweep.clean => \A k \in Cached \ sweep.todo : cache[k].stored >= began

CacheIInv ==
  /\ TypeOK
  /\ FindingsFit /\ CachedAnswersFit
  /\ Numbered /\ SweepIsThorough /\ SweptIsGone

\* No entry is not an entry.
LEMMA NoEntryIsNone == NoEntry \notin Entries /\ Numbers \subseteq Nat
BY MaxSweepsAssumption DEF NoEntry, Entries, Numbers

LEMMA CachedIs ==
  ASSUME TypeOK
  PROVE  /\ Cached \subseteq Keys
         /\ \A k \in Cached : /\ cache[k] \in Entries
                              /\ cache[k].cites \subseteq Docs /\ cache[k].stored \in Nat
BY NoEntryIsNone DEF TypeOK, Cached, Entries

LEMMA WithoutIs ==
  ASSUME NEW step \in Steps
  PROVE  /\ Without(step) \in [at : Steps, key : Keys, cites : SUBSET Docs]
         /\ Without(step).at = step
<1>1. (CHOOSE q \in Questions : TRUE) \in Questions
  BY QuestionsAssumption
<1>2. <<CHOOSE q \in Questions : TRUE, All>> \in Keys
  BY <1>1, AskedAssumption DEF Keys
<1> QED BY <1>2 DEF Without

\* The cache as it is.
SameCache == UNCHANGED <<cache, sweeps>>

\* A response is stored, and numbered with the sweeps so far.
StoresEntry ==
  /\ \E k \in Keys, found \in SUBSET Docs :
       /\ found # {} /\ found \subseteq Within(k[2])
       /\ cache' = [cache EXCEPT ![k] = [cites |-> found, stored |-> began]]
  /\ UNCHANGED sweeps

\* A key expires.
DropsEntry ==
  /\ \E k \in Keys : cache' = [cache EXCEPT ![k] = NoEntry]
  /\ UNCHANGED sweeps

\* What the requests and the documents do to the cache.
LEMMA RequestMoves ==
  ASSUME CacheIInv, NEW r \in Requests, Ask(r) \/ RequestStep(r)
  PROVE  /\ request' \in [Requests -> [at : Steps, key : Keys, cites : SUBSET Docs]]
         /\ FindingsFit'
         /\ UNCHANGED documents
         /\ SameCache \/ StoresEntry
<1> USE DEF SameCache
<1>0. /\ TypeOK /\ FindingsFit /\ request[r].key \in Keys /\ request[r].cites \subseteq Docs
      /\ request \in [Requests -> [at : Steps, key : Keys, cites : SUBSET Docs]]
      /\ index \subseteq Docs
  BY DEF CacheIInv, TypeOK
<1>1. ASSUME NEW step \in Steps \ {"generate", "store"}, Settle(r, step)
      PROVE  /\ request' \in [Requests -> [at : Steps, key : Keys, cites : SUBSET Docs]]
             /\ FindingsFit'
  <2>1. request'[r] = Without(step) /\ \A s \in Requests \ {r} : request'[s] = request[s]
    BY <1>0, <1>1 DEF Settle
  <2>2. request'[r].at \notin {"generate", "store"}
    BY <2>1, WithoutIs
  <2>3. FindingsFit'
    BY <1>0, <2>1, <2>2 DEF FindingsFit
  <2> QED BY <1>0, <1>1, <2>3, WithoutIs DEF Settle
<1>2. ASSUME NEW step \in Steps, Goto(r, step),
             step \in {"generate", "store"} => request[r].at \in {"generate", "store"}
      PROVE  /\ request' \in [Requests -> [at : Steps, key : Keys, cites : SUBSET Docs]]
             /\ FindingsFit'
  BY <1>0, <1>2 DEF Goto, FindingsFit
<1>3. CASE Ask(r)
  <2>1. PICK k \in Keys : request' = [request EXCEPT ![r].at = "lookup", ![r].key = k]
    BY <1>3 DEF Ask
  <2>2. FindingsFit'
    BY <1>0, <2>1 DEF FindingsFit
  <2>3. request' \in [Requests -> [at : Steps, key : Keys, cites : SUBSET Docs]]
    BY <1>0, <2>1 DEF Steps
  <2> QED BY <1>3, <2>2, <2>3 DEF Ask
<1>4. CASE Lookup(r)
  BY <1>1, <1>2, <1>4 DEF Lookup, Steps
<1>5. CASE Search(r)
  <2>1. CASE Settle(r, "save")
    BY <1>1, <1>5, <2>1 DEF Search, Steps
  <2>2. ASSUME NEW found \in (SUBSET (index \cap Within(request[r].key[2]))) \ {{}},
               request' = [request EXCEPT ![r].at = "generate", ![r].cites = found]
        PROVE  /\ request' \in [Requests -> [at : Steps, key : Keys, cites : SUBSET Docs]]
               /\ FindingsFit'
    <3>1. /\ request'[r].cites = found /\ request'[r].key = request[r].key
          /\ \A s \in Requests \ {r} : request'[s] = request[s]
      BY <1>0, <2>2
    <3>2. FindingsFit'
      BY <1>0, <2>2, <3>1 DEF FindingsFit
    <3> QED BY <1>0, <2>2, <3>2 DEF Steps
  <2> QED BY <1>5, <2>1, <2>2 DEF Search
<1>6. CASE Generate(r)
  BY <1>2, <1>6 DEF Generate, Steps
<1>7. CASE Store(r)
  <2>1. /\ request' \in [Requests -> [at : Steps, key : Keys, cites : SUBSET Docs]]
        /\ FindingsFit'
    BY <1>1, <1>7 DEF Store, Steps
  <2>2. request[r].cites # {} /\ request[r].cites \subseteq Within(request[r].key[2])
    BY <1>0, <1>7 DEF Store, FindingsFit
  <2> QED BY <1>0, <1>7, <2>1, <2>2 DEF Store, StoresEntry
<1>8. CASE Save(r)
  BY <1>1, <1>8 DEF Save, Steps
<1>9. CASE AskFails(r)
  BY <1>1, <1>9 DEF AskFails, Steps
<1> QED BY <1>3, <1>4, <1>5, <1>6, <1>7, <1>8, <1>9 DEF RequestStep

\* Nothing of the cache's invariant is lost when entries leave it, or enter
\* it with the number of the sweeps so far.
CacheParts == CachedAnswersFit /\ Numbered /\ SweepIsThorough /\ SweptIsGone

CacheTypes ==
  /\ cache \in [Keys -> Entries \cup {NoEntry}]
  /\ sweep \in [of : Scopes, todo : SUBSET Keys, clean : BOOLEAN, on : BOOLEAN]
  /\ began \in Numbers
  /\ swept \in [Docs -> Numbers]

LEMMA SameCacheStep ==
  ASSUME CacheIInv, SameCache
  PROVE  CacheTypes' /\ CacheParts'
BY DEF CacheIInv, TypeOK, CacheTypes, CacheParts, SameCache, sweeps, Cached, CachedAnswersFit,
       Numbered, SweepIsThorough, SweptIsGone

LEMMA StoresStep ==
  ASSUME CacheIInv, StoresEntry
  PROVE  CacheTypes' /\ CacheParts'
<1>1. PICK k \in Keys, found \in SUBSET Docs :
        /\ found # {} /\ found \subseteq Within(k[2])
        /\ cache' = [cache EXCEPT ![k] = [cites |-> found, stored |-> began]]
  BY DEF StoresEntry
<1>2. /\ TypeOK /\ CacheParts /\ began \in Numbers /\ began \in Nat /\ UNCHANGED sweeps
      /\ \A d \in Docs : swept[d] \in Nat
  BY NoEntryIsNone DEF CacheIInv, TypeOK, CacheParts, StoresEntry
<1>3. [cites |-> found, stored |-> began] \in Entries
  BY <1>2 DEF Entries
<1>4. cache' \in [Keys -> Entries \cup {NoEntry}]
  BY <1>1, <1>2, <1>3 DEF TypeOK
<1>5. /\ cache'[k].cites = found /\ cache'[k].stored = began
      /\ \A j \in Keys \ {k} : cache'[j] = cache[j]
      /\ Cached' \subseteq Cached \cup {k}
  BY <1>1, <1>2 DEF TypeOK, Cached
<1>6. CachedAnswersFit'
  BY <1>1, <1>2, <1>5 DEF CacheParts, CachedAnswersFit, Cached
<1>7. Numbered' /\ SweepIsThorough'
  BY <1>2, <1>5 DEF CacheParts, Numbered, SweepIsThorough, sweeps, Cached
<1>8. SweptIsGone'
  BY <1>1, <1>2, <1>5 DEF CacheParts, SweptIsGone, Numbered, sweeps, Cached
<1> QED BY <1>2, <1>4, <1>6, <1>7, <1>8 DEF CacheTypes, CacheParts, sweeps, TypeOK

LEMMA DropsStep ==
  ASSUME CacheIInv, DropsEntry
  PROVE  CacheTypes' /\ CacheParts'
<1>1. PICK k \in Keys : cache' = [cache EXCEPT ![k] = NoEntry]
  BY DEF DropsEntry
<1>2. TypeOK /\ CacheParts /\ UNCHANGED sweeps
  BY DEF CacheIInv, CacheParts, DropsEntry
<1>3. cache' \in [Keys -> Entries \cup {NoEntry}]
  BY <1>1, <1>2 DEF TypeOK
<1>4. \A j \in Cached' : j \in Cached /\ cache'[j] = cache[j]
  BY <1>1, <1>2 DEF TypeOK, Cached
<1> QED BY <1>2, <1>3, <1>4
    DEF CacheTypes, CacheParts, sweeps, TypeOK, CachedAnswersFit, Numbered, SweepIsThorough, SweptIsGone

LEMMA SweepStepInv ==
  ASSUME CacheIInv, (\E scope \in Scopes : SweepBegin(scope)) \/ SweepStep
  PROVE  CacheTypes' /\ CacheParts' /\ UNCHANGED <<documents, request>>
<1>0. /\ TypeOK /\ CacheParts /\ Cached \subseteq Keys
      /\ began \in Numbers /\ began \in Nat /\ MaxSweeps \in Nat
      /\ \A k \in Cached : cache[k].stored \in Nat /\ cache[k].cites \subseteq Docs
      /\ \A d \in Docs : swept[d] \in Nat
      /\ sweep \in [of : Scopes, todo : SUBSET Keys, clean : BOOLEAN, on : BOOLEAN]
  BY CachedIs, NoEntryIsNone, MaxSweepsAssumption DEF CacheIInv, CacheParts, TypeOK
<1>1. ASSUME NEW scope \in Scopes, SweepBegin(scope)
      PROVE  CacheTypes' /\ CacheParts' /\ UNCHANGED <<documents, request>>
  <2>1. /\ cache' = cache /\ Cached' = Cached /\ swept' = swept
        /\ began' = began + 1 /\ began < MaxSweeps
        /\ sweep' = [of |-> scope, todo |-> Cached, clean |-> TRUE, on |-> TRUE]
    BY <1>1 DEF SweepBegin, Cached
  <2>2. CacheTypes'
    BY <1>0, <2>1 DEF CacheTypes, TypeOK, Numbers
  <2>3. SweepIsThorough'
    BY <2>1 DEF SweepIsThorough
  <2>4. Numbered'
    BY <1>0, <2>1 DEF CacheParts, Numbered
  <2>5. CachedAnswersFit' /\ SweptIsGone'
    BY <1>0, <2>1 DEF CacheParts, CachedAnswersFit, SweptIsGone
  <2> QED BY <1>1, <2>2, <2>3, <2>4, <2>5 DEF CacheParts, SweepBegin
<1>2. ASSUME NEW k \in Keys, SweepKey(k)
      PROVE  CacheTypes' /\ CacheParts' /\ UNCHANGED <<documents, request>>
  <2>1. /\ cache' = [cache EXCEPT ![k] = NoEntry] /\ began' = began /\ swept' = swept
        /\ sweep' = [sweep EXCEPT !.todo = @ \ {k}]
    BY <1>2 DEF SweepKey
  <2>2. \A j \in Cached' : j \in Cached /\ j # k /\ cache'[j] = cache[j]
    BY <1>0, <2>1 DEF TypeOK, Cached
  <2>3. /\ sweep' \in [of : Scopes, todo : SUBSET Keys, clean : BOOLEAN, on : BOOLEAN]
        /\ sweep'.todo = sweep.todo \ {k} /\ sweep'.on = sweep.on /\ sweep'.clean = sweep.clean
    BY <1>0, <2>1
  <2>4. CacheTypes'
    BY <1>0, <2>1, <2>3 DEF CacheTypes, TypeOK
  <2>5. SweepIsThorough'
    BY <1>0, <2>1, <2>2, <2>3 DEF CacheParts, SweepIsThorough
  <2>6. CachedAnswersFit' /\ Numbered' /\ SweptIsGone'
    BY <1>0, <2>1, <2>2 DEF CacheParts, CachedAnswersFit, Numbered, SweptIsGone
  <2> QED BY <1>2, <2>4, <2>5, <2>6 DEF CacheParts, SweepKey
<1>3. CASE SweepFails
  <2>1. /\ cache' = cache /\ Cached' = Cached /\ began' = began /\ swept' = swept
        /\ \/ \E k \in sweep.todo : sweep' = [sweep EXCEPT !.todo = @ \ {k}, !.clean = FALSE]
           \/ sweep' = NoSweep
    BY <1>3 DEF SweepFails, Cached
  <2>2. /\ sweep' \in [of : Scopes, todo : SUBSET Keys, clean : BOOLEAN, on : BOOLEAN]
        /\ ~sweep'.clean
    <3>1. CASE \E k \in sweep.todo : sweep' = [sweep EXCEPT !.todo = @ \ {k}, !.clean = FALSE]
      <4>1. PICK k \in sweep.todo : sweep' = [sweep EXCEPT !.todo = @ \ {k}, !.clean = FALSE]
        BY <3>1
      <4> QED BY <1>0, <4>1
    <3>2. CASE sweep' = NoSweep
      BY <3>2 DEF NoSweep, Scopes
    <3> QED BY <2>1, <3>1, <3>2
  <2>3. CacheTypes'
    BY <1>0, <2>1, <2>2 DEF CacheTypes, TypeOK
  <2>4. SweepIsThorough'
    BY <2>2 DEF SweepIsThorough
  <2>5. CachedAnswersFit' /\ Numbered' /\ SweptIsGone'
    BY <1>0, <2>1 DEF CacheParts, CachedAnswersFit, Numbered, SweptIsGone
  <2> QED BY <1>3, <2>3, <2>4, <2>5 DEF CacheParts, SweepFails
<1>4. CASE SweepEnd
  <2>1. /\ cache' = cache /\ Cached' = Cached /\ began' = began /\ sweep' = NoSweep
        /\ sweep.on /\ sweep.todo = {}
    BY <1>4 DEF SweepEnd, Cached
  <2>2. /\ swept' \in [Docs -> Numbers]
        /\ \A d \in Docs : swept'[d] = swept[d] \/ (sweep.clean /\ swept'[d] = began)
    <3>1. CASE sweep.clean
      BY <1>0, <1>4, <3>1 DEF SweepEnd, TypeOK
    <3>2. CASE ~sweep.clean
      BY <1>0, <1>4, <3>2 DEF SweepEnd, TypeOK
    <3> QED BY <3>1, <3>2
  <2>3. CacheTypes'
    BY <1>0, <2>1, <2>2 DEF CacheTypes, TypeOK, NoSweep, Scopes
  <2>4. SweepIsThorough'
    BY <2>1 DEF SweepIsThorough, NoSweep
  <2>5. CachedAnswersFit' /\ Numbered'
    BY <1>0, <2>1, <2>2 DEF CacheParts, CachedAnswersFit, Numbered
  <2>6. SweptIsGone'
    <3>1. ASSUME NEW k \in Cached, NEW d \in cache[k].cites
          PROVE  cache[k].stored >= swept'[d]
      <4>1. CASE swept'[d] = swept[d]
        BY <1>0, <3>1, <4>1 DEF CacheParts, SweptIsGone
      <4>2. CASE sweep.clean /\ swept'[d] = began
        BY <1>0, <2>1, <3>1, <4>2 DEF CacheParts, SweepIsThorough
      <4> QED BY <1>0, <2>2, <3>1, <4>1, <4>2
    <3> QED BY <2>1, <3>1 DEF SweptIsGone
  <2> QED BY <1>4, <2>3, <2>4, <2>5, <2>6 DEF CacheParts, SweepEnd
<1> QED BY <1>1, <1>2, <1>3, <1>4 DEF SweepStep

LEMMA CacheInit ==
  ASSUME Init
  PROVE  CacheIInv
<1> USE DEF Init
<1>1. Cached = {}
  BY DEF Cached
<1>2. TypeOK
  <2>1. Without("idle") \in [at : Steps, key : Keys, cites : SUBSET Docs]
    BY WithoutIs DEF Steps
  <2>2. 0 \in Numbers
    BY MaxSweepsAssumption DEF Numbers
  <2> QED BY <2>1, <2>2 DEF TypeOK, NoSweep, Scopes
<1>3. FindingsFit
  BY WithoutIs DEF FindingsFit, Steps
<1> QED BY <1>1, <1>2, <1>3
    DEF CacheIInv, CachedAnswersFit, Numbered, SweepIsThorough, SweptIsGone, NoSweep

LEMMA CacheStep ==
  ASSUME CacheIInv, [Next]_vars
  PROVE  CacheIInv'
<1>0. /\ request \in [Requests -> [at : Steps, key : Keys, cites : SUBSET Docs]]
      /\ existing \subseteq Docs /\ index \subseteq Docs /\ FindingsFit
  BY DEF CacheIInv, TypeOK
<1>a. ASSUME existing' \subseteq Docs, index' \subseteq Docs,
             request' \in [Requests -> [at : Steps, key : Keys, cites : SUBSET Docs]],
             FindingsFit', CacheTypes', CacheParts'
      PROVE  CacheIInv'
  BY <1>a DEF CacheIInv, TypeOK, CacheTypes, CacheParts
<1>1. ASSUME NEW r \in Requests, Ask(r) \/ RequestStep(r)
      PROVE  CacheIInv'
  <2>1. /\ request' \in [Requests -> [at : Steps, key : Keys, cites : SUBSET Docs]]
        /\ FindingsFit' /\ UNCHANGED documents
        /\ SameCache \/ StoresEntry
    BY <1>1, RequestMoves
  <2>2. CacheTypes' /\ CacheParts'
    BY <2>1, SameCacheStep, StoresStep
  <2> QED BY <1>0, <1>a, <2>1, <2>2 DEF documents
<1>2. ASSUME NEW k \in Keys, Expire(k)
      PROVE  CacheIInv'
  <2>1. DropsEntry /\ UNCHANGED <<documents, request>>
    BY <1>2 DEF Expire, DropsEntry
  <2>2. CacheTypes' /\ CacheParts'
    BY <2>1, DropsStep
  <2> QED BY <1>0, <1>a, <2>1, <2>2 DEF documents, FindingsFit
<1>3. CASE (\E scope \in Scopes : SweepBegin(scope)) \/ SweepStep
  <2>1. CacheTypes' /\ CacheParts' /\ UNCHANGED <<documents, request>>
    BY <1>3, SweepStepInv
  <2> QED BY <1>0, <1>a, <2>1 DEF documents, FindingsFit
<1>4. ASSUME NEW d \in Docs, AddVector(d) \/ DeleteStep(d)
      PROVE  CacheIInv'
  <2>1. /\ SameCache /\ UNCHANGED request
        /\ existing' \subseteq Docs /\ index' \subseteq Docs
    BY <1>0, <1>4 DEF AddVector, DeleteStep, DeleteVectors, DeleteRow, SameCache
  <2>2. CacheTypes' /\ CacheParts'
    BY <2>1, SameCacheStep
  <2> QED BY <1>0, <1>a, <2>1, <2>2 DEF FindingsFit
<1>5. CASE UNCHANGED vars
  <2>1. SameCache /\ UNCHANGED <<documents, request>>
    BY <1>5 DEF vars, SameCache
  <2>2. CacheTypes' /\ CacheParts'
    BY <2>1, SameCacheStep
  <2> QED BY <1>0, <1>a, <2>1, <2>2 DEF documents, FindingsFit
<1> QED BY <1>1, <1>2, <1>3, <1>4, <1>5 DEF Next

LEMMA CacheInvariance == Spec => []CacheIInv
<1>1. Init => CacheIInv
  BY CacheInit
<1>2. CacheIInv /\ [Next]_vars => CacheIInv'
  BY CacheStep
<1> QED BY <1>1, <1>2, PTL DEF Spec

\* The variables keep their types, whatever is asked, swept and deleted.
THEOREM CacheTyped == Spec => []TypeOK
<1>1. CacheIInv => TypeOK
  BY DEF CacheIInv
<1> QED BY <1>1, CacheInvariance, PTL

\* A response that is reused has sources, and only documents its question was
\* asked about (RAGService.ask, set_rag_response).
THEOREM ReusedAnswersFit == Spec => []CachedAnswersFit
<1>1. CacheIInv => CachedAnswersFit
  BY DEF CacheIInv
<1> QED BY <1>1, CacheInvariance, PTL

\* A sweep that met no error leaves no response about its documents that was
\* stored before it began, whatever is stored while it runs
\* (invalidate_document_cache, clear_all_cache).
THEOREM SweepsAreThorough == Spec => []SweptIsGone
<1>1. CacheIInv => SweptIsGone
  BY DEF CacheIInv
<1> QED BY <1>1, CacheInvariance, PTL
=============================================================================
