---------------------------- MODULE HybridSearch ----------------------------
(***************************************************************************)
(* HybridSearchService of app/services/ai/hybrid_search.py, over the       *)
(* chunks that TextChunker made of a text.  The index and the full-text    *)
(* search of the database answer in either order, each with a list of      *)
(* chunks of its own choice, and reciprocal rank fusion merges the two.    *)
(*                                                                         *)
(* The score of a rank is 1 / (k + rank).  Scores are exact fractions,     *)
(* compared by multiplying across.                                         *)
(***************************************************************************)
EXTENDS TextChunker, SequencesExt

CONSTANTS
  K,          \* rrf_k
  Limits,     \* limit of a search
  MaxChunks,  \* bound: chunks of a text that is searched
  Legacy      \* a point of the index without a chunk id

ASSUME FusionAssumption == K \in Nat /\ Limits \subseteq Nat \ {0} /\ MaxChunks \in Nat
ASSUME LegacyAssumption == Legacy \notin Nat

VARIABLES
  search,   \* what the search is doing, its mode and its limit
  vector,   \* vector_results
  keyword,  \* keyword_results
  results   \* what is returned

searchVars == <<search, vector, keyword, results>>
hybridVars == <<chunkerVars, searchVars>>

Unasked == <<Legacy, Legacy>>  \* no answer repeats a point
Modes   == {"vector", "keyword", "hybrid"}

HybridInit ==
  /\ ChunkerInit
  /\ search = [at |-> "idle", mode |-> "hybrid", limit |-> 1]
  /\ vector = Unasked
  /\ keyword = Unasked
  /\ results = <<>>

\* Four times as many results are fetched when they are to be merged.
FetchLimit == IF search.mode = "hybrid" THEN search.limit * 4 ELSE search.limit

Found == 1..Len(chunks)
Top(list, limit) == SubSeq(list, 1, Min({limit, Len(list)}))

Rank(list, chunk) == CHOOSE i \in DOMAIN list : list[i] = chunk
In(list, chunk)   == chunk \in Range(list)

\* The sum of 1 / (k + rank) over the lists that hold a chunk, as a fraction.
Score(chunk, k) ==
  LET v == k + Rank(vector, chunk)
      w == k + Rank(keyword, chunk)
  IN  IF In(vector, chunk) /\ In(keyword, chunk)
      THEN [over |-> v + w, under |-> v * w]
      ELSE [over |-> 1, under |-> IF In(vector, chunk) THEN v ELSE w]

\* Mutant: ranks are counted from zero.
RrfScoreFromZero(chunk) == Score(chunk, K - 1)

RrfScore(chunk) == Score(chunk, K)

Higher(c, d) ==
  RrfScore(c).over * RrfScore(d).under > RrfScore(d).over * RrfScore(c).under

\* The keys of rrf_scores, and the order in which they enter it: those of the
\* index first.  Points without a chunk id are skipped.
Merged == (Range(vector) \cup Range(keyword)) \ {Legacy}
Entered(chunk) ==
  IF In(vector, chunk) THEN Rank(vector, chunk) ELSE Len(vector) + Rank(keyword, chunk)

\* The stable sort by score, best first.
Before(c, d) == Higher(c, d) \/ (~Higher(d, c) /\ Entered(c) < Entered(d))
Sorted ==
  [n \in 1..Cardinality(Merged) |->
     CHOOSE c \in Merged : Cardinality({d \in Merged : Before(d, c)}) = n - 1]
-----------------------------------------------------------------------------
BeginSearch(mode, limit) ==
  /\ loop = "end"
  /\ Len(chunks) <= MaxChunks
  /\ search.at = "idle"
  /\ search' = [at |-> "gather", mode |-> mode, limit |-> limit]
  /\ UNCHANGED <<chunkerVars, vector, keyword, results>>

\* The index answers with what it finds similar.
VectorSearch ==
  /\ search.at = "gather"
  /\ search.mode # "keyword"
  /\ vector = Unasked
  /\ \E list \in SetToAllKPermutations(Found \cup {Legacy}) : vector' = Top(list, FetchLimit)
  /\ UNCHANGED <<chunkerVars, search, keyword, results>>

\* The database answers with what holds the words.
KeywordSearch ==
  /\ search.at = "gather"
  /\ search.mode # "vector"
  /\ keyword = Unasked
  /\ \E list \in SetToAllKPermutations(Found) : keyword' = Top(list, FetchLimit)
  /\ UNCHANGED <<chunkerVars, search, vector, results>>

\* A search that raises fails the request; the answer of the other is dropped.
SearchFails ==
  /\ search.at = "gather"
  /\ vector = Unasked \/ keyword = Unasked
  /\ search' = [search EXCEPT !.at = "failed"]
  /\ UNCHANGED <<chunkerVars, vector, keyword, results>>

Return(list) ==
  /\ results' = Top(list, search.limit)
  /\ search' = [search EXCEPT !.at = "done"]
  /\ UNCHANGED <<chunkerVars, vector, keyword>>

ReturnVector ==
  /\ search.at = "gather"
  /\ search.mode = "vector"
  /\ vector # Unasked
  /\ Return(vector)

ReturnKeyword ==
  /\ search.at = "gather"
  /\ search.mode = "keyword"
  /\ keyword # Unasked
  /\ Return(keyword)

Fuse ==
  /\ search.at = "gather"
  /\ search.mode = "hybrid"
  /\ Unasked \notin {vector, keyword}
  /\ Return(Sorted)

HybridNext ==
  \/ ChunkerNext /\ UNCHANGED searchVars
  \/ \E mode \in Modes, limit \in Limits : BeginSearch(mode, limit)
  \/ VectorSearch \/ KeywordSearch \/ SearchFails
  \/ ReturnVector \/ ReturnKeyword \/ Fuse

HybridSpec == HybridInit /\ [][HybridNext]_hybridVars
-----------------------------------------------------------------------------
(***************************************************************************)
(* Properties                                                              *)
(***************************************************************************)
HybridTypeOK ==
  /\ ChunkerTypeOK
  /\ search.at \in {"idle", "gather", "failed", "done"}
  /\ search.mode \in Modes
  /\ {vector, keyword, results} \subseteq Seq(Found \cup {Legacy})

Fused == search.at = "done" /\ search.mode = "hybrid"

\* A chunk that both searches found comes before every chunk that only one of
\* them found, as long as it is no further down than k + 2 in either list and
\* higher than that in one (rrf_k, hybrid_search).  At k + 2 in both it ties
\* with the first of one list, and may be cut off behind it.
BothBeatOne ==
  Fused =>
    \A c \in Range(vector) \cap Range(keyword), d \in Range(results) :
      /\ Rank(vector, c) <= K + 2
      /\ Rank(keyword, c) <= K + 2
      /\ Rank(vector, c) + Rank(keyword, c) < 2 * (K + 2)
      /\ ~(In(vector, d) /\ In(keyword, d))
      => In(results, c) /\ Rank(results, c) < Rank(results, d)
=============================================================================
