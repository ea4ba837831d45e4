---------------------------- MODULE TextChunker ----------------------------
(***************************************************************************)
(* DocumentChunker.chunk of app/services/ai/chunking.py: a text becomes    *)
(* chunks of at most chunk_size tokens, each beginning chunk_size less     *)
(* overlap behind the one before.  A chunk is the interval of tokens it    *)
(* holds; its position is its place in the list.                           *)
(***************************************************************************)
EXTENDS Integers, Sequences, FiniteSetsExt

CONSTANTS
  Lengths,   \* numbers of tokens of a text
  Sizes,     \* values of chunk_size
  Overlaps   \* values of overlap

ASSUME ChunkerAssumption ==
  /\ Lengths \subseteq Nat
  /\ Sizes \subseteq Nat \ {0}
  /\ Overlaps \subseteq Nat

VARIABLES
  text,    \* the tokens, whether all of it is white space, and the parameters
  start,   \* where the next chunk begins
  chunks,  \* the chunks so far
  loop     \* "begin", "run" or "end"

chunkerVars == <<text, start, chunks, loop>>

Texts == [tokens : Lengths, blank : BOOLEAN, size : Sizes, overlap : Overlaps]

ChunkerInit ==
  /\ text \in {t \in Texts : t.tokens = 0 => t.blank}
  /\ start = 0
  /\ chunks = <<>>
  /\ loop = "begin"

Interval(from, to) == [from |-> from, to |-> to]

\* Mutant: the chunks do not overlap.
StrideWithoutOverlap == text.size

Stride == Max({text.size - text.overlap, 1})

\* A blank text has no chunk, and a short one is a chunk.
Short ==
  /\ loop = "begin"
  /\ text.blank \/ text.tokens <= text.size
  /\ chunks' = IF text.blank THEN <<>> ELSE <<Interval(0, text.tokens)>>
  /\ loop' = "end"
  /\ UNCHANGED <<text, start>>

Long ==
  /\ loop = "begin"
  /\ ~text.blank
  /\ text.tokens > text.size
  /\ loop' = "run"
  /\ UNCHANGED <<text, start, chunks>>

\* Mutant: the loop ends when the next chunk would begin behind the text.
CutGoesOn ==
  LET to == Min({start + text.size, text.tokens})
  IN  /\ loop = "run"
      /\ chunks' = Append(chunks, Interval(start, to))
      /\ start' = start + Stride
      /\ loop' = IF start + Stride < text.tokens THEN "run" ELSE "end"
      /\ UNCHANGED text

\* One turn of the loop; it ends with the chunk that holds the last token.
Cut ==
  LET to == Min({start + text.size, text.tokens})
  IN  /\ loop = "run"
      /\ chunks' = Append(chunks, Interval(start, to))
      /\ start' = IF to = text.tokens THEN start ELSE start + Stride
      /\ loop' = IF to = text.tokens THEN "end" ELSE "run"
      /\ UNCHANGED text

ChunkerNext == Short \/ Long \/ Cut
-----------------------------------------------------------------------------
(***************************************************************************)
(* Properties                                                              *)
(***************************************************************************)
ChunkerTypeOK ==
  /\ text \in Texts
  /\ start \in Nat
  /\ chunks \in Seq([from : Nat, to : Nat])
  /\ loop \in {"begin", "run", "end"}

\* A passage that is no longer than the overlap and one token lies whole in
\* some chunk, wherever it stands in the text, and no token is left out
\* (DocumentChunker.chunk).
PassagesAreWhole ==
  loop = "end" /\ ~text.blank =>
    \A from \in 0..(text.tokens - 1) :
      \E i \in DOMAIN chunks :
        /\ chunks[i].from <= from
        /\ Min({from + Min({text.overlap + 1, text.size}), text.tokens}) <= chunks[i].to

\* Every chunk begins and ends behind the one before it: the loop advances even
\* when the overlap is not smaller than a chunk, and it leaves no chunk behind
\* that is contained in another (DocumentChunker.chunk).
ChunksAdvance ==
  \A i \in 1..(Len(chunks) - 1) :
    chunks[i].from < chunks[i + 1].from /\ chunks[i].to < chunks[i + 1].to
=============================================================================
