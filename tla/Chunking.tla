------------------------------ MODULE Chunking ------------------------------
(***************************************************************************)
(* How a document is cut for the search (rag/chunk.py): windows of words,  *)
(* each overlapping the one before.  A window is the pair of its first     *)
(* word and the word after its last.                                       *)
(***************************************************************************)
EXTENDS Integers

CONSTANTS
  Lengths,   \* documents, by their words
  Targets,   \* target_words: at least one
  Overlaps   \* overlap_words as asked for

ASSUME SizesAssumption == Lengths \subseteq Nat /\ Targets \subseteq Nat \ {0} /\ Overlaps \subseteq Nat

VARIABLES
  words, target, overlap,  \* the call
  start,                   \* of the next window
  chunks,                  \* the windows so far
  cutting                  \* the loop goes on

chunkVars == <<words, target, overlap, start, chunks, cutting>>

Least(a, b) == IF a < b THEN a ELSE b

\* An overlap as large as the window would not get on.
Clipped(asked, size) == Least(asked, size - 1)

Stride_Target == target
Stride == target - overlap

ChunkInit ==
  /\ words \in Lengths /\ target \in Targets
  /\ \E asked \in Overlaps : overlap = Clipped(asked, target)
  /\ start = 0 /\ chunks = {} /\ cutting = TRUE

IsLast == start + target >= words

\* A text that fits is left whole; an empty one gives nothing.
Whole ==
  /\ cutting /\ words <= target
  /\ chunks' = (IF words = 0 THEN {} ELSE {<<0, words>>})
  /\ cutting' = FALSE
  /\ UNCHANGED <<words, target, overlap, start>>

Cut ==
  /\ cutting /\ words > target
  /\ chunks' = chunks \union {<<start, Least(start + target, words)>>}
  /\ cutting' = ~IsLast
  /\ start' = IF IsLast THEN start ELSE start + Stride
  /\ UNCHANGED <<words, target, overlap>>

ChunkNext == Whole \/ Cut
ChunkSpec == ChunkInit /\ [][ChunkNext]_chunkVars

----------------------------------------------------------------------------
(* Properties                                                              *)

ChunkTypeOK ==
  /\ words \in Nat /\ target \in Nat \ {0} /\ overlap \in 0 .. target - 1
  /\ start \in Nat /\ chunks \subseteq Nat \X Nat /\ cutting \in BOOLEAN

\* No word is lost: what was cut when the loop ends covers the whole text.
WordsCovered ==
  ~cutting => \A w \in 0 .. words - 1 : \E c \in chunks : c[1] <= w /\ w < c[2]

\* No window is empty or larger than it may be, and each but the first begins
\* overlap words before the end of the one before.
WindowsOverlap ==
  \A c \in chunks :
    /\ c[1] < c[2] /\ c[2] <= words /\ c[2] - c[1] <= target
    /\ c[1] # 0 => \E b \in chunks : b[1] < c[1] /\ b[2] = c[1] + overlap

\* Only one window reaches the end: the text's tail is not indexed twice.
OneLast == \A b, c \in chunks : b[2] = words /\ c[2] = words => b = c

\* The windows cover the text, overlap as asked for, and end with it.
ChunksAreRight == ChunkTypeOK /\ WordsCovered /\ WindowsOverlap /\ OneLast

============================================================================
