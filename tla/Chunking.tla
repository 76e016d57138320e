------------------------------ MODULE Chunking ------------------------------
(***************************************************************************)
(* chunk_lines: the lines of a log are cut into overlapping windows, which *)
(* the chat retrieves and cites by their line numbers.  Of the text only   *)
(* matters which lines are blank.                                          *)
(***************************************************************************)
EXTENDS Integers

CONSTANTS WINDOW_LINES, OVERLAP_LINES, MAX_CHUNKS,
          Texts   \* the logs: their number of lines and which are blank

ASSUME ChunkAssumption ==
    /\ WINDOW_LINES \in Nat /\ OVERLAP_LINES \in Nat
    /\ OVERLAP_LINES < WINDOW_LINES
    /\ MAX_CHUNKS \in Nat \ {0}
    /\ Texts \subseteq [total : Nat, blank : SUBSET Nat]

VARIABLES
    text,
    stride, window,
    start,
    chunks,
    cutting     \* the loop has not ended

chunkVars == <<text, stride, window, start, chunks, cutting>>

Chunk == [start_line : Nat, end_line : Nat]

Stride == WINDOW_LINES - OVERLAP_LINES
Estimate(total) == (total - OVERLAP_LINES) \div Stride

\* The stride of a log with more windows than MAX_CHUNKS is widened.
WideStride(total) ==
    IF Estimate(total) > MAX_CHUNKS /\ total \div MAX_CHUNKS > Stride
    THEN total \div MAX_CHUNKS ELSE Stride

ChunkInit ==
    /\ text \in Texts
    /\ stride = WideStride(text.total)
    /\ window = stride + OVERLAP_LINES
    /\ start = 0
    /\ chunks = {}
    /\ cutting = (text.total > 0)

End == IF start + window < text.total THEN start + window ELSE text.total

MutCut ==  \* Mutant: the loop steps by the whole window.
    /\ cutting
    /\ chunks' = IF start + 1 .. End \subseteq text.blank THEN chunks
                 ELSE chunks \union {[start_line |-> start + 1, end_line |-> End]}
    /\ IF End >= text.total
       THEN cutting' = FALSE /\ UNCHANGED start
       ELSE start' = start + window /\ UNCHANGED cutting
    /\ UNCHANGED <<text, stride, window>>

\* One turn of the loop.  A window of blank lines only is no chunk.
Cut ==
    /\ cutting
    /\ chunks' = IF start + 1 .. End \subseteq text.blank THEN chunks
                 ELSE chunks \union {[start_line |-> start + 1, end_line |-> End]}
    /\ IF End >= text.total
       THEN cutting' = FALSE /\ UNCHANGED start
       ELSE start' = start + stride /\ UNCHANGED cutting
    /\ UNCHANGED <<text, stride, window>>

ChunkNext == Cut

ChunkSpec == ChunkInit /\ [][ChunkNext]_chunkVars
-----------------------------------------------------------------------------
(* Properties. *)

\* Types of all variables.
ChunkTypeOK ==
    /\ text \in Texts /\ stride \in Nat /\ window \in Nat /\ start \in Nat
    /\ chunks \subseteq Chunk /\ cutting \in BOOLEAN

\* "Overlap keeps multi-line events (stack traces) intact in at least one
\* chunk": lines of which the last comes at most the overlap after the first,
\* not all of them blank, are in one chunk together, however wide the stride.
EventsStayWhole ==
    ~cutting =>
        \A i, j \in 1 .. text.total :
            i <= j /\ j - i <= OVERLAP_LINES /\ ~(i .. j \subseteq text.blank)
            => \E c \in chunks : c.start_line <= i /\ j <= c.end_line
=============================================================================
