------------------------------ MODULE Chunker ------------------------------
(***************************************************************************)
(* How a file is cut into the chunks that are embedded (vector_index/      *)
(* chunker.rs): at the functions of a language it knows, otherwise near    *)
(* blank lines.  A line is what it is to the cut: blank, the start of a    *)
(* function at a depth that counts, or other code.  Lines are counted from *)
(* 0 within the algorithms, as in the code, and a stretch is half open.    *)
(***************************************************************************)
EXTENDS Integers, Sequences, SequencesExt, FiniteSets, FiniteSetsExt, Lists

CONSTANTS
  CHUNK_LINES, MIN_CHUNK_LINES, MAX_FUNCTION_LINES, MAX_CHUNK_FOR_FUNCTIONS,
  BlankWindow,   \* how far from CHUNK_LINES a blank line is looked for
  MaxLines       \* bound: lines of the files that are checked

VARIABLES
  text,   \* the file that is cut
  known   \* whether chunk_by_functions knows its language

\* The code's sizes, 40, 5, 150, 80 and 10, are such that
\*   MIN_CHUNK_LINES <= CHUNK_LINES - BlankWindow, MIN_CHUNK_LINES <= MAX_CHUNK_FOR_FUNCTIONS,
\*   CHUNK_LINES + BlankWindow + MIN_CHUNK_LINES - 1 <= MAX_FUNCTION_LINES and
\*   MAX_CHUNK_FOR_FUNCTIONS + MIN_CHUNK_LINES - 1 <= MAX_FUNCTION_LINES.

Line == {"blank", "code", "fn"}
SmallFile == BoundedSeq(Line, MaxLines)

Chunk(start, end) == [line_start |-> start + 1, line_end |-> end]

\* The stretch cut at end[start], and again from there.
Pieces(end, from, to) ==
  LET cut[start \in from .. to] ==
        IF start = to THEN << >> ELSE <<Chunk(start, end[start])>> \o cut[end[start]]
  IN  cut[from]

NonEmpty(lines, from, to) == Cardinality({i \in from .. to - 1 : lines[i + 1] # "blank"})

\* chunk_by_lines: after the last blank line near the target; no tiny rest.
ChunkByLines(lines, from, to) ==
  LET target(start) == Min({start + CHUNK_LINES, to})
      blanks(start) == {i \in start + CHUNK_LINES - BlankWindow ..
                               Min({start + CHUNK_LINES + BlankWindow, to}) - 1 :
                        lines[i + 1] = "blank"}
      break(start) == IF target(start) < to /\ blanks(start) # {} THEN Max(blanks(start)) + 1
                      ELSE target(start)
      end == [start \in from .. to |->
                IF to - break(start) < MIN_CHUNK_LINES THEN to ELSE break(start)]
  IN  Pieces(end, from, to)

\* push_segment: what is between functions.
Segment(lines, from, to) ==
  IF to - from <= MAX_FUNCTION_LINES THEN <<Chunk(from, to)>> ELSE ChunkByLines(lines, from, to)

\* Mutant of FunctionChunks: the rest of a large function is a chunk, however tiny.
FunctionChunksTinyRest(from, to) ==
  LET end == [start \in from .. to |-> Min({start + MAX_CHUNK_FOR_FUNCTIONS, to})]
  IN  IF to - from <= MAX_FUNCTION_LINES THEN <<Chunk(from, to)>> ELSE Pieces(end, from, to)

\* A function, whole or in parts.
FunctionChunks(from, to) ==
  LET sub(start) == Min({start + MAX_CHUNK_FOR_FUNCTIONS, to})
      end == [start \in from .. to |->
                IF to - sub(start) \in 1 .. MIN_CHUNK_LINES - 1 THEN to ELSE sub(start)]
  IN  IF to - from <= MAX_FUNCTION_LINES THEN <<Chunk(from, to)>> ELSE Pieces(end, from, to)

\* A function lasts until the next one, so that only the first can have a preamble and
\* nothing trails the last.
ChunkByFunctions(lines) ==
  LET starts == Picked([i \in DOMAIN lines |-> i - 1], {i \in DOMAIN lines : lines[i] = "fn"})
      next(k) == IF k < Len(starts) THEN starts[k + 1] ELSE Len(lines)
  IN  IF starts = << >> THEN << >>
      ELSE (IF NonEmpty(lines, 0, starts[1]) >= 3 THEN Segment(lines, 0, starts[1]) ELSE << >>)
           \o FlattenSeq([k \in 1 .. Len(starts) |-> FunctionChunks(starts[k], next(k))])

ChunkFile(lines, supported) ==
  LET functions == IF supported THEN ChunkByFunctions(lines) ELSE << >>
  IN  CASE lines = << >> -> << >>
        [] Len(lines) \in 1 .. MIN_CHUNK_LINES - 1 -> <<Chunk(0, Len(lines))>>
        [] OTHER -> IF functions # << >> THEN functions ELSE ChunkByLines(lines, 0, Len(lines))

\* A file is cut once: there is nothing to do after.
Init == text \in SmallFile /\ known \in BOOLEAN

-----------------------------------------------------------------------------

\* The chunks of a file follow each other to its last line, so that the last line_end
\* counts its lines (record_index_savings) and no two have the same lines, by which
\* save_embeddings tells them apart.  Before the first there is no more than a preamble
\* of two lines that say something.  None is larger than a function may be, and none is
\* tiny but where a function or the file begins (chunk_file and all it calls).
ChunksTile ==
  LET chunks == ChunkFile(text, known)
      Extent(c) == c.line_end - c.line_start + 1
  IN  text # << >> =>
        /\ chunks # << >> /\ Last(chunks).line_end = Len(text)
        /\ \A k \in 2 .. Len(chunks) : chunks[k].line_start = chunks[k - 1].line_end + 1
        /\ NonEmpty(text, 0, Head(chunks).line_start - 1) < 3
        /\ \A c \in ToSet(chunks) :
             /\ Extent(c) \in 1 .. MAX_FUNCTION_LINES
             /\ Extent(c) < MIN_CHUNK_LINES => c.line_start = 1 \/ text[c.line_start] = "fn"
=============================================================================
