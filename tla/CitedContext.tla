---------------------------- MODULE CitedContext ----------------------------
(***************************************************************************)
(* From source code to a cited answer.  An agent run sees the code through *)
(* search_code and read_file, cut to the size of the context               *)
(* (agent/runtime.py); the generator of one answer sees the search results *)
(* merged into blocks (rag/prompt.py).  Either way the lines that stayed   *)
(* whole are recorded, and the citations of the answer are checked against *)
(* them (rag/citation_validator.py).                                       *)
(*                                                                         *)
(* A text is a sequence of lines [no, len]: the number of the line in its  *)
(* file, and its length; an empty line has length 0.  "seen" is a history  *)
(* variable: the lines that reached the model whole.                       *)
(***************************************************************************)
EXTENDS Integers, Sequences, Numbers

CONSTANTS
  Source,              \* the repository: the lengths of the lines of each path
  ChunkSize, Overlap,  \* how the index splits a file
  MaxChars,            \* max_context_chars
  Overhead,            \* what a row or a block costs besides its text
  MinText,             \* max(1000, ...) and max(500, ...), the least a cut text keeps
  Marker,              \* 20, set aside for the mark of a cut block
  MaxCalls,            \* bound: tool calls of a run
  MaxRows,             \* bound: rows of one search
  Cited,               \* the citations an answer may make
  None

VARIABLES
  via,       \* how the model sees the code: "tools" or "generator"
  calls,     \* tool calls so far
  observed,  \* observed_ranges, or visible_ranges of the generator, in order
  seen,      \* lines that were shown whole
  answer     \* the citation of the answer and whether it was accepted

vars == <<via, calls, observed, seen, answer>>

Lines(path, first, last) ==
  [i \in 1 .. last - first + 1 |-> [no |-> first + i - 1, len |-> Source[path][first + i - 1]]]

\* Length of lines joined by line breaks.
Size(text) == IF text = <<>> THEN 0 ELSE Sum([i \in DOMAIN text |-> text[i].len]) + Len(text) - 1

\* Python's splitlines of lines joined by line breaks: an empty last line is
\* not a line.
SplitLines(text) ==
  IF text # <<>> /\ text[Len(text)].len = 0 THEN SubSeq(text, 1, Len(text) - 1) ELSE text

\* str.rstrip, as far as empty lines go.
Stripped(text) == SubSeq(text, 1, Greatest({i \in 0 .. Len(text) : i = 0 \/ text[i].len > 0}))

\* The lines of a text that are whole in its first n characters, each with
\* its line break.
WholeLines(text, n) ==
  SubSeq(text, 1, Greatest({i \in 0 .. Len(text) : i = 0 \/ Size(SubSeq(text, 1, i)) + 1 <= n}))

-----------------------------------------------------------------------------
\* split_code_by_lines.
Chunks(path) ==
  LET n == Len(Source[path])
      step == ChunkSize - Overlap
  IN {[path |-> path, start |-> s, end |-> Lesser(s + ChunkSize - 1, n)] :
        s \in {s \in 1 .. n : (s - 1) % step = 0 /\ (s = 1 \/ s - step + ChunkSize <= n)}}

AllChunks == UNION {Chunks(path) : path \in DOMAIN Source}

\* A search returns no chunk twice.
Searches ==
  UNION {{rows \in [1 .. n -> AllChunks] : \A i, j \in 1 .. n : rows[i] = rows[j] => i = j} :
           n \in 0 .. MaxRows}

\* truncate_text followed by the reading of its mark in collect_observed_ranges:
\* a line that was cut is not counted.
Truncated(text, n) == IF Size(text) <= n THEN text ELSE WholeLines(text, n)

\* Characters a text still has after truncate_text.
CutSize(text, n) == Lesser(Size(text), n + Marker)

Total(sizes) == Sum([i \in DOMAIN sizes |-> sizes[i] + Overhead])

\* compact_tool_result of search_code: cut the bodies, then drop them.
SearchShows(rows) ==
  LET texts == [i \in DOMAIN rows |-> Stripped(Lines(rows[i].path, rows[i].start, rows[i].end))]
      per   == Larger(MinText, MaxChars \div Larger(1, 2 * Len(rows)))
  IN IF Total([i \in DOMAIN texts |-> Size(texts[i])]) <= MaxChars THEN texts
     ELSE IF Total([i \in DOMAIN texts |-> CutSize(texts[i], per)]) <= MaxChars
          THEN [i \in DOMAIN texts |-> Truncated(texts[i], per)]
          ELSE [i \in DOMAIN texts |-> <<>>]

\* compact_tool_result of read_file.
ReadShows(text) ==
  LET half == Larger(MinText, MaxChars \div 2)
  IN IF Size(text) + Overhead <= MaxChars THEN text
     ELSE IF CutSize(text, half) + Overhead <= MaxChars THEN Truncated(text, half)
          ELSE <<>>

\* collect_observed_ranges: a range is recorded once, after the others.
Noted(ranges, range) ==
  IF \E i \in DOMAIN ranges : ranges[i] = range THEN ranges ELSE Append(ranges, range)

\* The range of a search row: its lines are counted from its start.
RowRange(row, text) ==
  [path |-> row.path, start |-> row.start, end |-> Lesser(row.end, row.start + Len(text) - 1)]

\* The ranges after each row of a search of which these texts were shown.
RowsRecorded(ranges, rows, texts) ==
  LET after[n \in 0 .. Len(rows)] ==
        IF n = 0 THEN ranges
        ELSE IF texts[n] = <<>> THEN after[n - 1]
        ELSE Noted(after[n - 1], RowRange(rows[n], texts[n]))
  IN after

\* Mutant: a line extends the last range of its file even if it leaves a gap.
LineRecorded_OverGaps(ranges, path, no) ==
  LET last == Len(ranges)
  IN IF last > 0 /\ ranges[last].path = path /\ ranges[last].end < no
     THEN [ranges EXCEPT ![last].end = no]
     ELSE Noted(ranges, [path |-> path, start |-> no, end |-> no])

\* A line of read_file extends the range recorded last, be it of an earlier call,
\* if it is the next line of that file; else it becomes a range of its own.
LineRecorded(ranges, path, no) ==
  LET last == Len(ranges)
  IN IF last > 0 /\ ranges[last].path = path /\ ranges[last].end + 1 = no
     THEN [ranges EXCEPT ![last].end = no]
     ELSE Noted(ranges, [path |-> path, start |-> no, end |-> no])

\* The ranges after each line of a file that was read; they carry their numbers.
LinesRecorded(ranges, path, text) ==
  LET after[n \in 0 .. Len(text)] ==
        IF n = 0 THEN ranges ELSE LineRecorded(after[n - 1], path, text[n].no)
  IN after

LinesOf(path, text) == {[path |-> path, no |-> text[i].no] : i \in DOMAIN text}

-----------------------------------------------------------------------------
\* merge_result_into_block, or another block.
Merge(blocks, chunk, rank) ==
  LET text == SplitLines(Lines(chunk.path, chunk.start, chunk.end))
      last == blocks[Len(blocks)]
      overlap == Larger(0, last.end - chunk.start + 1)
  IN IF blocks = <<>> \/ (blocks # <<>> /\ chunk.start > last.end + 1)
     THEN Append(blocks, [path |-> chunk.path, start |-> chunk.start, end |-> chunk.end,
                          text |-> text, rank |-> rank])
     ELSE [blocks EXCEPT ![Len(blocks)] =
             [path |-> last.path, start |-> last.start, end |-> Larger(last.end, chunk.end),
              text |-> last.text \o SubSeq(text, overlap + 1, Len(text)), rank |-> Lesser(last.rank, rank)]]

\* compact_results_for_context of one file, in the order of the lines at which
\* its chunks start: those that touch become one block.
Blocks(rows, path) ==
  LET At(s) == {i \in DOMAIN rows : rows[i].path = path /\ rows[i].start = s}
      blocks[s \in 0 .. Len(Source[path])] ==
        IF s = 0 THEN <<>>
        ELSE IF At(s) = {} THEN blocks[s - 1]
        ELSE LET i == CHOOSE i \in At(s) : TRUE IN Merge(blocks[s - 1], rows[i], i)
  IN blocks

ContextBlocks(rows) ==
  UNION {LET blocks == Blocks(rows, path)[Len(Source[path])]
         IN {blocks[i] : i \in DOMAIN blocks} : path \in {rows[i].path : i \in DOMAIN rows}}

\* format_results_as_context_with_ranges: the lines of a block that are shown
\* in what remains of the context.
BlockShows(text, remaining) ==
  IF Size(text) + Overhead <= remaining THEN text
  ELSE WholeLines(text, Larger(0, remaining - Overhead - Marker))

\* A block of which no line is whole has no range.
VisibleRange(block, shown) ==
  IF shown = <<>> THEN <<>>
  ELSE <<[path |-> block.path, start |-> block.start,
          end |-> Lesser(block.end, block.start + Len(shown) - 1)]>>

Show(acc, block) ==
  LET text == Stripped(block.text)
      remaining == MaxChars - acc.used
      shown == BlockShows(text, remaining)
  IN IF remaining <= 0 THEN acc
     ELSE [used |-> acc.used + Lesser(Size(text) + Overhead, remaining),
           ranges |-> acc.ranges \o VisibleRange(block, shown),
           lines |-> acc.lines \cup LinesOf(block.path, shown)]

\* The blocks are shown in the order of the ranks of their first chunks.
Rendered(rows) ==
  LET Ranked(r) == {block \in ContextBlocks(rows) : block.rank = r}
      acc[r \in 0 .. Len(rows)] ==
        IF r = 0 THEN [used |-> 0, ranges |-> <<>>, lines |-> {}]
        ELSE IF Ranked(r) = {} THEN acc[r - 1]
        ELSE Show(acc[r - 1], CHOOSE block \in Ranked(r) : TRUE)
  IN acc

Context(rows) == Rendered(rows)[Len(rows)]

-----------------------------------------------------------------------------
\* paths_match and citation_is_supported.  A path is its sequence of names;
\* a citation may leave out the first of them.
PathsMatch(cited, path) ==
  Len(cited) <= Len(path) /\ SubSeq(path, Len(path) - Len(cited) + 1, Len(path)) = cited

IsSupported(c, ranges) ==
  LET matching == {p \in {ranges[i].path : i \in DOMAIN ranges} : PathsMatch(c.path, p)}
  IN /\ 0 < c.start /\ c.start <= c.end
     /\ \E path \in matching : matching = {path}
     /\ \E i \in DOMAIN ranges :
          ranges[i].path \in matching /\ ranges[i].start <= c.start /\ c.end <= ranges[i].end

-----------------------------------------------------------------------------
Init ==
  /\ via \in {"tools", "generator"}
  /\ calls = 0 /\ observed = <<>> /\ seen = {} /\ answer = None

SearchCode(rows) ==
  /\ via = "tools" /\ answer = None /\ calls < MaxCalls
  /\ calls' = calls + 1
  /\ LET texts == SearchShows(rows)
     IN /\ observed' = RowsRecorded(observed, rows, texts)[Len(rows)]
        /\ seen' = seen \cup UNION {LinesOf(rows[i].path, texts[i]) : i \in DOMAIN rows}
  /\ UNCHANGED <<via, answer>>

ReadFile(path, first, last) ==
  /\ via = "tools" /\ answer = None /\ calls < MaxCalls
  /\ calls' = calls + 1
  /\ LET text == ReadShows(Lines(path, first, last))
     IN /\ observed' = LinesRecorded(observed, path, text)[Len(text)]
        /\ seen' = seen \cup LinesOf(path, text)
  /\ UNCHANGED <<via, answer>>

\* AnswerGenerator.generate, up to the request.
BuildContext(rows) ==
  /\ via = "generator" /\ answer = None /\ calls = 0
  /\ calls' = 1
  /\ LET context == Context(rows)
     IN observed' = context.ranges /\ seen' = context.lines
  /\ UNCHANGED <<via, answer>>

\* The model answers; its citation is checked.
Answer(c) ==
  /\ calls > 0 /\ answer = None
  /\ answer' = [cites |-> c, accepted |-> IsSupported(c, observed)]
  /\ UNCHANGED <<via, calls, observed, seen>>

Next ==
  \/ \E rows \in Searches : SearchCode(rows) \/ BuildContext(rows)
  \/ \E path \in DOMAIN Source : \E first \in DOMAIN Source[path] :
       \E last \in first .. Len(Source[path]) : ReadFile(path, first, last)
  \/ \E c \in Cited : Answer(c)

Spec == Init /\ [][Next]_vars

-----------------------------------------------------------------------------
(***************************************************************************)
(* A citation that passes names lines the model was shown: one file that   *)
(* it can mean, and every line of it in the range was in the context,      *)
(* whole, whatever was merged, stripped or cut on the way, and whichever   *)
(* calls showed its lines: a range may go on from one result into the      *)
(* next.  Empty lines are nobody's evidence (citation_validator.py:91,     *)
(* runtime.py:568, prompt.py:296).                                         *)
(***************************************************************************)
AcceptedLinesWereShown ==
  answer # None /\ answer.accepted =>
    \E path \in DOMAIN Source :
      /\ \A i \in DOMAIN observed :
           PathsMatch(answer.cites.path, observed[i].path) => observed[i].path = path
      /\ PathsMatch(answer.cites.path, path)
      /\ \A n \in answer.cites.start .. answer.cites.end :
           Source[path][n] = 0 \/ [path |-> path, no |-> n] \in seen

(***************************************************************************)
(* What the generator records is what it shows: "record complete code      *)
(* lines actually shown" (prompt.py:300).                                  *)
(***************************************************************************)
ShownLinesAreRecorded ==
  \A line \in seen :
    \E i \in DOMAIN observed :
      observed[i].path = line.path /\ line.no \in observed[i].start .. observed[i].end

-----------------------------------------------------------------------------
\* What carries the first of them: each line of a range that is not empty is
\* among the lines that were shown.
Covers(lines, ranges) ==
  /\ ranges \in Seq([path : DOMAIN Source, start : Int, end : Int])
  /\ \A i \in DOMAIN ranges : \A n \in ranges[i].start .. ranges[i].end :
       Source[ranges[i].path][n] = 0 \/ [path |-> ranges[i].path, no |-> n] \in lines

CitedInv ==
  /\ Covers(seen, observed)
  /\ answer # None => /\ answer.cites \in Cited
                      /\ answer.accepted = IsSupported(answer.cites, observed)
=============================================================================
