----------------------------- MODULE PatchText ------------------------------
(***************************************************************************)
(* What the tools edit and patch make of a text (agent/tools/edit.ts,      *)
(* patch.ts).  A text is a sequence of lines; a line is its words and      *)
(* whether blanks lead or trail them.  The line break at the end of a file *)
(* is not told from its absence.                                           *)
(*                                                                         *)
(* A patch is, between its first and last line, a sequence of marked       *)
(* lines: "add", "delete", "update", "move" with a path; "@@" with the     *)
(* line of context, if there is one; " ", "+", "-" with a line; "eof"; and *)
(* "blank", an empty line, which the format gives no meaning of its own.   *)
(***************************************************************************)
EXTENDS Integers, Sequences, SequencesExt, FiniteSetsExt

Line(words) == [words |-> words, lead |-> FALSE, trail |-> FALSE]
Blank == Line("")
Marked(mark, value) == [mark |-> mark, value |-> value]

-----------------------------------------------------------------------------
(* parsePatch().  mode is the loop that has the next line: top, add, the   *)
(* first line of an update hunk, its chunks, or one chunk.                 *)
NoHunks == [mode |-> "top", hunks |-> <<>>, error |-> FALSE]
Hunk(kind, path) == [kind |-> kind, path |-> path, move |-> path, lines |-> <<>>, chunks |-> <<>>]
Chunk(context) == [context |-> context, old |-> <<>>, new |-> <<>>, eof |-> FALSE]

InUpdate(s) == s.mode \in {"update", "chunks", "chunk"}
NoChunks(s) == Last(s.hunks).chunks = <<>>
\* An empty line, or a kept one of blanks only: between chunks no part of any.
BlankLine(l) == l.mark = "blank" \/ (l.mark = " " /\ l.value.words = "")
EmptyChunk(s) ==
    s.mode = "chunk" /\ Last(Last(s.hunks).chunks).old = <<>> /\ Last(Last(s.hunks).chunks).new = <<>>

Wrong(s) == [s EXCEPT !.error = TRUE]
WithHunk(s, l) ==
    [s EXCEPT !.mode = CASE l.mark = "add" -> "add" [] l.mark = "update" -> "update"
                         [] OTHER -> "top",
              !.hunks = Append(@, Hunk(l.mark, l.value))]
WithChunk(s, context) ==
    [s EXCEPT !.mode = "chunk",
              !.hunks[Len(s.hunks)].chunks = Append(@, Chunk(context))]

\* A line of a chunk: kept, added or removed.
Extended(chunk, l) ==
    CASE l.mark = "blank" -> [chunk EXCEPT !.old = Append(@, Blank), !.new = Append(@, Blank)]
      [] l.mark = " " -> [chunk EXCEPT !.old = Append(@, l.value), !.new = Append(@, l.value)]
      [] l.mark = "+" -> [chunk EXCEPT !.new = Append(@, l.value)]
      [] l.mark = "-" -> [chunk EXCEPT !.old = Append(@, l.value)]

InChunk(s, l) ==
    [s EXCEPT !.hunks[Len(s.hunks)].chunks[Len(Last(s.hunks).chunks)] = Extended(@, l)]

ParseLine(s, l) ==
    CASE s.error -> s
      [] s.mode = "add" /\ l.mark = "+" ->
            [s EXCEPT !.hunks[Len(s.hunks)].lines = Append(@, l.value)]
      [] s.mode = "update" /\ l.mark = "move" ->
            [s EXCEPT !.mode = "chunks", !.hunks[Len(s.hunks)].move = l.value]
      [] s.mode = "chunk" /\ l.mark \in {"blank", " ", "+", "-"} -> InChunk(s, l)
      [] s.mode = "chunk" /\ l.mark = "eof" ->
            [s EXCEPT !.mode = "chunks",
                      !.hunks[Len(s.hunks)].chunks[Len(Last(s.hunks).chunks)].eof = TRUE]
      [] EmptyChunk(s) -> Wrong(s)
      [] InUpdate(s) /\ BlankLine(l) -> [s EXCEPT !.mode = "chunks"]
      [] InUpdate(s) /\ l.mark = "@@" -> WithChunk(s, l.value)
      [] InUpdate(s) /\ l.mark \in {" ", "+", "-"} ->
            IF NoChunks(s) THEN InChunk(WithChunk(s, <<>>), l) ELSE Wrong(s)
      [] InUpdate(s) /\ NoChunks(s) -> Wrong(s)
      [] l.mark \in {"add", "delete", "update"} -> WithHunk(s, l)
      [] OTHER -> Wrong(s)

Ended(s) ==
    IF s.hunks = <<>> \/ EmptyChunk(s) \/ (InUpdate(s) /\ NoChunks(s)) THEN Wrong(s) ELSE s

ParsePatch(text) ==
    LET parsed[n \in 0..Len(text)] == IF n = 0 THEN NoHunks ELSE ParseLine(parsed[n - 1], text[n])
    IN  Ended(parsed[Len(text)])

-----------------------------------------------------------------------------
(* applyUpdateChunks().  Positions count the lines before them.            *)
NotFound == -1

\* The three looks at a line: as it is, without trailing, without any blanks.
Look(level, line) ==
    [line EXCEPT !.trail = @ /\ level < 1, !.lead = @ /\ level < 2]

Matches(lines, pattern, from, level) ==
    {i \in from..(Len(lines) - Len(pattern)) :
        \A k \in DOMAIN pattern : Look(level, lines[i + k]) = Look(level, pattern[k])}

\* The first match of the strictest look that has one.
FirstMatch(exact, trimmed, bare) ==
    CASE exact # {} -> Min(exact)
      [] exact = {} /\ trimmed # {} -> Min(trimmed)
      [] exact = {} /\ trimmed = {} /\ bare # {} -> Min(bare)
      [] OTHER -> NotFound

SeekSequence(lines, pattern, start, eof) ==
    LET from == IF eof THEN Len(lines) - Len(pattern) ELSE start
    IN  IF pattern = <<>> THEN start
        ELSE IF Len(pattern) > Len(lines) THEN NotFound
        ELSE FirstMatch(Matches(lines, pattern, from, 0), Matches(lines, pattern, from, 1),
                        Matches(lines, pattern, from, 2))

WithoutBlank(seq) == IF seq # <<>> /\ Last(seq) = Blank THEN Front(seq) ELSE seq

\* What is replaced: from where on it was looked for, where it was found, how
\* many lines, by which.
Replacement(from, at, length, new) == [from |-> from, at |-> at, length |-> length, new |-> new]

Insertion(lines, chunk, from) ==
    Replacement(from, IF chunk.context # <<>> /\ ~chunk.eof THEN from ELSE Len(lines),
                0, chunk.new)

\* The lines of the chunk, or those before its last one if that is blank.
FoundElse(from, chunk, at, shorter) ==
    IF at = NotFound /\ Last(chunk.old) = Blank
    THEN Replacement(from, shorter, Len(chunk.old) - 1, WithoutBlank(chunk.new))
    ELSE Replacement(from, at, Len(chunk.old), chunk.new)

Located(lines, chunk, from) ==
    IF from = NotFound THEN Replacement(from, NotFound, 0, <<>>)
    ELSE IF chunk.old = <<>> THEN Insertion(lines, chunk, from)
    ELSE FoundElse(from, chunk, SeekSequence(lines, chunk.old, from, chunk.eof),
                   SeekSequence(lines, WithoutBlank(chunk.old), from, chunk.eof))

\* Where the lines of a chunk are looked for: behind its context.
BehindContext(lines, chunk, from) ==
    IF chunk.context = <<>> THEN from
    ELSE LET at == SeekSequence(lines, chunk.context, from, FALSE)
         IN  IF at = NotFound THEN NotFound ELSE at + 1

\* One chunk after those located before; one that is not found ends it.
LocateNext(lines, located, chunk) ==
    LET from == IF located = <<>> THEN 0 ELSE Last(located).at + Last(located).length
    IN  IF located # <<>> /\ Last(located).at = NotFound THEN located
        ELSE Append(located, Located(lines, chunk, BehindContext(lines, chunk, from)))

Locate(lines, chunks) ==
    FoldLeft(LAMBDA located, chunk : LocateNext(lines, located, chunk), <<>>, chunks)

Applicable(located) == \A i \in DOMAIN located : located[i].at # NotFound

\* The order of a stable sort by position.
InOrder(located) ==
    SetToSortSeq(DOMAIN located, LAMBDA i, j :
        located[i].at < located[j].at \/ (located[i].at = located[j].at /\ i < j))

\* splice(), which takes a position behind the end for the end.
Splice(lines, r) ==
    SubSeq(lines, 1, Min({r.at, Len(lines)})) \o r.new \o SubSeq(lines, r.at + r.length + 1, Len(lines))

\* Wrong variant: from the first replacement to the last.
SplicedForward(lines, located, order) ==
    FoldLeft(LAMBDA text, i : Splice(text, located[i]), lines, order)
\* From the last replacement to the first.
Spliced(lines, located, order) ==
    FoldLeft(LAMBDA text, i : Splice(text, located[i]), lines, Reverse(order))

\* A blank line at the end is taken for the end of the line before.
ApplyUpdateChunks(lines, located) ==
    WithoutBlank(Spliced(lines, located, InOrder(located)))

-----------------------------------------------------------------------------
(* edit.ts.                                                                *)
MatchedText == Line("$&")

\* indexOf(old, from): the least position at or behind from.
IndexesOf(text, old, from) ==
    {i \in from..(Len(text) - Len(old)) : SubSeq(text, i + 1, i + Len(old)) = old}

\* replace() puts what was found in the place of "$&".
Substituted(old, new) ==
    FlattenSeq([i \in DOMAIN new |-> IF new[i] = MatchedText THEN old ELSE <<new[i]>>])

OnlyOnce(text, old) ==
    /\ IndexesOf(text, old, 0) # {}
    /\ IndexesOf(text, old, Min(IndexesOf(text, old, 0)) + Len(old)) = {}

Edited(text, old, new) ==
    Splice(text, Replacement(0, Min(IndexesOf(text, old, 0)), Len(old), Substituted(old, new)))
=============================================================================
