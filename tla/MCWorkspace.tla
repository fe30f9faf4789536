---------------------------- MODULE MCWorkspace -----------------------------
(* Two calls.  The first may be any of many small patches and edits, which *)
(* exercise the search for lines; the second interferes with it.           *)
EXTENDS Workspace

a == Line("a")
b == Line("b")
loose == [b EXCEPT !.trail = TRUE]
Texts == UNION {[1..n -> {a, b}] : n \in 0..3}
         \cup {<<loose, a, b>>, <<a, b, loose, b>>, <<a, Blank, b, Blank>>, <<b, Blank, a>>}
MCDirectories == {[p \in Paths |-> IF p = "f" THEN t ELSE NoFile] : t \in Texts}

Diffs == { <<Marked("-", a), Marked("+", b)>>,
           <<Marked(" ", b), Marked("+", a)>>,
           <<Marked("+", a)>>,
           <<Marked("-", b)>> }
Chunks == {Meant(<<>>, d, FALSE) : d \in Diffs}
          \cup {Meant(<<a>>, d, FALSE) : d \in Diffs}
          \cup {Meant(<<>>, d, TRUE) : d \in Diffs}

Update(to, chunks) == [Hunk("update", "f") EXCEPT !.move = to, !.chunks = chunks]
Added(p, lines) == [Hunk("add", p) EXCEPT !.lines = lines]
Edit(old, new) == <<[Hunk("edit", "f") EXCEPT !.lines = old, !.chunks = new]>>

Updates ==
    {<<Update("f", <<m, n>>)>> : m \in Chunks, n \in Chunks}
    \cup {<<Update("g", <<m>>), Added("f", <<b>>)>> : m \in Chunks}
    \cup {<<Update("g", <<m>>), Hunk("delete", "g")>> : m \in Chunks}
Edits == {Edit(old, new) : old \in {<<a>>, <<a, b>>, <<b, b>>}, new \in {<<>>, <<b>>, <<a, MatchedText>>}}
Others == {Edit(<<b>>, <<a>>), <<Added("f", <<a, b>>)>>}

\* Nothing, an empty line, or one with a blank.
MCGaps == {<<>>, <<Marked("blank", <<>>)>>, <<Marked(" ", Blank)>>}

MCRequestsOf(c) == IF c = "c1" THEN Updates \cup Edits ELSE Others
=============================================================================
