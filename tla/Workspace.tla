----------------------------- MODULE Workspace ------------------------------
(***************************************************************************)
(* The tools that change files: write, edit and patch (agent/tools/,       *)
(* agent/workspace/), as calls of several runs at a time.  runToolCall()   *)
(* asks the mutex for no keys, so nothing keeps two calls apart; their     *)
(* steps are what happens between two awaits.                              *)
(*                                                                         *)
(* atomicWrite() shows only its rename.  A call asks for what `asked` says *)
(* (write is one added file, edit one hunk of its own kind); a patch is    *)
(* written out by the language model, perhaps with an empty line after     *)
(* each hunk or one of a blank, and parsed.                                *)
(***************************************************************************)
EXTENDS PatchText

CONSTANTS
    Calls,
    Paths,
    NoFile,
    Directories,    \* what the files may be at first
    RequestsOf(_),  \* per call, what it may ask for
    Gaps            \* per patch, the lines that may follow each hunk

IsSequence(seq) == seq \in Seq(ToSet(seq))

VARIABLES
    files,          \* per path, its text
    asked,          \* per call, the hunks it was meant to apply
    hunks,          \* per call, the hunks it applies
    next,           \* per call, the hunk it is at
    step,           \* per call: idle, ready, read, moved, done, failed
    text,           \* per call, the text it is about to write
    start,          \* history: per call, the files when it began
    alone,          \* history: per call, no other call has changed a file since
    fresh           \* history: per call, none has changed the file it has read

vars == <<files, asked, hunks, next, step, text, start, alone, fresh>>
progress == <<asked, hunks, start>>

-----------------------------------------------------------------------------
(* A patch as it is written out.  A chunk that is meant is its line of     *)
(* context, its diff and whether it is at the end of the file.             *)
Meant(context, diff, eof) == [context |-> context, diff |-> diff, eof |-> eof]
OldOf(diff) == [i \in DOMAIN SelectSeq(diff, LAMBDA l : l.mark # "+") |->
                   SelectSeq(diff, LAMBDA l : l.mark # "+")[i].value]
NewOf(diff) == [i \in DOMAIN SelectSeq(diff, LAMBDA l : l.mark # "-") |->
                   SelectSeq(diff, LAMBDA l : l.mark # "-")[i].value]

WrittenChunk(m) ==
    <<Marked("@@", m.context)>> \o m.diff \o (IF m.eof THEN <<Marked("eof", <<>>)>> ELSE <<>>)

WrittenHunk(h, gap) ==
    <<Marked(h.kind, h.path)>>
    \o (IF h.kind = "update" /\ h.move # h.path THEN <<Marked("move", h.move)>> ELSE <<>>)
    \o (IF h.kind = "add" THEN [i \in DOMAIN h.lines |-> Marked("+", h.lines[i])] ELSE <<>>)
    \o FlattenSeq([i \in DOMAIN h.chunks |-> WrittenChunk(h.chunks[i])])
    \o gap

Written(request, gap) == FlattenSeq([i \in DOMAIN request |-> WrittenHunk(request[i], gap)])

\* A directory is a file or none for each path; an edit is one hunk of one
\* file; a patch is written in lines.
ASSUME WorkspaceAssumption ==
    /\ \A fs \in Directories : fs = [p \in Paths |-> fs[p]]
    /\ \A c \in Calls : \A request \in RequestsOf(c) :
          IF request[1].kind = "edit"
          THEN IsSequence(request) /\ Len(request) = 1 /\ request[1].move = request[1].path
          ELSE \A gap \in Gaps : IsSequence(Written(request, gap))

-----------------------------------------------------------------------------
Idle(c) == step[c] = "idle"
At(c) == hunks[c][next[c]]
AtLast(c) == next[c] = Len(hunks[c])

Init ==
    /\ files \in Directories
    /\ asked = [c \in Calls |-> <<>>] /\ hunks = [c \in Calls |-> <<>>]
    /\ next = [c \in Calls |-> 1] /\ step = [c \in Calls |-> "idle"]
    /\ text = [c \in Calls |-> <<>>]
    /\ start = [c \in Calls |-> <<>>]
    /\ alone = [c \in Calls |-> TRUE] /\ fresh = [c \in Calls |-> TRUE]

Goto(c, place) == step' = [step EXCEPT ![c] = place]

\* The hunk is applied; the next one follows, or the tool returns.
Advance(c) ==
    /\ next' = [next EXCEPT ![c] = @ + 1]
    /\ Goto(c, IF AtLast(c) THEN "done" ELSE "ready")
    /\ text' = [text EXCEPT ![c] = <<>>]

\* Call c changes the file of a path: what the others have seen of it is old.
Change(c, path, content) ==
    /\ files' = [files EXCEPT ![path] = content]
    /\ alone' = [b \in Calls |-> alone[b] /\ (b = c \/ Idle(b))]
    /\ fresh' = [b \in Calls |-> fresh[b] /\
                    ~(b # c /\ step[b] = "read" /\ At(b).path = path)]

NoChange == UNCHANGED <<files, alone, fresh>>

\* The tool begins: the patch is parsed, or refused.
Begins(c, request, parsed) ==
    /\ Idle(c)
    /\ asked' = [asked EXCEPT ![c] = request]
    /\ hunks' = [hunks EXCEPT ![c] = parsed.hunks]
    /\ Goto(c, IF parsed.error THEN "failed" ELSE "ready")
    /\ start' = [start EXCEPT ![c] = files]
    /\ NoChange /\ UNCHANGED <<next, text>>

Begin(c) ==
    \E request \in RequestsOf(c) :
        IF request[1].kind = "edit"
        THEN Begins(c, request, [hunks |-> request, error |-> FALSE])
        ELSE \E gap \in Gaps : Begins(c, request, ParsePatch(Written(request, gap)))

\* A file is read, and what it shall be is found out, or it cannot be.
Reads(c, old, located) ==
    /\ IF At(c).kind = "edit" THEN OnlyOnce(old, At(c).lines) ELSE Applicable(located)
    /\ Goto(c, "read")
    /\ text' = [text EXCEPT ![c] =
            IF At(c).kind = "edit" THEN Edited(old, At(c).lines, At(c).chunks)
            ELSE ApplyUpdateChunks(old, located)]
    /\ fresh' = [fresh EXCEPT ![c] = TRUE]
    /\ UNCHANGED <<files, alone, next, progress>>

\* Wrong variant: a file that is moved is removed first.
ReadRemoving(c) ==
    /\ step[c] = "ready" /\ At(c).kind = "update"
    /\ files[At(c).path] # NoFile
    /\ LET located == Locate(files[At(c).path], At(c).chunks) IN
        /\ Applicable(located)
        /\ text' = [text EXCEPT ![c] = ApplyUpdateChunks(files[At(c).path], located)]
    /\ Goto(c, "read")
    /\ Change(c, At(c).path, IF At(c).move # At(c).path THEN NoFile ELSE files[At(c).path])
    /\ UNCHANGED <<next, progress>>

Read(c) ==
    /\ step[c] = "ready" /\ At(c).kind \in {"edit", "update"}
    /\ files[At(c).path] # NoFile
    /\ Reads(c, files[At(c).path],
             IF At(c).kind = "edit" THEN <<>> ELSE Locate(files[At(c).path], At(c).chunks))

\* The new text of a file is renamed into its place.
Write(c) ==
    /\ \/ step[c] = "ready" /\ At(c).kind = "add" /\ Change(c, At(c).path, At(c).lines)
       \/ step[c] = "read" /\ Change(c, At(c).move, text[c])
    /\ IF At(c).move # At(c).path
       THEN Goto(c, "moved") /\ UNCHANGED <<next, text>>
       ELSE Advance(c)
    /\ UNCHANGED progress

\* A file is deleted, or the one that was moved is.
Delete(c) ==
    /\ step[c] = "moved" \/ (step[c] = "ready" /\ At(c).kind = "delete")
    /\ files[At(c).path] # NoFile
    /\ Change(c, At(c).path, NoFile)
    /\ Advance(c)
    /\ UNCHANGED progress

\* An operation on a file fails, a text is not found, or the process ends:
\* what was done so far stays.
Fail(c) ==
    /\ step[c] \in {"ready", "read", "moved"}
    /\ Goto(c, "failed")
    /\ NoChange /\ UNCHANGED <<next, text, progress>>

Next == \E c \in Calls : Begin(c) \/ Read(c) \/ Write(c) \/ Delete(c) \/ Fail(c)

Spec == Init /\ [][Next]_vars

-----------------------------------------------------------------------------
(* What is asked for, independent of how it is found.  A chunk is placed   *)
(* behind some lines: its old lines are there, but for blanks at the ends  *)
(* of lines, behind its context, and at the end of the file if it says so, *)
(* or if it only adds and no blank line of the patch came to be part of it. *)
Alike(line, other) == Look(2, line) = Look(2, other)

MayStand(lines, m, parsed, from, at) ==
    LET old == OldOf(m.diff)
    IN  /\ at >= from /\ at + Len(old) <= Len(lines)
        /\ \A k \in DOMAIN old : Alike(lines[at + k], old[k])
        /\ m.context # <<>> => \E k \in (from + 1)..at :
              /\ Alike(lines[k], m.context[1])
              /\ old = <<>> /\ ~m.eof => k = at
        /\ parsed.old = <<>> /\ m.context = <<>> => at = Len(lines)
        /\ m.eof => at + Len(old) >= Len(lines)

\* Places of all the chunks, one behind the other.
Placements(lines, meant, parsed) ==
    {p \in [DOMAIN meant -> 0..Len(lines)] :
        \A i \in DOMAIN meant :
            MayStand(lines, meant[i], parsed[i],
                     IF i = 1 THEN 0 ELSE p[i - 1] + Len(OldOf(meant[i - 1].diff)), p[i])}

\* The text with the chunks at p: between two of them it is what it was.
WithChunks(lines, meant, p) ==
    LET EndOf(i) == IF i = 0 THEN 0 ELSE p[i] + Len(OldOf(meant[i].diff))
        n == Len(meant)
    IN  FlattenSeq([i \in 1..n |->
            SubSeq(lines, EndOf(i - 1) + 1, p[i]) \o NewOf(meant[i].diff)])
        \o SubSeq(lines, EndOf(n) + 1, Len(lines))

UpdateAsAsked(lines, meant, parsed, result) ==
    \E p \in Placements(lines, meant, parsed) : result = WithoutBlank(WithChunks(lines, meant, p))

EditAsAsked(lines, old, new, result) ==
    \E i \in 0..(Len(lines) - Len(old)) :
        /\ SubSeq(lines, i + 1, i + Len(old)) = old
        /\ result = SubSeq(lines, 1, i) \o new \o SubSeq(lines, i + Len(old) + 1, Len(lines))
        /\ \A j \in IndexesOf(lines, old, 0) : j < i + Len(old) /\ i < j + Len(old)

\* A chunk for the end of the file may overlap one before it.
Overlaps(lines, chunks) ==
    LET located == Locate(lines, chunks)
    IN  \E i \in DOMAIN located : located[i].at < located[i].from

Asked(lines, h, meant, result) ==
    IF h.kind = "edit"
    THEN MatchedText \notin ToSet(h.chunks) => EditAsAsked(lines, h.lines, h.chunks, result)
    ELSE Overlaps(lines, h.chunks) \/ UpdateAsAsked(lines, meant.chunks, h.chunks, result)

(* When a call puts a text it made from a file into place, and no other    *)
(* has changed the file since it was read, the file changes exactly as the *)
(* call was asked to: every chunk once, in order, and not a line besides   *)
(* (edit.ts, patch.ts:181).                                                *)
ChangesOnlyWhatAsked ==
    [][\A c \in Calls :
        step[c] = "read" /\ step'[c] \in {"done", "ready", "moved"} /\ fresh[c] =>
            Asked(files[At(c).path], At(c), asked[c][next[c]], files'[At(c).move])]_vars

\* The files after a hunk.
After(fs, h) ==
    CASE h.kind = "add" -> [fs EXCEPT ![h.path] = h.lines]
      [] h.kind = "delete" -> [fs EXCEPT ![h.path] = NoFile]
      [] h.kind = "edit" -> [fs EXCEPT ![h.path] = Edited(@, h.lines, h.chunks)]
      [] h.kind = "update" ->
            [p \in Paths |->
                CASE p = h.move -> ApplyUpdateChunks(fs[h.path], Locate(fs[h.path], h.chunks))
                  [] p = h.path /\ p # h.move -> NoFile
                  [] OTHER -> fs[p]]

\* The files after each number of hunks.
Stages(fs, hs) ==
    LET after[n \in 0..Len(hs)] == IF n = 0 THEN fs ELSE After(after[n - 1], hs[n])
    IN  after
AfterHunks(c, n) == Stages(start[c], hunks[c])[n]

(* However a call ends, the files are as after some of its hunks, in their *)
(* order, all of them if it reported success; only a file that is being    *)
(* moved may be in both of its places, and never in none (patch.ts:242).   *)
FailsBetweenHunks ==
    \A c \in Calls : ~Idle(c) /\ alone[c] =>
        \/ /\ step[c] = "done" => next[c] = Len(hunks[c]) + 1
           /\ files = AfterHunks(c, next[c] - 1)
        \/ /\ step[c] \in {"moved", "failed"} /\ next[c] <= Len(hunks[c])
           /\ files = [AfterHunks(c, next[c]) EXCEPT ![At(c).path] =
                            AfterHunks(c, next[c] - 1)[At(c).path]]
=============================================================================
