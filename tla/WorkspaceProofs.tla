-------------------------- MODULE WorkspaceProofs ---------------------------
(***************************************************************************)
(* Proofs about Workspace, for patches of every length, any number of      *)
(* calls and every directory.                                              *)
(*                                                                         *)
(* First what parsePatch() returns: a sequence of hunks of which only an   *)
(* update may move its file (HunkSound, and ParserSound for the parser on  *)
(* its way).  Then the stages of a call: the files it began with and each  *)
(* hunk applied to what the one before left (StagesStep).  The inductive   *)
(* invariant, WorkspaceInv, says of every call which hunk it is at, and of *)
(* one that nobody else has disturbed that the files are as this hunk found*)
(* them, or, in the middle of a move, with the file in both of its places  *)
(* (FilesFollow).  A text that was read is the text on disk only as long as*)
(* no other call changes the file: that is what fresh stands for.          *)
(***************************************************************************)
EXTENDS Workspace, SequenceLemmas

-----------------------------------------------------------------------------
(* What parsePatch() returns.                                              *)

(* A parsed hunk: only an update may go to another path than its own.      *)
HunkSound(h) ==
    /\ \E K, P, M, L, C : h \in [kind : K, path : P, move : M, lines : L, chunks : C]
    /\ h.kind # "update" => h.move = h.path

HunksSound(hs) == IsSequence(hs) /\ \A i \in 1..Len(hs) : HunkSound(hs[i])

InMode(mode, hs) ==
    /\ HunksSound(hs)
    /\ mode = "update" => hs # <<>> /\ hs[Len(hs)].kind = "update"

ParserSound(s) ==
    /\ \E M, H, E : s \in [mode : M, hunks : H, error : E]
    /\ InMode(s.mode, s.hunks)

(* Any sequence is one of its elements.                                    *)
LEMMA SequenceOfItsOwn ==
    ASSUME NEW S, NEW seq \in Seq(S) PROVE IsSequence(seq)
<1>1. DOMAIN seq = 1..Len(seq) /\ Len(seq) \in Nat /\ seq \in [1..Len(seq) -> S]
  BY LenProperties
<1>2. seq \in [1..Len(seq) -> ToSet(seq)]
  BY <1>1 DEF ToSet
<1>3. QED
  BY <1>1, <1>2 DEF IsSequence

(* Lengths and domains of a sequence.                                      *)
LEMMA SequenceFacts ==
    ASSUME NEW seq, IsSequence(seq)
    PROVE  /\ Len(seq) \in Nat /\ DOMAIN seq = 1..Len(seq)
           /\ seq # <<>> => Len(seq) \in 1..Len(seq)
           /\ seq = <<>> => Len(seq) = 0
BY LenProperties, EmptySeq DEF IsSequence

(* One more hunk.                                                          *)
LEMMA HunkAppended ==
    ASSUME NEW hs, HunksSound(hs), NEW h, HunkSound(h)
    PROVE  /\ HunksSound(Append(hs, h)) /\ Append(hs, h) # <<>>
           /\ Append(hs, h)[Len(Append(hs, h))] = h
<1>. DEFINE S == ToSet(hs) \cup {h}
<1>1. hs \in Seq(S)
  BY SeqMonotonic DEF HunksSound, IsSequence
<1>2. /\ Append(hs, h) \in Seq(S) /\ Len(Append(hs, h)) = Len(hs) + 1 /\ Len(hs) \in Nat
      /\ \A i \in 1..Len(hs) : Append(hs, h)[i] = hs[i]
      /\ Append(hs, h)[Len(hs) + 1] = h
  BY <1>1, AppendProperties, LenProperties
<1>3. IsSequence(Append(hs, h))
  BY <1>2, SequenceOfItsOwn
<1>. HIDE DEF S
<1>4. QED
  BY <1>2, <1>3, EmptySeq DEF HunksSound

(* Another hunk of the same kind in the place of the last one.             *)
LEMMA HunkReplaced ==
    ASSUME NEW hs, HunksSound(hs), NEW n, n = Len(hs), NEW h,
           n > 0 => HunkSound(h) /\ h.kind = hs[n].kind
    PROVE  LET new == [hs EXCEPT ![n] = h]
           IN  /\ HunksSound(new) /\ Len(new) = Len(hs)
               /\ n > 0 => new[n].kind = hs[n].kind
               /\ hs # <<>> => new # <<>>
<1>. DEFINE S == ToSet(hs) \cup {h}
            new == [hs EXCEPT ![n] = h]
<1>1. hs \in Seq(S) /\ n \in Nat /\ DOMAIN hs = 1..n /\ hs \in [1..n -> S]
  BY SeqMonotonic, LenProperties DEF HunksSound, IsSequence
<1>2. new \in [1..n -> S]
  BY <1>1
<1>3. new \in Seq(S) /\ Len(new) = n
  BY <1>1, <1>2
<1>4. \A i \in 1..n : new[i] = IF i = n THEN h ELSE hs[i]
  BY <1>1
<1>5. IsSequence(new)
  BY <1>3, SequenceOfItsOwn
<1>6. HunksSound(new)
  BY <1>1, <1>3, <1>4, <1>5 DEF HunksSound
<1>7. hs # <<>> => new # <<>>
  BY <1>1, <1>3, EmptySeq
<1>. HIDE DEF new, S
<1>8. QED
  BY <1>1, <1>3, <1>4, <1>6, <1>7 DEF new

(* A hunk with other chunks, lines or, for an update, another path.        *)
LEMMA HunkParts ==
    ASSUME NEW h, HunkSound(h), NEW value
    PROVE  /\ LET new == [h EXCEPT !.chunks = value] IN HunkSound(new) /\ new.kind = h.kind
           /\ LET new == [h EXCEPT !.lines = value] IN HunkSound(new) /\ new.kind = h.kind
           /\ h.kind = "update" =>
                 LET new == [h EXCEPT !.move = value] IN HunkSound(new) /\ new.kind = h.kind
<1>1. PICK K, P, M, L, C : h \in [kind : K, path : P, move : M, lines : L, chunks : C]
  BY DEF HunkSound
<1>1a. h.kind # "update" => h.move = h.path
  BY DEF HunkSound
<1>2. ASSUME NEW new, new = [h EXCEPT !.chunks = value]
      PROVE  HunkSound(new) /\ new.kind = h.kind
  <2>1. /\ new \in [kind : K, path : P, move : M, lines : L, chunks : {value}]
        /\ new.kind = h.kind /\ new.move = h.move /\ new.path = h.path
    BY <1>1, <1>2
  <2>2. QED
    BY <1>1a, <2>1 DEF HunkSound
<1>3. ASSUME NEW new, new = [h EXCEPT !.lines = value]
      PROVE  HunkSound(new) /\ new.kind = h.kind
  <2>1. /\ new \in [kind : K, path : P, move : M, lines : {value}, chunks : C]
        /\ new.kind = h.kind /\ new.move = h.move /\ new.path = h.path
    BY <1>1, <1>3
  <2>2. \E A, B, D, F, G : new \in [kind : A, path : B, move : D, lines : F, chunks : G]
    BY <2>1, Zenon
  <2>3. QED
    BY <1>1a, <2>1, <2>2, Zenon DEF HunkSound
<1>4. ASSUME NEW new, new = [h EXCEPT !.move = value], h.kind = "update"
      PROVE  HunkSound(new) /\ new.kind = h.kind
  <2>1. new \in [kind : K, path : P, move : {value}, lines : L, chunks : C]
    BY <1>1, <1>4
  <2>1a. new.kind = h.kind
    BY <1>1, <1>4
  <2>2. QED
    BY <1>4, <2>1, <2>1a DEF HunkSound
<1>5. QED
  BY <1>2, <1>3, <1>4

(* The parser after a change of its last hunk.                             *)
LEMMA LastReplaced ==
    ASSUME NEW mode, NEW hs, InMode(mode, hs), NEW h,
           hs # <<>> => HunkSound(h) /\ h.kind = hs[Len(hs)].kind
    PROVE  /\ InMode(mode, [hs EXCEPT ![Len(hs)] = h])
           /\ InMode("chunks", [hs EXCEPT ![Len(hs)] = h])
           /\ InMode("chunk", [hs EXCEPT ![Len(hs)] = h])
<1>. DEFINE n == Len(hs)
            new == [hs EXCEPT ![n] = h]
<1>1. HunksSound(hs) /\ n \in Nat /\ (hs # <<>> <=> n > 0)
  BY SequenceFacts DEF InMode, HunksSound
<1>2. /\ HunksSound(new) /\ Len(new) = n
      /\ n > 0 => new[n].kind = hs[n].kind
      /\ hs # <<>> => new # <<>>
  BY <1>1, HunkReplaced
<1>. HIDE DEF new
<1>3. QED
  BY <1>1, <1>2 DEF InMode, new

(* A parser is sound if its parts are.                                     *)
LEMMA PartsSound ==
    ASSUME NEW s, NEW M, NEW H, NEW E, s \in [mode : M, hunks : H, error : E],
           InMode(s.mode, s.hunks)
    PROVE  ParserSound(s)
BY DEF ParserSound

(* One more line of the last chunk.                                        *)
LEMMA InChunkSound ==
    ASSUME NEW s, ParserSound(s), NEW l
    PROVE  ParserSound(InChunk(s, l))
<1>1. PICK M, H, E : s \in [mode : M, hunks : H, error : E]
  BY DEF ParserSound
<1>. DEFINE n == Len(s.hunks)
            chunks == [s.hunks[n].chunks EXCEPT ![Len(Last(s.hunks).chunks)] = Extended(@, l)]
            h == [s.hunks[n] EXCEPT !.chunks = chunks]
            hs == [s.hunks EXCEPT ![n] = h]
<1>2. /\ InChunk(s, l) \in [mode : {s.mode}, hunks : {hs}, error : E]
      /\ InChunk(s, l).mode = s.mode /\ InChunk(s, l).hunks = hs
  BY <1>1 DEF InChunk
<1>. HIDE DEF chunks
<1>3. s.hunks # <<>> => HunkSound(h) /\ h.kind = s.hunks[n].kind
  BY SequenceFacts, HunkParts DEF InMode, HunksSound, ParserSound
<1>. HIDE DEF h
<1>4. InMode(s.mode, hs)
  BY <1>3, LastReplaced DEF ParserSound
<1>. HIDE DEF hs
<1>5. QED
  BY <1>2, <1>4, PartsSound

(* A chunk is begun.                                                       *)
LEMMA WithChunkSound ==
    ASSUME NEW s, ParserSound(s), NEW context
    PROVE  ParserSound(WithChunk(s, context))
<1>1. PICK M, H, E : s \in [mode : M, hunks : H, error : E]
  BY DEF ParserSound
<1>. DEFINE n == Len(s.hunks)
            chunks == Append(s.hunks[n].chunks, Chunk(context))
            h == [s.hunks[n] EXCEPT !.chunks = chunks]
            hs == [s.hunks EXCEPT ![n] = h]
<1>2. /\ WithChunk(s, context) \in [mode : {"chunk"}, hunks : {hs}, error : E]
      /\ WithChunk(s, context).mode = "chunk" /\ WithChunk(s, context).hunks = hs
  BY <1>1 DEF WithChunk
<1>. HIDE DEF chunks
<1>3. s.hunks # <<>> => HunkSound(h) /\ h.kind = s.hunks[n].kind
  BY SequenceFacts, HunkParts DEF InMode, HunksSound, ParserSound
<1>. HIDE DEF h
<1>4. InMode("chunk", hs)
  BY <1>3, LastReplaced DEF ParserSound
<1>. HIDE DEF hs
<1>5. QED
  BY <1>2, <1>4, PartsSound

(* A hunk is begun.                                                        *)
LEMMA WithHunkSound ==
    ASSUME NEW s, ParserSound(s), NEW l
    PROVE  ParserSound(WithHunk(s, l))
<1>1. PICK M, H, E : s \in [mode : M, hunks : H, error : E]
  BY DEF ParserSound
<1>. DEFINE h == Hunk(l.mark, l.value)
            mode == CASE l.mark = "add" -> "add" [] l.mark = "update" -> "update"
                      [] OTHER -> "top"
            hs == Append(s.hunks, h)
<1>2. /\ WithHunk(s, l) \in [mode : {mode}, hunks : {hs}, error : E]
      /\ WithHunk(s, l).mode = mode /\ WithHunk(s, l).hunks = hs
  BY <1>1 DEF WithHunk
<1>3. HunkSound(h) /\ h.kind = l.mark
  <2>1. /\ h \in [kind : {l.mark}, path : {l.value}, move : {l.value},
                   lines : {<<>>}, chunks : {<<>>}]
        /\ h.kind = l.mark /\ h.move = h.path
    BY DEF Hunk
  <2>2. QED
    BY <2>1 DEF HunkSound
<1>4. mode = "update" => l.mark = "update"
  OBVIOUS
<1>. HIDE DEF h, mode
<1>5. HunksSound(hs) /\ hs # <<>> /\ hs[Len(hs)] = h
  BY <1>3, HunkAppended DEF InMode, ParserSound
<1>. HIDE DEF hs
<1>6. InMode(mode, hs)
  BY <1>3, <1>4, <1>5 DEF InMode
<1>7. QED
  BY <1>2, <1>6, PartsSound

(* What parsePatch() has made of a text up to a line has this shape.       *)
LEMMA ParseLineSound ==
    ASSUME NEW s, ParserSound(s), NEW l
    PROVE  ParserSound(ParseLine(s, l))
<1>1. PICK M, H, E : s \in [mode : M, hunks : H, error : E]
  BY DEF ParserSound
<1>. DEFINE n == Len(s.hunks)
<1>2. /\ InMode(s.mode, s.hunks)
      /\ s.hunks # <<>> => n \in 1..n /\ HunkSound(s.hunks[n])
  BY SequenceFacts DEF ParserSound, InMode, HunksSound
<1>3. ParserSound(Wrong(s))
  <2>1. /\ Wrong(s) \in [mode : M, hunks : H, error : {TRUE}]
        /\ Wrong(s).mode = s.mode /\ Wrong(s).hunks = s.hunks
    BY <1>1 DEF Wrong
  <2>2. QED
    BY <1>2, <2>1, PartsSound
<1>4. ParserSound([s EXCEPT !.mode = "chunks"])
  <2>. DEFINE new == [s EXCEPT !.mode = "chunks"]
  <2>1. /\ new \in [mode : {"chunks"}, hunks : H, error : E]
        /\ new.mode = "chunks" /\ new.hunks = s.hunks
    BY <1>1
  <2>2. InMode("chunks", s.hunks)
    BY <1>2 DEF InMode
  <2>. HIDE DEF new
  <2>3. ParserSound(new)
    BY <2>1, <2>2, PartsSound
  <2>4. QED
    BY <2>3 DEF new
<1>5. ParserSound([s EXCEPT !.hunks[Len(s.hunks)].lines = Append(@, l.value)])
  <2>. DEFINE h == [s.hunks[n] EXCEPT !.lines = Append(s.hunks[n].lines, l.value)]
              hs == [s.hunks EXCEPT ![n] = h]
              new == [s EXCEPT !.hunks[Len(s.hunks)].lines = Append(@, l.value)]
  <2>1. new \in [mode : M, hunks : {hs}, error : E] /\ new.mode = s.mode /\ new.hunks = hs
    BY <1>1
  <2>2. s.hunks # <<>> => HunkSound(h) /\ h.kind = s.hunks[n].kind
    BY <1>2, HunkParts
  <2>. HIDE DEF h
  <2>3. InMode(s.mode, hs)
    BY <1>2, <2>2, LastReplaced
  <2>. HIDE DEF hs, new
  <2>4. ParserSound(new)
    BY <2>1, <2>3, PartsSound
  <2>5. QED
    BY <2>4 DEF new
<1>6. ASSUME s.mode = "update"
      PROVE  ParserSound([s EXCEPT !.mode = "chunks", !.hunks[Len(s.hunks)].move = l.value])
  <2>. DEFINE h == [s.hunks[n] EXCEPT !.move = l.value]
              hs == [s.hunks EXCEPT ![n] = h]
              new == [s EXCEPT !.mode = "chunks", !.hunks[Len(s.hunks)].move = l.value]
  <2>1. /\ new \in [mode : {"chunks"}, hunks : {hs}, error : E]
        /\ new.mode = "chunks" /\ new.hunks = hs
    BY <1>1
  <2>2. s.hunks[n].kind = "update"
    BY <1>2, <1>6 DEF InMode
  <2>3. s.hunks # <<>> => HunkSound(h) /\ h.kind = s.hunks[n].kind
    BY <1>2, <2>2, HunkParts
  <2>. HIDE DEF h
  <2>4. InMode("chunks", hs)
    BY <1>2, <2>3, LastReplaced
  <2>. HIDE DEF hs, new
  <2>5. ParserSound(new)
    BY <2>1, <2>4, PartsSound
  <2>6. QED
    BY <2>5 DEF new
<1>7. ParserSound([s EXCEPT !.mode = "chunks",
                      !.hunks[Len(s.hunks)].chunks[Len(Last(s.hunks).chunks)].eof = TRUE])
  <2>. DEFINE chunks == [s.hunks[n].chunks EXCEPT ![Len(Last(s.hunks).chunks)].eof = TRUE]
              h == [s.hunks[n] EXCEPT !.chunks = chunks]
              hs == [s.hunks EXCEPT ![n] = h]
              new == [s EXCEPT !.mode = "chunks",
                      !.hunks[Len(s.hunks)].chunks[Len(Last(s.hunks).chunks)].eof = TRUE]
  <2>1. /\ new \in [mode : {"chunks"}, hunks : {hs}, error : E]
        /\ new.mode = "chunks" /\ new.hunks = hs
    BY <1>1
  <2>. HIDE DEF chunks
  <2>2. s.hunks # <<>> => HunkSound(h) /\ h.kind = s.hunks[n].kind
    BY <1>2, HunkParts
  <2>. HIDE DEF h
  <2>3. InMode("chunks", hs)
    BY <1>2, <2>2, LastReplaced
  <2>. HIDE DEF hs, new
  <2>4. ParserSound(new)
    BY <2>1, <2>3, PartsSound
  <2>5. QED
    BY <2>4 DEF new
<1>8. /\ ParserSound(InChunk(s, l)) /\ ParserSound(WithChunk(s, l.value))
      /\ ParserSound(InChunk(WithChunk(s, <<>>), l)) /\ ParserSound(WithHunk(s, l))
  BY InChunkSound, WithChunkSound, WithHunkSound
<1>9. QED
  BY <1>3, <1>4, <1>5, <1>6, <1>7, <1>8, Zenon DEF ParseLine

(* The hunks of a patch that was parsed without an error.                  *)
LEMMA ParsePatchSound ==
    ASSUME NEW lines, IsSequence(lines)
    PROVE  /\ HunksSound(ParsePatch(lines).hunks)
           /\ ~ParsePatch(lines).error => ParsePatch(lines).hunks # <<>>
<1>. DEFINE N == Len(lines)
            Runs(f, n) == f = [k \in 0..n |-> IF k = 0 THEN NoHunks ELSE ParseLine(f[k - 1], lines[k])]
            T == {n \in Nat : \E f : Runs(f, n)}
<1>1. N \in Nat
  BY SequenceFacts
<1>2. 0 \in T
  <2>. DEFINE f == [k \in 0..0 |-> NoHunks]
  <2>1. Runs(f, 0)
    OBVIOUS
  <2>2. QED
    BY <2>1
<1>3. ASSUME NEW n \in Nat, n \in T PROVE n + 1 \in T
  <2>1. PICK f : Runs(f, n)
    BY <1>3
  <2>. DEFINE g == [k \in 0..(n + 1) |-> IF k = n + 1 THEN ParseLine(f[n], lines[n + 1]) ELSE f[k]]
  <2>2. Runs(g, n + 1)
    BY <2>1
  <2>. HIDE DEF g, Runs
  <2>3. QED
    BY <2>2
<1>. HIDE DEF T
<1>4. N \in T
  BY <1>1, <1>2, <1>3, NatInductionOnSets
<1>. DEFINE parsed[n \in 0..N] == IF n = 0 THEN NoHunks ELSE ParseLine(parsed[n - 1], lines[n])
<1>5. parsed = [k \in 0..N |-> IF k = 0 THEN NoHunks ELSE ParseLine(parsed[k - 1], lines[k])]
  BY <1>4 DEF T
<1>6. ParsePatch(lines) = Ended(parsed[N])
  BY DEF ParsePatch
<1>. HIDE DEF parsed
<1>. DEFINE S == {n \in Nat : n <= N => ParserSound(parsed[n])}
<1>7. ParserSound(NoHunks)
  <2>1. <<>> \in Seq({}) /\ Len(<<>>) = 0
    BY EmptySeq
  <2>2. IsSequence(<<>>)
    BY <2>1, SequenceOfItsOwn
  <2>3. InMode("top", <<>>)
    BY <2>1, <2>2 DEF InMode, HunksSound
  <2>4. /\ NoHunks \in [mode : {"top"}, hunks : {<<>>}, error : {FALSE}]
        /\ NoHunks.mode = "top" /\ NoHunks.hunks = <<>>
    BY DEF NoHunks
  <2>5. QED
    BY <2>3, <2>4, PartsSound
<1>8. 0 \in S
  BY <1>1, <1>5, <1>7
<1>9. ASSUME NEW n \in Nat, n \in S PROVE n + 1 \in S
  BY <1>1, <1>5, <1>9, ParseLineSound
<1>. HIDE DEF S
<1>10. N \in S
  BY <1>1, <1>8, <1>9, NatInductionOnSets
<1>11. ParserSound(parsed[N])
  BY <1>1, <1>10 DEF S
<1>12. \A s : (\E M, H, E : s \in [mode : M, hunks : H, error : E]) =>
               Wrong(s).error = TRUE /\ Wrong(s).hunks = s.hunks
  BY DEF Wrong
<1>13. Wrong(parsed[N]).error /\ Wrong(parsed[N]).hunks = parsed[N].hunks
  BY <1>11, <1>12 DEF ParserSound
<1>14. /\ ParsePatch(lines).hunks = parsed[N].hunks
       /\ ~ParsePatch(lines).error => parsed[N].hunks # <<>>
  BY <1>6, <1>13 DEF Ended
<1>15. QED
  BY <1>11, <1>14 DEF ParserSound, InMode

-----------------------------------------------------------------------------
(* The stages of a call: the files it began with, and each hunk applied to *)
(* what the one before it left.                                            *)
LEMMA StagesStep ==
    ASSUME NEW fs, NEW hs, IsSequence(hs)
    PROVE  /\ Stages(fs, hs)[0] = fs
           /\ \A n \in 1..Len(hs) : Stages(fs, hs)[n] = After(Stages(fs, hs)[n - 1], hs[n])
<1>. DEFINE N == Len(hs)
            Runs(f, n) == f = [k \in 0..n |-> IF k = 0 THEN fs ELSE After(f[k - 1], hs[k])]
            T == {n \in Nat : \E f : Runs(f, n)}
<1>1. N \in Nat
  BY SequenceFacts
<1>2. 0 \in T
  <2>. DEFINE f == [k \in 0..0 |-> fs]
  <2>1. Runs(f, 0)
    OBVIOUS
  <2>2. QED
    BY <2>1
<1>3. ASSUME NEW n \in Nat, n \in T PROVE n + 1 \in T
  <2>1. PICK f : Runs(f, n)
    BY <1>3
  <2>. DEFINE g == [k \in 0..(n + 1) |-> IF k = n + 1 THEN After(f[n], hs[n + 1]) ELSE f[k]]
  <2>2. Runs(g, n + 1)
    BY <2>1
  <2>. HIDE DEF g, Runs
  <2>3. QED
    BY <2>2
<1>. HIDE DEF T
<1>4. N \in T
  BY <1>1, <1>2, <1>3, NatInductionOnSets
<1>. DEFINE after[n \in 0..N] == IF n = 0 THEN fs ELSE After(after[n - 1], hs[n])
<1>5. after = [k \in 0..N |-> IF k = 0 THEN fs ELSE After(after[k - 1], hs[k])]
  BY <1>4 DEF T
<1>6. Stages(fs, hs) = after
  BY DEF Stages
<1>. HIDE DEF after
<1>7. QED
  BY <1>1, <1>5, <1>6

(* What a call makes of a file it has read.                                *)
NewText(fs, h) ==
    IF h.kind = "edit" THEN Edited(fs[h.path], h.lines, h.chunks)
    ELSE ApplyUpdateChunks(fs[h.path], Locate(fs[h.path], h.chunks))

(* A file that is being moved is in both of its places.                    *)
Between(c) ==
    [AfterHunks(c, next[c]) EXCEPT ![At(c).path] = AfterHunks(c, next[c] - 1)[At(c).path]]

(* The files while nobody else has changed one.                            *)
FilesFollow(c) ==
    /\ step[c] \in {"ready", "read", "done"} => files = AfterHunks(c, next[c] - 1)
    /\ step[c] = "moved" => files = Between(c)
    /\ step[c] = "failed" =>
          \/ files = AfterHunks(c, next[c] - 1)
          \/ next[c] <= Len(hunks[c]) /\ files = Between(c)
    /\ step[c] = "read" => fresh[c]

Steps == {"idle", "ready", "read", "moved", "done", "failed"}

CallInv(c) ==
    /\ Idle(c) => next[c] = 1
    /\ step[c] \in {"ready", "read", "moved"} =>
          /\ HunksSound(hunks[c]) \/ (Len(hunks[c]) = 1 /\ hunks[c][1].move = hunks[c][1].path)
          /\ IsSequence(hunks[c]) /\ next[c] \in 1..Len(hunks[c])
    /\ step[c] = "done" => next[c] = Len(hunks[c]) + 1
    /\ step[c] = "read" =>
          /\ At(c).kind \in {"edit", "update"}
          /\ fresh[c] => text[c] = NewText(files, At(c))
    /\ step[c] = "moved" => At(c).move # At(c).path
    /\ ~Idle(c) /\ alone[c] => FilesFollow(c)

Shapes ==
    /\ files = [p \in Paths |-> files[p]]
    /\ DOMAIN hunks = Calls /\ DOMAIN start = Calls /\ DOMAIN text = Calls
    /\ next \in [Calls -> Nat] /\ step \in [Calls -> Steps]
    /\ alone \in [Calls -> BOOLEAN] /\ fresh \in [Calls -> BOOLEAN]

WorkspaceInv == Shapes /\ \A c \in Calls : CallInv(c)

(* No call has begun.                                                      *)
LEMMA WorkspaceInit == Init => WorkspaceInv
<1>. SUFFICES ASSUME Init PROVE WorkspaceInv
  OBVIOUS
<1>1. Shapes
  BY WorkspaceAssumption DEF Init, Shapes, Steps
<1>2. \A c \in Calls : CallInv(c)
  BY DEF Init, CallInv, Idle
<1>3. QED
  BY <1>1, <1>2 DEF WorkspaceInv

(* The files before the hunk a call is at, and after it.                   *)
LEMMA HunkApplied ==
    ASSUME NEW c \in Calls, CallInv(c), step[c] \in {"ready", "read", "moved"}
    PROVE  AfterHunks(c, next[c]) = After(AfterHunks(c, next[c] - 1), At(c))
BY StagesStep DEF CallInv, AfterHunks, At

(* Calls of which nothing is changed.                                      *)
LEMMA OtherCalls ==
    ASSUME Shapes, NEW b \in Calls, CallInv(b),
           hunks'[b] = hunks[b], next'[b] = next[b], step'[b] = step[b],
           text'[b] = text[b], start'[b] = start[b],
           \/ NoChange
           \/ \E c \in Calls : c # b /\ \E path, content : Change(c, path, content)
    PROVE  CallInv(b)'
<1>1. At(b)' = At(b) /\ Idle(b)' = Idle(b) /\ \A n : AfterHunks(b, n)' = AfterHunks(b, n)
  BY DEF At, Idle, AfterHunks
<1>2. Between(b)' = Between(b)
  BY <1>1 DEF Between
<1>3. CASE NoChange
  <2>1. FilesFollow(b)' = FilesFollow(b)
    BY <1>1, <1>2, <1>3 DEF FilesFollow, NoChange
  <2>2. QED
    BY <1>1, <1>3, <2>1 DEF CallInv, NoChange
<1>4. ASSUME NEW c \in Calls, NEW path, NEW content, c # b, Change(c, path, content)
      PROVE  CallInv(b)'
  <2>1. alone'[b] => Idle(b)
    BY <1>4 DEF Change
  <2>2. ASSUME step[b] = "read", fresh'[b]
        PROVE  fresh[b] /\ files'[At(b).path] = files[At(b).path]
    <3>1. fresh[b] /\ At(b).path # path
      BY <1>4, <2>2, Zenon DEF Change
    <3>2. files' = [files EXCEPT ![path] = content]
      BY <1>4 DEF Change
    <3>3. QED
      BY <3>1, <3>2 DEF Shapes
  <2>3. step[b] = "read" /\ fresh'[b] => NewText(files, At(b))' = NewText(files, At(b))
    BY <1>1, <2>2 DEF NewText
  <2>4. QED
    BY <1>1, <2>1, <2>2, <2>3 DEF CallInv
<1>5. QED
  BY <1>3, <1>4

-----------------------------------------------------------------------------
(* One lemma per step of a call.                                           *)
LEMMA BeginInv ==
    ASSUME WorkspaceInv, NEW c \in Calls, Begin(c)
    PROVE  WorkspaceInv'
<1>. DEFINE From(request, parsed) ==
                /\ Begins(c, request, parsed)
                /\ IsSequence(parsed.hunks)
                /\ ~parsed.error =>
                      /\ parsed.hunks # <<>>
                      /\ \/ HunksSound(parsed.hunks)
                         \/ /\ Len(parsed.hunks) = 1
                            /\ parsed.hunks[1].move = parsed.hunks[1].path
<1>1. PICK request \in RequestsOf(c) : \E parsed : From(request, parsed)
  <2>1. PICK request \in RequestsOf(c) :
          IF request[1].kind = "edit"
          THEN Begins(c, request, [hunks |-> request, error |-> FALSE])
          ELSE \E gap \in Gaps : Begins(c, request, ParsePatch(Written(request, gap)))
    BY DEF Begin
  <2>2. CASE request[1].kind = "edit"
    <3>1. IsSequence(request) /\ Len(request) = 1 /\ request[1].move = request[1].path
      BY <2>2, WorkspaceAssumption
    <3>2. request # <<>>
      BY <3>1, EmptySeq
    <3>. DEFINE parsed == [hunks |-> request, error |-> FALSE]
    <3>3. Begins(c, request, parsed) /\ parsed.hunks = request
      BY <2>1, <2>2
    <3>. HIDE DEF parsed
    <3>4. QED
      BY <3>1, <3>2, <3>3
  <2>3. CASE request[1].kind # "edit"
    <3>1. PICK gap \in Gaps : Begins(c, request, ParsePatch(Written(request, gap)))
      BY <2>1, <2>3
    <3>2. IsSequence(Written(request, gap))
      BY <2>3, WorkspaceAssumption
    <3>. DEFINE parsed == ParsePatch(Written(request, gap))
    <3>3. HunksSound(parsed.hunks) /\ (~parsed.error => parsed.hunks # <<>>)
      BY <3>2, ParsePatchSound
    <3>. HIDE DEF parsed
    <3>4. QED
      BY <3>1, <3>3 DEF HunksSound, parsed
  <2>4. QED
    BY <2>2, <2>3
<1>1a. PICK parsed : From(request, parsed)
  BY <1>1
<1>2. Shapes /\ CallInv(c) /\ Idle(c) /\ c \in DOMAIN step
  BY <1>1a DEF WorkspaceInv, Shapes, Begins
<1>3. /\ hunks' = [hunks EXCEPT ![c] = parsed.hunks]
      /\ step' = [step EXCEPT ![c] = IF parsed.error THEN "failed" ELSE "ready"]
      /\ start' = [start EXCEPT ![c] = files]
      /\ UNCHANGED <<files, alone, fresh, next, text>>
  BY <1>1a DEF Begins, Goto, NoChange
<1>4. Shapes'
  BY <1>2, <1>3 DEF Shapes, Steps
<1>5. /\ hunks'[c] = parsed.hunks /\ start'[c] = files
      /\ step'[c] = IF parsed.error THEN "failed" ELSE "ready"
      /\ next'[c] = 1
  BY <1>2, <1>3 DEF Shapes, CallInv, Idle
<1>6. ASSUME NEW b \in Calls, b # c PROVE CallInv(b)'
  BY <1>2, <1>3, <1>6, OtherCalls DEF WorkspaceInv, Shapes, NoChange
<1>7. CallInv(c)'
  <2>1. /\ files = AfterHunks(c, 0)'
        /\ ~parsed.error => 1 \in 1..Len(parsed.hunks)
    BY <1>1a, <1>5, StagesStep, SequenceFacts DEF AfterHunks
  <2>2. CASE parsed.error
    <3>1. step'[c] = "failed"
      BY <1>5, <2>2
    <3>2. files' = AfterHunks(c, next[c] - 1)'
      BY <1>3, <1>5, <2>1
    <3>3. QED
      BY <1>3, <1>5, <3>1, <3>2 DEF CallInv, Idle, FilesFollow
  <2>3. CASE ~parsed.error
    <3>1. step'[c] = "ready"
      BY <1>5, <2>3
    <3>2. files' = AfterHunks(c, next[c] - 1)'
      BY <1>3, <1>5, <2>1, <2>3
    <3>3. QED
      BY <1>1a, <1>5, <2>1, <2>3, <3>1, <3>2 DEF CallInv, Idle, FilesFollow
  <2>4. QED
    BY <2>2, <2>3
<1>8. QED
  BY <1>4, <1>6, <1>7 DEF WorkspaceInv

(* readFile(): what was read is what is on disk.                           *)
LEMMA ReadInv ==
    ASSUME WorkspaceInv, NEW c \in Calls, Read(c)
    PROVE  WorkspaceInv'
<1>1. /\ Shapes /\ CallInv(c) /\ step[c] = "ready"
      /\ At(c).kind \in {"edit", "update"}
  BY DEF WorkspaceInv, Read
<1>2. /\ step' = [step EXCEPT ![c] = "read"]
      /\ text' = [text EXCEPT ![c] = NewText(files, At(c))]
      /\ fresh' = [fresh EXCEPT ![c] = TRUE]
      /\ UNCHANGED <<files, alone, next, asked, hunks, start>>
  BY DEF Read, Reads, Goto, progress, NewText
<1>3. Shapes'
  BY <1>1, <1>2 DEF Shapes, Steps
<1>4. step'[c] = "read" /\ text'[c] = NewText(files, At(c)) /\ fresh'[c]
  BY <1>1, <1>2 DEF Shapes
<1>5. ASSUME NEW b \in Calls, b # c PROVE CallInv(b)'
  <2>1. /\ step'[b] = step[b] /\ text'[b] = text[b] /\ fresh'[b] = fresh[b]
        /\ UNCHANGED <<files, alone, next, hunks, start>>
    BY <1>1, <1>2, <1>5 DEF Shapes
  <2>2. At(b)' = At(b) /\ Idle(b)' = Idle(b) /\ \A n : AfterHunks(b, n)' = AfterHunks(b, n)
    BY <2>1 DEF At, Idle, AfterHunks
  <2>3. Between(b)' = Between(b)
    BY <2>1, <2>2 DEF Between
  <2>4. FilesFollow(b)' = FilesFollow(b)
    BY <2>1, <2>2, <2>3 DEF FilesFollow
  <2>5. NewText(files, At(b))' = NewText(files, At(b))
    BY <2>1, <2>2
  <2>6. CallInv(b)
    BY DEF WorkspaceInv
  <2>7. QED
    BY <2>1, <2>2, <2>4, <2>5, <2>6 DEF CallInv
<1>6. CallInv(c)'
  <2>1. At(c)' = At(c) /\ \A n : AfterHunks(c, n)' = AfterHunks(c, n)
    BY <1>2 DEF At, AfterHunks
  <2>2. NewText(files, At(c))' = NewText(files, At(c))
    BY <1>2, <2>1
  <2>3. alone[c] => files = AfterHunks(c, next[c] - 1)
    BY <1>1 DEF CallInv, FilesFollow, Idle
  <2>4. alone'[c] => FilesFollow(c)'
    BY <1>2, <1>4, <2>1, <2>3 DEF FilesFollow
  <2>5. QED
    BY <1>1, <1>2, <1>4, <2>1, <2>2, <2>4 DEF CallInv, Idle
<1>7. QED
  BY <1>3, <1>5, <1>6 DEF WorkspaceInv

(* The part of a step that is the same for every change of a file.         *)
LEMMA ChangeInv ==
    ASSUME WorkspaceInv, NEW c \in Calls, NEW path, NEW content, Change(c, path, content),
           step[c] \in {"ready", "read", "moved"}, NEW place \in Steps, Goto(c, place),
           UNCHANGED progress, next' \in [Calls -> Nat], DOMAIN text' = Calls,
           \A b \in Calls \ {c} : next'[b] = next[b] /\ text'[b] = text[b]
    PROVE  /\ Shapes' /\ files' = [files EXCEPT ![path] = content] /\ step'[c] = place
           /\ alone'[c] => alone[c]
           /\ hunks' = hunks /\ \A n : AfterHunks(c, n)' = AfterHunks(c, n)
           /\ CallInv(c)' => WorkspaceInv'
<1>1. Shapes /\ files' = [files EXCEPT ![path] = content] /\ UNCHANGED <<hunks, start>>
  BY DEF WorkspaceInv, Change, progress
<1>2. step' = [step EXCEPT ![c] = place] /\ step'[c] = place
  BY <1>1 DEF Goto, Shapes
<1>3. alone' \in [Calls -> BOOLEAN] /\ fresh' \in [Calls -> BOOLEAN] /\ (alone'[c] => alone[c])
  BY <1>1 DEF Change, Shapes
<1>4. Shapes'
  BY <1>1, <1>2, <1>3 DEF Shapes
<1>5. ASSUME NEW b \in Calls \ {c} PROVE CallInv(b)'
  <2>1. step'[b] = step[b] /\ CallInv(b)
    BY <1>1, <1>2 DEF Shapes, WorkspaceInv
  <2>2. \E d \in Calls : d # b /\ \E p, t : Change(d, p, t)
    BY Zenon
  <2>3. QED
    BY <1>1, <2>1, <2>2, OtherCalls
<1>6. CallInv(c)' => WorkspaceInv'
  BY <1>4, <1>5 DEF WorkspaceInv
<1>7. \A n : AfterHunks(c, n)' = AfterHunks(c, n)
  BY <1>1 DEF AfterHunks
<1>8. QED
  BY <1>1, <1>2, <1>3, <1>4, <1>6, <1>7

(* A hunk is done: the next one follows, or the call is.                   *)
LEMMA AdvanceInv ==
    ASSUME WorkspaceInv, NEW c \in Calls, NEW path, NEW content, Change(c, path, content),
           step[c] \in {"ready", "read", "moved"}, Advance(c), UNCHANGED progress,
           alone[c] => files' = AfterHunks(c, next[c])
    PROVE  WorkspaceInv'
<1>1. Shapes /\ CallInv(c)
  BY DEF WorkspaceInv
<1>2. next[c] \in 1..Len(hunks[c]) /\ IsSequence(hunks[c]) /\ Len(hunks[c]) \in Nat
  BY <1>1, SequenceFacts DEF CallInv
<1>. DEFINE place == IF AtLast(c) THEN "done" ELSE "ready"
<1>3. place \in Steps /\ Goto(c, place)
  BY DEF Advance, Steps
<1>4. /\ next' = [next EXCEPT ![c] = @ + 1] /\ next' \in [Calls -> Nat]
      /\ DOMAIN text' = Calls
      /\ \A b \in Calls \ {c} : next'[b] = next[b] /\ text'[b] = text[b]
  BY <1>1 DEF Advance, Shapes
<1>. HIDE DEF place
<1>5. /\ step'[c] = place /\ (alone'[c] => alone[c])
      /\ hunks' = hunks /\ \A n : AfterHunks(c, n)' = AfterHunks(c, n)
      /\ CallInv(c)' => WorkspaceInv'
  BY <1>3, <1>4, ChangeInv
<1>6. next'[c] = next[c] + 1 /\ next[c] \in Nat
  BY <1>1, <1>4 DEF Shapes
<1>7. /\ place \in {"done", "ready"}
      /\ place = "done" => next[c] = Len(hunks[c])
      /\ place = "ready" => next[c] # Len(hunks[c])
  BY DEF place, AtLast
<1>8. alone'[c] => files' = AfterHunks(c, next[c] - 1)'
  BY <1>5, <1>6
<1>9. FilesFollow(c)' \/ ~alone'[c]
  BY <1>5, <1>7, <1>8 DEF FilesFollow
<1>10. CallInv(c)'
  BY <1>1, <1>2, <1>5, <1>6, <1>7, <1>9 DEF CallInv, Idle
<1>11. QED
  BY <1>5, <1>10

(* The hunk a call is at.                                                  *)
LEMMA HunkAt ==
    ASSUME NEW c \in Calls, CallInv(c), step[c] \in {"ready", "read", "moved"}
    PROVE  /\ next[c] \in 1..Len(hunks[c]) /\ Len(hunks[c]) \in Nat
           /\ At(c).kind # "update" => At(c).move = At(c).path
<1>1. next[c] \in 1..Len(hunks[c]) /\ Len(hunks[c]) \in Nat
  BY SequenceFacts DEF CallInv
<1>2. CASE HunksSound(hunks[c])
  BY <1>1, <1>2 DEF HunksSound, HunkSound, At
<1>3. CASE Len(hunks[c]) = 1 /\ hunks[c][1].move = hunks[c][1].path
  <2>1. next[c] = 1
    BY <1>1, <1>3
  <2>2. QED
    BY <1>1, <1>3, <2>1 DEF At
<1>4. QED
  BY <1>1, <1>2, <1>3 DEF CallInv

(* How the files change when it is applied, if they were as it found them. *)
LEMMA HunkOnFiles ==
    ASSUME Shapes, NEW fs, files = fs, NEW h, NEW content, NEW later
    PROVE  /\ h.kind = "add" /\ later = [files EXCEPT ![h.path] = h.lines] =>
                 later = After(fs, h)
           /\ h.kind = "delete" /\ later = [files EXCEPT ![h.path] = NoFile] =>
                 later = After(fs, h)
           /\ h.kind \in {"edit", "update"} /\ content = NewText(fs, h)
                 /\ later = [files EXCEPT ![h.move] = content] =>
                 /\ h.move = h.path => later = After(fs, h)
                 /\ h.kind = "update" /\ h.move # h.path =>
                       later = [After(fs, h) EXCEPT ![h.path] = fs[h.path]]
<1>1. fs = [p \in Paths |-> fs[p]]
  BY DEF Shapes
<1>2. h.kind = "add" => After(fs, h) = [fs EXCEPT ![h.path] = h.lines]
  BY DEF After
<1>3. h.kind = "delete" => After(fs, h) = [fs EXCEPT ![h.path] = NoFile]
  BY DEF After
<1>4. CASE h.kind = "edit" /\ content = NewText(fs, h)
  <2>1. After(fs, h) = [fs EXCEPT ![h.path] = content]
    BY <1>4 DEF After, NewText
  <2>2. QED
    BY <1>4, <2>1
<1>5. CASE h.kind = "update" /\ content = NewText(fs, h)
  <2>1. After(fs, h) = [p \in Paths |-> IF p = h.move THEN content
                                        ELSE IF p = h.path THEN NoFile ELSE fs[p]]
    BY <1>5 DEF After, NewText
  <2>. DEFINE after == After(fs, h)
  <2>. HIDE DEF after
  <2>2. after = [p \in Paths |-> IF p = h.move THEN content
                                 ELSE IF p = h.path THEN NoFile ELSE fs[p]]
    BY <2>1 DEF after
  <2>3. ASSUME later = [files EXCEPT ![h.move] = content]
        PROVE  /\ h.move = h.path => later = after
               /\ h.move # h.path => later = [after EXCEPT ![h.path] = fs[h.path]]
    BY <1>1, <2>2, <2>3
  <2>4. QED
    BY <1>5, <2>3 DEF after
<1>6. QED
  BY <1>2, <1>3, <1>4, <1>5

(* atomicWrite() ends a hunk, or leaves the moved file in both places.     *)
LEMMA WriteInv ==
    ASSUME WorkspaceInv, NEW c \in Calls, Write(c)
    PROVE  WorkspaceInv'
<1>. DEFINE h == At(c)
            fs == AfterHunks(c, next[c] - 1)
<1>1. Shapes /\ CallInv(c) /\ step[c] \in {"ready", "read"} /\ UNCHANGED progress
  BY DEF WorkspaceInv, Write
<1>2. next[c] \in 1..Len(hunks[c]) /\ Len(hunks[c]) \in Nat
      /\ (h.kind # "update" => h.move = h.path)
  BY <1>1, HunkAt
<1>3. AfterHunks(c, next[c]) = After(fs, h)
  BY <1>1, HunkApplied
<1>4. files = [p \in Paths |-> files[p]]
      /\ (alone[c] => files = fs /\ (step[c] = "read" => fresh[c]))
  BY <1>1 DEF Shapes, CallInv, FilesFollow, Idle
<1>5. CASE step[c] = "ready"
  <2>1. h.kind = "add" /\ Change(c, h.path, h.lines) /\ Advance(c)
    BY <1>2, <1>5 DEF Write
  <2>2. files' = [files EXCEPT ![h.path] = h.lines]
    BY <2>1 DEF Change
  <2>. HIDE DEF h, fs
  <2>3. alone[c] => files' = AfterHunks(c, next[c])
    BY <1>1, <1>3, <1>4, <2>1, <2>2, HunkOnFiles
  <2>4. QED
    BY <1>1, <2>1, <2>3, AdvanceInv
<1>6. CASE step[c] = "read"
  <2>1. Change(c, h.move, text[c])
    BY <1>6 DEF Write
  <2>2. h.kind \in {"edit", "update"} /\ (alone[c] => text[c] = NewText(fs, h))
    BY <1>1, <1>4, <1>6 DEF CallInv
  <2>3. files' = [files EXCEPT ![h.move] = text[c]]
    BY <2>1 DEF Change
  <2>. HIDE DEF h, fs
  <2>4. alone[c] =>
          /\ h.move = h.path => files' = AfterHunks(c, next[c])
          /\ h.kind = "update" /\ h.move # h.path =>
                files' = [AfterHunks(c, next[c]) EXCEPT ![h.path] = fs[h.path]]
    BY <1>1, <1>3, <1>4, <2>2, <2>3, HunkOnFiles
  <2>. USE DEF h, fs
  <2>5. CASE h.move = h.path
    <3>1. Advance(c)
      BY <2>5 DEF Write
    <3>2. QED
      BY <1>1, <2>1, <2>4, <2>5, <3>1, AdvanceInv
  <2>6. CASE h.move # h.path
    <3>1. Goto(c, "moved") /\ UNCHANGED <<next, text>>
      BY <2>6 DEF Write
    <3>2. "moved" \in Steps /\ next' \in [Calls -> Nat] /\ DOMAIN text' = Calls
      BY <1>1, <3>1 DEF Shapes, Steps
    <3>3. \A b \in Calls \ {c} : next'[b] = next[b] /\ text'[b] = text[b]
      BY <3>1
    <3>4. /\ step'[c] = "moved" /\ (alone'[c] => alone[c])
          /\ hunks' = hunks /\ \A n : AfterHunks(c, n)' = AfterHunks(c, n)
          /\ CallInv(c)' => WorkspaceInv'
      BY <1>1, <2>1, <3>1, <3>2, <3>3, ChangeInv
    <3>5. At(c)' = At(c)
      BY <3>1, <3>4 DEF At
    <3>6. alone[c] => files' = Between(c)
      BY <1>2, <2>4, <2>6 DEF Between
    <3>7. Between(c)' = Between(c)
      BY <3>1, <3>4, <3>5 DEF Between
    <3>8. alone'[c] => FilesFollow(c)'
      BY <3>4, <3>6, <3>7 DEF FilesFollow
    <3>9. CallInv(c)'
      BY <1>1, <1>2, <2>6, <3>1, <3>4, <3>5, <3>8 DEF CallInv, Idle
    <3>10. QED
      BY <3>4, <3>9
  <2>7. QED
    BY <2>5, <2>6
<1>7. QED
  BY <1>1, <1>5, <1>6

(* unlink() ends a hunk: a deletion, or the second half of a move.         *)
LEMMA DeleteInv ==
    ASSUME WorkspaceInv, NEW c \in Calls, Delete(c)
    PROVE  WorkspaceInv'
<1>. DEFINE h == At(c)
            fs == AfterHunks(c, next[c] - 1)
<1>1. Shapes /\ CallInv(c) /\ step[c] \in {"ready", "moved"} /\ UNCHANGED progress
      /\ Change(c, h.path, NoFile) /\ Advance(c)
  BY DEF WorkspaceInv, Delete
<1>2. AfterHunks(c, next[c]) = After(fs, h)
  BY <1>1, HunkApplied
<1>3. files = [p \in Paths |-> files[p]] /\ files' = [files EXCEPT ![h.path] = NoFile]
  BY <1>1 DEF Shapes, Change
<1>4. CASE step[c] = "ready"
  <2>1. h.kind = "delete" /\ (alone[c] => files = fs)
    BY <1>1, <1>4 DEF Delete, CallInv, FilesFollow, Idle
  <2>. HIDE DEF h, fs
  <2>2. alone[c] => files' = AfterHunks(c, next[c])
    BY <1>1, <1>2, <1>3, <2>1, HunkOnFiles
  <2>3. QED
    BY <1>1, <2>2, AdvanceInv
<1>5. CASE step[c] = "moved"
  <2>1. alone[c] => files = [After(fs, h) EXCEPT ![h.path] = fs[h.path]]
    BY <1>1, <1>2, <1>5 DEF CallInv, FilesFollow, Idle, Between
  <2>2. h.kind = "update" /\ h.move # h.path
    BY <1>1, <1>5, HunkAt DEF CallInv
  <2>. HIDE DEF h, fs
  <2>3. After(fs, h) = [p \in Paths |->
            CASE p = h.move -> ApplyUpdateChunks(fs[h.path], Locate(fs[h.path], h.chunks))
              [] p = h.path /\ p # h.move -> NoFile
              [] OTHER -> fs[p]]
    BY <2>2 DEF After
  <2>4. [After(fs, h) EXCEPT ![h.path] = NoFile] = After(fs, h)
    BY <2>2, <2>3
  <2>5. alone[c] => files' = AfterHunks(c, next[c])
    BY <1>2, <1>3, <2>1, <2>3, <2>4
  <2>6. QED
    BY <1>1, <2>5, AdvanceInv
<1>6. QED
  BY <1>1, <1>4, <1>5

(* A failure leaves the files as they are.                                 *)
LEMMA FailInv ==
    ASSUME WorkspaceInv, NEW c \in Calls, Fail(c)
    PROVE  WorkspaceInv'
<1>1. /\ Shapes /\ CallInv(c) /\ step[c] \in {"ready", "read", "moved"}
      /\ step' = [step EXCEPT ![c] = "failed"] /\ NoChange
      /\ UNCHANGED <<next, text, hunks, start>>
  BY DEF WorkspaceInv, Fail, Goto, progress
<1>2. Shapes' /\ step'[c] = "failed"
  BY <1>1 DEF Shapes, Steps, NoChange
<1>3. ASSUME NEW b \in Calls, b # c PROVE CallInv(b)'
  <2>1. step'[b] = step[b] /\ CallInv(b)
    BY <1>1, <1>3 DEF Shapes, WorkspaceInv
  <2>2. QED
    BY <1>1, <2>1, OtherCalls
<1>4. CallInv(c)'
  <2>1. next[c] \in 1..Len(hunks[c]) /\ Len(hunks[c]) \in Nat
    BY <1>1, HunkAt
  <2>2. At(c)' = At(c) /\ \A n : AfterHunks(c, n)' = AfterHunks(c, n)
    BY <1>1 DEF At, AfterHunks
  <2>3. Between(c)' = Between(c)
    BY <1>1, <2>2 DEF Between
  <2>4. alone[c] => \/ files = AfterHunks(c, next[c] - 1)
                    \/ next[c] <= Len(hunks[c]) /\ files = Between(c)
    BY <1>1, <2>1 DEF CallInv, FilesFollow, Idle
  <2>5. alone'[c] => FilesFollow(c)'
    BY <1>1, <1>2, <2>2, <2>3, <2>4 DEF FilesFollow, NoChange
  <2>6. QED
    BY <1>2, <2>5 DEF CallInv, Idle
<1>5. QED
  BY <1>2, <1>3, <1>4 DEF WorkspaceInv

-----------------------------------------------------------------------------
(* Whatever the calls do and in whatever order their steps come, a call    *)
(* knows which of its hunks it is at, and, while nobody else has changed a *)
(* file, the files are as that hunk found them or, in the middle of a      *)
(* move, with the file in both of its places.                              *)
THEOREM WorkspaceInvariant == Spec => []WorkspaceInv
<1>1. Init => WorkspaceInv
  BY WorkspaceInit
<1>2. WorkspaceInv /\ [Next]_vars => WorkspaceInv'
  <2>. SUFFICES ASSUME WorkspaceInv, [Next]_vars PROVE WorkspaceInv'
    OBVIOUS
  <2>1. CASE Next
    BY <2>1, BeginInv, ReadInv, WriteInv, DeleteInv, FailInv DEF Next
  <2>2. CASE UNCHANGED vars
    <3>1. Shapes'
      BY <2>2 DEF WorkspaceInv, Shapes, vars
    <3>2. ASSUME NEW b \in Calls PROVE CallInv(b)'
      BY <2>2, OtherCalls DEF WorkspaceInv, vars, NoChange
    <3>3. QED
      BY <3>1, <3>2 DEF WorkspaceInv
  <2>3. QED
    BY <2>1, <2>2
<1>3. QED
  BY <1>1, <1>2, PTL DEF Spec

(* A call that no other disturbs leaves the files between two hunks of its *)
(* patch however it ends, behind all of them if it says it is done, and    *)
(* never loses a file it is moving: for patches of every length, any       *)
(* number of calls and every directory.                                    *)
THEOREM FailuresAreBetweenHunks == Spec => []FailsBetweenHunks
<1>1. WorkspaceInv => FailsBetweenHunks
  <2>. SUFFICES ASSUME WorkspaceInv, NEW c \in Calls, ~Idle(c), alone[c]
                PROVE  \/ /\ step[c] = "done" => next[c] = Len(hunks[c]) + 1
                          /\ files = AfterHunks(c, next[c] - 1)
                       \/ /\ step[c] \in {"moved", "failed"} /\ next[c] <= Len(hunks[c])
                          /\ files = Between(c)
    BY DEF FailsBetweenHunks, Between
  <2>1. CallInv(c) /\ FilesFollow(c) /\ step[c] \in Steps \ {"idle"}
    BY DEF WorkspaceInv, Shapes, CallInv, Idle
  <2>2. CASE step[c] = "moved"
    <3>1. next[c] \in 1..Len(hunks[c]) /\ Len(hunks[c]) \in Nat
      BY <2>1, <2>2, HunkAt
    <3>2. QED
      BY <2>1, <2>2, <3>1 DEF FilesFollow
  <2>3. CASE step[c] # "moved"
    BY <2>1, <2>3 DEF FilesFollow, CallInv, Steps
  <2>4. QED
    BY <2>2, <2>3
<1>2. QED
  BY <1>1, WorkspaceInvariant, PTL
=============================================================================
