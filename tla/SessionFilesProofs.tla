------------------------- MODULE SessionFilesProofs -------------------------
(***************************************************************************)
(* Proofs about SessionFiles, for every number of messages and of damaged  *)
(* files, and for both formats a conversation may be kept in.              *)
(*                                                                         *)
(* None of the properties is inductive by itself: what a crash leaves      *)
(* behind depends on the writes still to be made.  The inductive invariant *)
(* says, for each operation, which writes may be left and what the files   *)
(* hold then (Writing, Clearing, Deleting); what the backup may hold when  *)
(* nothing is being written (Sane); what the open task has in memory       *)
(* (TaskKnows); and that a message dropped by an edit, a clear or a delete *)
(* is in no file a reader can reach and in no write still to be made       *)
(* (GoneForGood).                                                          *)
(***************************************************************************)
EXTENDS SessionFiles, SequenceLemmas, FiniteSetTheorems

(* The files of a session, what a message is, and what a file may hold.    *)
Names == {"main", "bak", "dir", "flat", "named"}
Messages == [id : 0..written, role : {"user", "assistant"}, edited : BOOLEAN]
Files == {Absent, Torn} \cup {Whole(m) : m \in Seq(Messages)}

(* The operations that save a conversation, and those that empty it.       *)
Writes == {"write", "migrate", "edit"}
Wipes == {"clear", "delete"}

(* The places of the user messages of a conversation.                      *)
UsersOf(m) == {i \in DOMAIN m : IsUser(m[i])}

(* The values every variable takes.  The old file formats are never torn.  *)
FilesTypes ==
    /\ files \in [Names -> Files]
    /\ files["flat"] # Torn /\ files["named"] # Torn
    /\ todo \in Seq([name : Names, file : Files])
    /\ op \in {"none", "crash", "damage"} \cup Writes \cup Wipes
    /\ open \in BOOLEAN /\ interrupted \in BOOLEAN
    /\ written \in 0..MaxMessages /\ damage \in 0..MaxDamage
    /\ memory \in Seq(Messages) /\ old \in Seq(Messages) /\ new \in Seq(Messages)
    /\ gone \in SUBSET (0..written)

(* The backup has not more user messages than the main file, at the same   *)
(* places; and it is not left alone with a conversation.                   *)
Ordered ==
    Parsed(files.main) /\ Parsed(files.bak) => Users(files.bak) \subseteq Users(files.main)
NoOrphan ==
    files.main = Absent /\ files.bak # Absent =>
        Read(files.bak) = <<>> /\ Read(files.flat) = <<>>

(* The writes that may be left of persist(), by what was already there.    *)
LastWrite == <<Set("main", Whole(new))>>
BackupFirst == <<Set("bak", files.main), Set("main", Whole(new))>>
EmptyFirst == <<Set("main", Whole(<<>>)), Set("bak", Whole(<<>>)), Set("main", Whole(new))>>
FolderFirst == <<Set("dir", Whole(<<>>)), Set("main", Whole(<<>>)),
                 Set("bak", Whole(<<>>)), Set("main", Whole(new))>>

(* How far a save has come, and what the main file holds at that point.    *)
WriteStage ==
    \/ todo = <<>> /\ files.main = Whole(new)
    \/ todo = LastWrite
    \/ /\ todo = BackupFirst /\ Parsed(files.main)
       /\ Users(files.main) \subseteq UsersOf(new)
    \/ todo = EmptyFirst /\ files.main = Absent
    \/ todo = FolderFirst /\ files.main = Absent

(* During a save the backup is never ahead of the conversation, and is a   *)
(* copy of the main file before that is replaced.                          *)
Writing ==
    op \in Writes =>
        /\ WriteStage
        /\ todo \in {<<>>, LastWrite} /\ Parsed(files.bak) => Users(files.bak) \subseteq UsersOf(new)
        /\ todo = LastWrite /\ Parsed(files.main) => files.bak = files.main

(* Until its last write a save has not changed what a reader gets; then    *)
(* the backup holds what was there before.                                 *)
WritesAtomic ==
    op \in Writes /\ ~interrupted /\ op # "migrate" =>
        /\ ~Idle => Load = old /\ (files.main = Absent => old = <<>>)
        /\ todo \in {<<>>, LastWrite} /\ Parsed(files.bak) => files.bak.messages = old

(* The file that clear() empties: the old format when there is no other.   *)
ClearedName == IF files.main # Absent THEN "main" ELSE "flat"

(* How far a clear has come: both files are emptied, the backup last.      *)
ClearStage ==
    \/ /\ todo = <<Set("bak", files[ClearedName]), Set(ClearedName, Whole(<<>>)),
                   Set("bak", Torn), Set("bak", Whole(<<>>))>>
       /\ Parsed(files[ClearedName])
       /\ ~interrupted => Load = old /\ NoOrphan
    \/ /\ todo = <<Set(ClearedName, Whole(<<>>)), Set("bak", Torn), Set("bak", Whole(<<>>))>>
       /\ ~interrupted => Load = old
       /\ ClearedName = "flat" => Parsed(files.bak)
    \/ /\ todo = <<Set("bak", Torn), Set("bak", Whole(<<>>))>>
       /\ files[ClearedName] = Whole(<<>>)
       /\ ~interrupted => Load \in {old, <<>>}
    \/ /\ todo = <<Set("bak", Whole(<<>>))>>
       /\ files[ClearedName] = Whole(<<>>) /\ files.bak = Torn
    \/ todo = <<>> /\ files[ClearedName] = Whole(<<>>) /\ files.bak = Whole(<<>>)

Clearing == op = "clear" => ClearStage /\ new = <<>>

(* How far a delete has come: the folder in either order, then the old     *)
(* format.                                                                 *)
DeleteStage ==
    \/ todo = <<Set("main", Absent), Set("bak", Absent), Set("dir", Absent), Set("flat", Absent)>>
    \/ todo = <<Set("bak", Absent), Set("main", Absent), Set("dir", Absent), Set("flat", Absent)>>
    \/ /\ todo = <<Set("bak", Absent), Set("dir", Absent), Set("flat", Absent)>>
       /\ files.main = Absent
    \/ /\ todo = <<Set("main", Absent), Set("dir", Absent), Set("flat", Absent)>>
       /\ files.bak = Absent
    \/ todo = <<Set("dir", Absent), Set("flat", Absent)>> /\ OnlyFlat
    \/ todo = <<Set("flat", Absent)>> /\ OnlyFlat
    \/ todo = <<>> /\ OnlyFlat /\ files.flat = Absent

Deleting == op = "delete" => DeleteStage /\ new = <<>>

(* The task that has the session open is the only writer of saves, and no  *)
(* file holds a user message that it has not got in memory.                *)
TaskKnows ==
    /\ ~Idle => op \in Writes \cup Wipes
    /\ ~open => memory = <<>>
    /\ open => op \in {"write", "migrate", "damage"}
    /\ open /\ ~Idle => new = memory
    /\ open /\ Idle =>
        /\ files.main # Absent
        /\ Parsed(files.main) => Users(files.main) \subseteq UsersOf(memory)
        /\ Parsed(files.bak) => Users(files.bak) \subseteq UsersOf(memory)

(* The backup is at most behind, unless a crash or damage came between.    *)
Sane ==
    /\ ~interrupted /\ (Idle \/ op \in Writes) => Ordered /\ NoOrphan
    /\ Idle /\ op \notin {"crash", "damage"} => Ordered /\ NoOrphan
    /\ Parsed(files.main) /\ Parsed(files.bak) =>
          Users(files.bak) \subseteq Users(files.main) \/ Users(files.main) = {}

(* A message that was dropped is nowhere a reader could find it again.     *)
GoneForGood ==
    /\ Ids(Read(files.main)) \cap gone = {}
    /\ Ids(Read(files.bak)) \cap gone = {}
    /\ \A i \in DOMAIN todo : Ids(Read(todo[i].file)) \cap gone = {}
    /\ Ids(memory) \cap gone = {}
    /\ files.main = Absent /\ op # "delete" => Ids(Read(files.flat)) \cap gone = {}

(* The inductive invariant.                                                *)
FilesInv ==
    /\ FilesTypes /\ Writing /\ WritesAtomic /\ Clearing /\ Deleting
    /\ TaskKnows /\ Sane /\ GoneForGood /\ EditTouchesOne

-----------------------------------------------------------------------------
(* What the kinds of files are.                                            *)
LEMMA FileKinds ==
    /\ Absent.is = "absent" /\ Torn.is = "torn" /\ Absent # Torn
    /\ ~Parsed(Absent) /\ ~Parsed(Torn) /\ Read(Absent) = <<>> /\ Read(Torn) = <<>>
    /\ \A m : /\ Parsed(Whole(m)) /\ Whole(m).messages = m /\ Read(Whole(m)) = m
              /\ Whole(m) # Absent /\ Whole(m) # Torn /\ Users(Whole(m)) = UsersOf(m)
    /\ \A f \in Files : f # Absent /\ f # Torn => f = Whole(f.messages) /\ f.messages \in Seq(Messages)
    /\ \A f : ~Parsed(f) => Users(f) = {} /\ Read(f) = <<>>
    /\ \A f : Parsed(f) => Users(f) = UsersOf(f.messages) /\ Read(f) = f.messages
<1>1. Absent.is = "absent" /\ Torn.is = "torn"
  BY DEF Absent, Torn
<1>2. \A m : Whole(m).is = "whole" /\ Whole(m).messages = m
  BY DEF Whole
<1>3. Absent # Torn /\ \A m : Whole(m) # Absent /\ Whole(m) # Torn
  BY <1>1, <1>2
<1>4. \A f : (Parsed(f) <=> f.is = "whole")
  BY DEF Parsed
<1>5. ~Parsed(Absent) /\ ~Parsed(Torn) /\ \A m : Parsed(Whole(m))
  BY <1>1, <1>2, <1>4
<1>6. \A f : ~Parsed(f) => Users(f) = {} /\ Read(f) = <<>>
  BY DEF Users, Read
<1>7. \A f : Parsed(f) => Users(f) = UsersOf(f.messages) /\ Read(f) = f.messages
  BY DEF Users, Read, UsersOf
<1>8. \A m : Read(Whole(m)) = m /\ Users(Whole(m)) = UsersOf(m)
  BY <1>2, <1>5, <1>7
<1>9. \A f \in Files : f # Absent /\ f # Torn => f = Whole(f.messages) /\ f.messages \in Seq(Messages)
  <2>1. ASSUME NEW f \in Files, f # Absent, f # Torn
        PROVE  f = Whole(f.messages) /\ f.messages \in Seq(Messages)
    <3>1. PICK m \in Seq(Messages) : f = Whole(m)
      BY <2>1 DEF Files
    <3>2. f.messages = m
      BY <1>2, <3>1
    <3>3. QED
      BY <3>1, <3>2
  <2>2. QED
    BY <2>1
<1>10. QED
  BY <1>1, <1>2, <1>3, <1>5, <1>6, <1>7, <1>8, <1>9

(* Lists of steps put together.                                            *)
LEMMA TwoSteps ==
    ASSUME NEW a, NEW b
    PROVE  <<a>> \o <<b>> = <<a, b>>
<1>. DEFINE s == <<a>> \o <<b>>
            t == <<a, b>>
            S == {a, b}
<1>1. <<a>> \in Seq(S) /\ Len(<<a>>) = 1 /\ <<b>> \in Seq(S) /\ Len(<<b>>) = 1
  OBVIOUS
<1>2. t \in Seq(S) /\ Len(t) = 2 /\ t[1] = a /\ t[2] = b
  OBVIOUS
<1>3. s \in Seq(S) /\ Len(s) = 2 /\ s[1] = a /\ s[2] = b
  BY <1>1, ConcatProperties
<1>. HIDE DEF s, t, S
<1>4. \A i \in 1..Len(s) : s[i] = t[i]
  BY <1>2, <1>3
<1>5. s = t
  BY <1>2, <1>3, <1>4, SeqEqual
<1>6. QED
  BY <1>5 DEF s, t

(* The same for three.                                                     *)
LEMMA ThreeSteps ==
    ASSUME NEW a, NEW b, NEW c
    PROVE  <<a, b>> \o <<c>> = <<a, b, c>> /\ <<a>> \o <<b, c>> = <<a, b, c>>
<1>. DEFINE s == <<a, b>> \o <<c>>
            r == <<a>> \o <<b, c>>
            t == <<a, b, c>>
            S == {a, b, c}
<1>1. /\ <<a, b>> \in Seq(S) /\ Len(<<a, b>>) = 2 /\ <<c>> \in Seq(S) /\ Len(<<c>>) = 1
      /\ <<b, c>> \in Seq(S) /\ Len(<<b, c>>) = 2 /\ <<a>> \in Seq(S) /\ Len(<<a>>) = 1
  OBVIOUS
<1>2. t \in Seq(S) /\ Len(t) = 3 /\ t[1] = a /\ t[2] = b /\ t[3] = c
  OBVIOUS
<1>3. s \in Seq(S) /\ Len(s) = 3 /\ s[1] = a /\ s[2] = b /\ s[3] = c
  BY <1>1, ConcatProperties
<1>4. r \in Seq(S) /\ Len(r) = 3 /\ r[1] = a /\ r[2] = b /\ r[3] = c
  BY <1>1, ConcatProperties
<1>. HIDE DEF s, t, r, S
<1>5. (\A i \in 1..Len(s) : s[i] = t[i]) /\ (\A i \in 1..Len(r) : r[i] = t[i])
  BY <1>2, <1>3, <1>4
<1>6. s = t /\ r = t
  BY <1>2, <1>3, <1>4, <1>5, SeqEqual
<1>7. QED
  BY <1>6 DEF s, t, r

(* The same for four.                                                      *)
LEMMA FourSteps ==
    ASSUME NEW a, NEW b, NEW c, NEW d
    PROVE  <<a, b, c>> \o <<d>> = <<a, b, c, d>> /\ <<a, b>> \o <<c, d>> = <<a, b, c, d>>
<1>. DEFINE s == <<a, b, c>> \o <<d>>
            r == <<a, b>> \o <<c, d>>
            t == <<a, b, c, d>>
            S == {a, b, c, d}
<1>1. /\ <<a, b, c>> \in Seq(S) /\ Len(<<a, b, c>>) = 3 /\ <<d>> \in Seq(S) /\ Len(<<d>>) = 1
      /\ <<a, b>> \in Seq(S) /\ Len(<<a, b>>) = 2 /\ <<c, d>> \in Seq(S) /\ Len(<<c, d>>) = 2
  OBVIOUS
<1>2. t \in Seq(S) /\ Len(t) = 4 /\ t[1] = a /\ t[2] = b /\ t[3] = c /\ t[4] = d
  OBVIOUS
<1>3. s \in Seq(S) /\ Len(s) = 4 /\ s[1] = a /\ s[2] = b /\ s[3] = c /\ s[4] = d
  BY <1>1, ConcatProperties
<1>4. r \in Seq(S) /\ Len(r) = 4 /\ r[1] = a /\ r[2] = b /\ r[3] = c /\ r[4] = d
  BY <1>1, ConcatProperties
<1>. HIDE DEF s, t, r, S
<1>5. (\A i \in 1..Len(s) : s[i] = t[i]) /\ (\A i \in 1..Len(r) : r[i] = t[i])
  BY <1>2, <1>3, <1>4
<1>6. s = t /\ r = t
  BY <1>2, <1>3, <1>4, <1>5, SeqEqual
<1>7. QED
  BY <1>6 DEF s, t, r

(* writeMessagesFile, as steps.                                            *)
LEMMA WriteToSteps ==
    ASSUME FilesTypes, NEW n \in Names, NEW m
    PROVE  /\ Parsed(files[n]) =>
                WriteTo(n, m) = <<Set("bak", files[n]), Set(n, Whole(m))>>
           /\ ~Parsed(files[n]) => WriteTo(n, m) = <<Set(n, Whole(m))>>
<1>1. CASE Parsed(files[n])
  <2>1. files[n] \in Files
    BY DEF FilesTypes
  <2>2. files[n] = Whole(files[n].messages)
    BY <1>1, <2>1, FileKinds
  <2>3. WriteTo(n, m) = <<Set("bak", Whole(files[n].messages))>> \o <<Set(n, Whole(m))>>
    BY <1>1 DEF WriteTo, AtomicWrite
  <2>4. WriteTo(n, m) = <<Set("bak", files[n])>> \o <<Set(n, Whole(m))>>
    BY <2>2, <2>3
  <2>5. QED
    BY <1>1, <2>4, TwoSteps
<1>2. CASE ~Parsed(files[n])
  <2>1. WriteTo(n, m) = <<>> \o <<Set(n, Whole(m))>>
    BY <1>2 DEF WriteTo, AtomicWrite
  <2>2. QED
    BY <1>2, <2>1
<1>3. QED
  BY <1>1, <1>2

(* persist(), as steps.                                                    *)
LEMMA PersistStepsAre ==
    ASSUME FilesTypes, NEW m
    PROVE  /\ files.main = Absent =>
                PersistSteps(m) = <<Set("dir", Whole(<<>>)), Set("main", Whole(<<>>)),
                                    Set("bak", Whole(<<>>)), Set("main", Whole(m))>>
           /\ files.main # Absent /\ Parsed(files.main) =>
                PersistSteps(m) = <<Set("bak", files.main), Set("main", Whole(m))>>
           /\ files.main # Absent /\ ~Parsed(files.main) =>
                PersistSteps(m) = <<Set("main", Whole(m))>>
<1>1. CASE files.main = Absent
  <2>1. PersistSteps(m) = ((<<Set("dir", Whole(<<>>))>> \o <<Set("main", Whole(<<>>))>>)
                            \o <<Set("bak", Whole(<<>>))>>) \o <<Set("main", Whole(m))>>
    BY <1>1 DEF PersistSteps, AtomicWrite
  <2>2. PersistSteps(m) = (<<Set("dir", Whole(<<>>)), Set("main", Whole(<<>>))>>
                            \o <<Set("bak", Whole(<<>>))>>) \o <<Set("main", Whole(m))>>
    BY <2>1, TwoSteps
  <2>3. PersistSteps(m) = <<Set("dir", Whole(<<>>)), Set("main", Whole(<<>>)),
                            Set("bak", Whole(<<>>))>> \o <<Set("main", Whole(m))>>
    BY <2>2, ThreeSteps
  <2>4. QED
    BY <1>1, <2>3, FourSteps
<1>2. CASE files.main # Absent
  <2>1. PersistSteps(m) = WriteTo("main", m)
    BY <1>2 DEF PersistSteps, WriteMessages
  <2>2. "main" \in Names /\ files.main = files["main"]
    BY DEF Names
  <2>3. QED
    BY <1>2, <2>1, <2>2, WriteToSteps
<1>3. QED
  BY <1>1, <1>2

(* clearMessagesBySessionId, as steps.                                     *)
LEMMA ClearSteps ==
    ASSUME FilesTypes, NEW n \in Names
    PROVE  /\ Parsed(files[n]) =>
                WriteTo(n, <<>>) \o PlainWrite("bak", <<>>) =
                    <<Set("bak", files[n]), Set(n, Whole(<<>>)),
                      Set("bak", Torn), Set("bak", Whole(<<>>))>>
           /\ ~Parsed(files[n]) =>
                WriteTo(n, <<>>) \o PlainWrite("bak", <<>>) =
                    <<Set(n, Whole(<<>>)), Set("bak", Torn), Set("bak", Whole(<<>>))>>
<1>1. PlainWrite("bak", <<>>) = <<Set("bak", Torn), Set("bak", Whole(<<>>))>>
  BY DEF PlainWrite
<1>2. QED
  <2>1. CASE Parsed(files[n])
    <3>1. WriteTo(n, <<>>) = <<Set("bak", files[n]), Set(n, Whole(<<>>))>>
      BY <2>1, WriteToSteps
    <3>2. QED
      BY <1>1, <2>1, <3>1, FourSteps
  <2>2. CASE ~Parsed(files[n])
    <3>1. WriteTo(n, <<>>) = <<Set(n, Whole(<<>>))>>
      BY <2>2, WriteToSteps
    <3>2. QED
      BY <1>1, <2>2, <3>1, ThreeSteps
  <2>3. QED
    BY <2>1, <2>2

-----------------------------------------------------------------------------
(* One step on the files.                                                  *)
LEMMA OneStep ==
    ASSUME FilesTypes, Step, NEW n \in Names, NEW f, Head(todo) = Set(n, f)
    PROVE  /\ files'[n] = f
           /\ \A m \in Names : m # n => files'[m] = files[m]
<1>0. Set(n, f).name = n /\ Set(n, f).file = f
  BY DEF Set
<1>1. files' = [files EXCEPT ![n] = f]
  BY <1>0 DEF Step
<1>2. QED
  BY <1>1 DEF FilesTypes

(* What is left to do is part of what was.                                 *)
LEMMA TailIsPart ==
    ASSUME NEW S, NEW q \in Seq(S), q # <<>>
    PROVE  /\ Tail(q) \in Seq(S) /\ Head(q) = q[1] /\ 1 \in DOMAIN q
           /\ \A i \in DOMAIN Tail(q) : i + 1 \in DOMAIN q /\ Tail(q)[i] = q[i + 1]
<1>1. Len(q) \in Nat /\ Len(q) # 0 /\ DOMAIN q = 1..Len(q)
  BY LenProperties, EmptySeq
<1>2. Tail(q) \in Seq(S) /\ Len(Tail(q)) = Len(q) - 1 /\ DOMAIN Tail(q) = 1..(Len(q) - 1)
  BY <1>1, HeadTailProperties, LenProperties
<1>3. QED
  BY <1>1, <1>2, HeadTailProperties

(* The types after a step.                                                 *)
LEMMA StepTypes ==
    ASSUME FilesTypes, Step
    PROVE  /\ FilesTypes' <=> (files'["flat"] # Torn /\ files'["named"] # Torn /\ gone' \in SUBSET (0..written))
           /\ Files' = Files /\ Messages' = Messages
<1>1. Messages' = Messages /\ Files' = Files
  BY DEF Step, Messages, Files
<1>2. todo # <<>> /\ todo \in Seq([name : Names, file : Files])
  BY DEF Step, Idle, FilesTypes
<1>3. Head(todo) \in [name : Names, file : Files] /\ Tail(todo) \in Seq([name : Names, file : Files])
  BY <1>2, HeadTailProperties
<1>4. files' \in [Names -> Files]
  BY <1>3 DEF Step, FilesTypes
<1>5. QED
  BY <1>1, <1>3, <1>4 DEF Step, FilesTypes

-----------------------------------------------------------------------------
(* What Load returns.                                                      *)
LEMMA LoadIs ==
    /\ Parsed(files.main) => Load = files.main.messages
    /\ ~Parsed(files.main) /\ files.main # Absent => Load = Read(files.bak)
    /\ files.main = Absent /\ files.bak = Absent => Load = Read(files.flat)
    /\ files.main = Absent /\ files.bak # Absent => Load = Read(files.bak)
    /\ (Parsed(files.main) => Load = files.main.messages)'
    /\ (~Parsed(files.main) /\ files.main # Absent => Load = Read(files.bak))'
    /\ (files.main = Absent /\ files.bak = Absent => Load = Read(files.flat))'
    /\ (files.main = Absent /\ files.bak # Absent => Load = Read(files.bak))'
BY FileKinds DEF Load, OnlyFlat

(* The names of the files are different names.                             *)
LEMMA NameFacts ==
    /\ "main" \in Names /\ "bak" \in Names /\ "dir" \in Names /\ "flat" \in Names
    /\ "named" \in Names
    /\ files.main = files["main"] /\ files.bak = files["bak"] /\ files.flat = files["flat"]
    /\ files'.main = files'["main"] /\ files'.bak = files'["bak"] /\ files'.flat = files'["flat"]
BY DEF Names

(* A step writes nothing that was to be gone.                              *)
LEMMA StepGone ==
    ASSUME FilesTypes, GoneForGood, Step, gone' = gone
    PROVE  /\ Ids(Read(files'.main)) \cap gone' = {}
           /\ Ids(Read(files'.bak)) \cap gone' = {}
           /\ \A i \in DOMAIN todo' : Ids(Read(todo'[i].file)) \cap gone' = {}
           /\ Ids(memory') \cap gone' = {}
<1>1. todo # <<>> /\ todo \in Seq([name : Names, file : Files])
  BY DEF Step, Idle, FilesTypes
<1>2. todo' = Tail(todo) /\ memory' = memory
  BY DEF Step
<1>3. /\ Head(todo) = todo[1] /\ 1 \in DOMAIN todo
      /\ \A i \in DOMAIN Tail(todo) : i + 1 \in DOMAIN todo /\ Tail(todo)[i] = todo[i + 1]
  BY <1>1, TailIsPart
<1>4. \A m \in Names : files'[m] \in {files[m], todo[1].file}
  BY <1>3 DEF Step, FilesTypes
<1>5. files'.main \in {files.main, todo[1].file} /\ files'.bak \in {files.bak, todo[1].file}
  BY <1>4, NameFacts
<1>6. QED
  BY <1>2, <1>3, <1>5 DEF GoneForGood

(* Messages carry numbers that were given.                                 *)
LEMMA IdsInRange ==
    ASSUME NEW m \in Seq(Messages)
    PROVE  Ids(m) \subseteq 0..written
<1>1. \A i \in DOMAIN m : m[i] \in Messages
  BY ElementOfSeq, LenProperties
<1>2. QED
  BY <1>1 DEF Ids, Messages

(* A step of a write.                                                      *)
LEMMA StepOfWrite ==
    ASSUME FilesInv, Step, op \in Writes
    PROVE  FilesInv'
<1>1. FilesTypes /\ Writing /\ WritesAtomic /\ TaskKnows /\ Sane /\ GoneForGood /\ EditTouchesOne
  BY DEF FilesInv
<1>2. /\ op' = op /\ new' = new /\ old' = old /\ interrupted' = interrupted /\ open' = open
      /\ memory' = memory /\ gone' = gone /\ todo' = Tail(todo) /\ todo # <<>> /\ written' = written
  BY DEF Step, Idle, Writes
<1>3. op \notin {"clear", "delete", "crash", "damage"}
  BY DEF Writes
<1>4. EditTouchesOne' /\ Clearing' /\ Deleting'
  BY <1>1, <1>2, <1>3 DEF EditTouchesOne, Clearing, Deleting
<1>5. WriteStage
  BY <1>1 DEF Writing
<1>6. /\ ~interrupted => Ordered /\ NoOrphan
      /\ ~interrupted /\ op # "migrate" => Load = old /\ (files.main = Absent => old = <<>>)
  BY <1>1, <1>2 DEF Sane, WritesAtomic, Idle
<1>. DEFINE Rest == /\ files'["flat"] = files["flat"] /\ files'["named"] = files["named"]
                    /\ Writing' /\ WritesAtomic' /\ TaskKnows' /\ Sane'
<1>11. Rest
  <2>1. CASE todo = LastWrite
    <3>1. Head(todo) = Set("main", Whole(new)) /\ Tail(todo) = <<>>
      BY <2>1 DEF LastWrite
    <3>0. todo' = <<>> /\ LastWrite' # <<>>
      BY <1>2, <3>1 DEF LastWrite
    <3>2. files'.main = Whole(new) /\ files'.bak = files.bak /\ files'.flat = files.flat
          /\ files'["named"] = files["named"]
      BY <1>1, <3>1, OneStep, NameFacts DEF Names
    <3>3. Parsed(files'.main) /\ Users(files'.main) = UsersOf(new) /\ files'.main # Absent
      BY <3>2, FileKinds
    <3>4. Parsed(files.bak) => Users(files.bak) \subseteq UsersOf(new)
      BY <1>1, <2>1 DEF Writing
    <3>5. Writing'
      BY <1>2, <3>1, <3>2, <3>3, <3>4, <3>0 DEF Writing, WriteStage
    <3>6. WritesAtomic'
      BY <1>1, <1>2, <2>1, <3>1, <3>2 DEF WritesAtomic, Idle, LastWrite
    <3>7. TaskKnows'
      BY <1>1, <1>2, <1>3, <3>1, <3>2, <3>3, <3>4 DEF TaskKnows, Idle
    <3>8. Ordered' /\ NoOrphan'
      BY <3>2, <3>3, <3>4 DEF Ordered, NoOrphan
    <3>9. Sane'
      BY <3>8 DEF Sane, Ordered
    <3>10. QED
      BY <3>2, <3>5, <3>6, <3>7, <3>9, NameFacts
  <2>2. CASE todo = BackupFirst /\ Parsed(files.main) /\ Users(files.main) \subseteq UsersOf(new)
    <3>1. Head(todo) = Set("bak", files.main) /\ Tail(todo) = LastWrite
      BY <2>2 DEF LastWrite, BackupFirst
    <3>2. files'.main = files.main /\ files'.bak = files.main /\ files'.flat = files.flat
          /\ files'["named"] = files["named"]
      BY <1>1, <3>1, OneStep, NameFacts DEF Names
    <3>3. LastWrite' = LastWrite /\ LastWrite # <<>>
      BY <1>2 DEF LastWrite
    <3>4. Writing'
      BY <1>2, <2>2, <3>1, <3>2, <3>3 DEF Writing, WriteStage
    <3>5. files.main # Absent
      BY <2>2, FileKinds
    <3>6. Load' = files.main.messages /\ Load = files.main.messages
      BY <2>2, <3>2, LoadIs
    <3>7. WritesAtomic'
      BY <1>2, <1>6, <3>1, <3>2, <3>3, <3>5, <3>6 DEF WritesAtomic
    <3>8. TaskKnows'
      BY <1>1, <1>2, <3>1, <3>3 DEF TaskKnows, Idle
    <3>9. Ordered' /\ NoOrphan'
      BY <3>2, <3>5 DEF Ordered, NoOrphan
    <3>10. Sane'
      BY <3>9 DEF Sane, Ordered
    <3>11. QED
      BY <3>2, <3>4, <3>7, <3>8, <3>10, NameFacts
  <2>3. CASE todo = EmptyFirst /\ files.main = Absent
    <3>1. Head(todo) = Set("main", Whole(<<>>))
          /\ Tail(todo) = <<Set("bak", Whole(<<>>)), Set("main", Whole(new))>>
      BY <2>3 DEF EmptyFirst
    <3>2. files'.main = Whole(<<>>) /\ files'.bak = files.bak /\ files'.flat = files.flat
          /\ files'["named"] = files["named"]
      BY <1>1, <3>1, OneStep, NameFacts DEF Names
    <3>3. todo' = BackupFirst' /\ todo' # <<>> /\ todo' # LastWrite'
      BY <1>2, <3>1, <3>2 DEF BackupFirst, LastWrite
    <3>4. UsersOf(<<>>) = {}
      BY DEF UsersOf
    <3>5. /\ Parsed(files'.main) /\ files'.main # Absent /\ Users(files'.main) = {}
          /\ files'.main.messages = <<>>
      BY <3>2, <3>4, FileKinds
    <3>6. Writing'
      BY <1>2, <3>3, <3>5 DEF Writing, WriteStage
    <3>7. Load' = <<>>
      BY <3>5, LoadIs
    <3>8. WritesAtomic'
      BY <1>2, <1>6, <2>3, <3>3, <3>5, <3>7 DEF WritesAtomic
    <3>9. TaskKnows'
      BY <1>1, <1>2, <3>3 DEF TaskKnows, Idle
    <3>10. ~interrupted => Ordered' /\ NoOrphan'
      <4>1. NoOrphan'
        BY <3>5 DEF NoOrphan
      <4>2. ASSUME ~interrupted, Parsed(files.bak)
            PROVE  Users(files.bak) = {}
        BY <1>6, <2>3, <3>4, <4>2, FileKinds DEF NoOrphan
      <4>3. QED
        BY <3>2, <3>5, <4>1, <4>2 DEF Ordered
    <3>11. Sane'
      BY <1>2, <3>3, <3>5, <3>10 DEF Sane, Idle
    <3>12. QED
      BY <3>2, <3>6, <3>8, <3>9, <3>11, NameFacts
  <2>4. CASE todo = FolderFirst /\ files.main = Absent
    <3>1. Head(todo) = Set("dir", Whole(<<>>)) /\ Tail(todo) = EmptyFirst
      BY <2>4 DEF EmptyFirst, FolderFirst
    <3>2. files'.main = files.main /\ files'.bak = files.bak /\ files'.flat = files.flat
          /\ files'["named"] = files["named"]
      BY <1>1, <3>1, OneStep, NameFacts DEF Names
    <3>3. todo' = EmptyFirst' /\ todo' # <<>> /\ todo' # LastWrite'
      BY <1>2, <3>1 DEF EmptyFirst, LastWrite
    <3>4. Writing'
      BY <1>2, <2>4, <3>2, <3>3 DEF Writing, WriteStage
    <3>5. Load' = Load
      BY <3>2 DEF Load, OnlyFlat
    <3>6. WritesAtomic'
      BY <1>2, <1>6, <3>2, <3>3, <3>5 DEF WritesAtomic
    <3>7. TaskKnows'
      BY <1>1, <1>2, <3>3 DEF TaskKnows, Idle
    <3>8. Sane'
      BY <1>1, <1>2, <3>2, <3>3 DEF Sane, Idle, Ordered, NoOrphan
    <3>9. QED
      BY <3>2, <3>4, <3>6, <3>7, <3>8, NameFacts
  <2>5. QED
    BY <1>2, <1>5, <2>1, <2>2, <2>3, <2>4 DEF WriteStage
<1>12. FilesTypes'
  BY <1>1, <1>2, <1>11, StepTypes DEF FilesTypes
<1>13. GoneForGood'
  <2>1. files'.main = Absent => files.main = Absent
    <3>1. ASSUME files.main # Absent
          PROVE  files'.main # Absent
      <4>1. Head(todo) \in {Set("main", Whole(new)), Set("bak", files.main)}
        BY <1>2, <1>5, <3>1 DEF WriteStage, LastWrite, BackupFirst
      <4>2. files'.main \in {Whole(new), files.main}
        BY <1>1, <4>1, OneStep, NameFacts DEF Names
      <4>3. QED
        BY <3>1, <4>2, FileKinds
    <3>2. QED
      BY <3>1
  <2>2. files'.flat = files.flat
    BY <1>11, NameFacts
  <2>3. QED
    BY <1>1, <1>2, <1>3, <2>1, <2>2, StepGone DEF GoneForGood
<1>14. QED
  BY <1>4, <1>11, <1>12, <1>13 DEF FilesInv

(* A step of a clear.                                                      *)
LEMMA StepOfClear ==
    ASSUME FilesInv, Step, op = "clear"
    PROVE  FilesInv'
<1>1. FilesTypes /\ Clearing /\ TaskKnows /\ Sane /\ GoneForGood /\ EditTouchesOne
  BY DEF FilesInv
<1>2. /\ op' = op /\ new' = new /\ old' = old /\ interrupted' = interrupted /\ open' = open
      /\ memory' = memory /\ todo' = Tail(todo) /\ todo # <<>> /\ written' = written
      /\ gone' = IF todo' = <<>> THEN gone \cup Ids(old) ELSE gone
  BY DEF Step, Idle
<1>3. op \notin {"delete", "crash", "damage", "edit"} \cup Writes /\ new = <<>> /\ ClearStage
  BY <1>1 DEF Writes, Clearing
<1>4. EditTouchesOne' /\ Writing' /\ WritesAtomic' /\ Deleting'
  BY <1>2, <1>3 DEF EditTouchesOne, Writing, WritesAtomic, Deleting
<1>5. TaskKnows' /\ ~open /\ memory = <<>>
  BY <1>1, <1>2, <1>3 DEF TaskKnows, Idle, Wipes, Writes
<1>6. UsersOf(<<>>) = {} /\ Ids(<<>>) = {}
  BY DEF UsersOf, Ids
<1>7. PICK n : n = ClearedName
  OBVIOUS
<1>8. /\ n \in {"main", "flat"} /\ n \in Names
      /\ n = "flat" => files.main = Absent
      /\ n = "main" => files.main # Absent
  BY <1>7 DEF ClearedName, Names
<1>9. /\ files'.main = files.main => ClearedName' = n
      /\ n = "main" /\ files'.main = Whole(<<>>) => ClearedName' = n
  BY <1>8, FileKinds DEF ClearedName
<1>. DEFINE Rest == /\ files'["flat"] \in {files["flat"], Whole(<<>>)}
                    /\ files'["named"] = files["named"]
                    /\ ClearStage' /\ Sane'
                    /\ todo' # <<>> /\ files'.main = Absent => files'.flat \in {files.flat, Whole(<<>>)} /\ files.main = Absent
                    /\ todo' = <<>> => /\ files'.main \in {Absent, Whole(<<>>)}
                                       /\ files'.bak = Whole(<<>>)
                                       /\ files'.main = Absent => files'.flat = Whole(<<>>)
<1>10. Rest
  <2>1. CASE /\ todo = <<Set("bak", files[n]), Set(n, Whole(<<>>)),
                         Set("bak", Torn), Set("bak", Whole(<<>>))>>
             /\ Parsed(files[n])
             /\ ~interrupted => Load = old /\ NoOrphan
    <3>1. Head(todo) = Set("bak", files[n])
          /\ Tail(todo) = <<Set(n, Whole(<<>>)), Set("bak", Torn), Set("bak", Whole(<<>>))>>
      BY <2>1
    <3>2. files'.main = files.main /\ files'.bak = files[n] /\ files'.flat = files.flat
          /\ files'["named"] = files["named"]
      BY <1>1, <3>1, OneStep, NameFacts DEF Names
    <3>3. ClearedName' = n
      BY <1>9, <3>2
    <3>4. Parsed(files'.bak) /\ files'.bak # Absent
      BY <2>1, <3>2, FileKinds
    <3>5. ~interrupted => Load' = old
      <4>1. CASE n = "main"
        BY <2>1, <3>2, <4>1, LoadIs, NameFacts
      <4>2. CASE n = "flat"
        <5>1. Load' = files.flat.messages
          BY <1>8, <3>2, <3>4, <4>2, LoadIs, FileKinds, NameFacts
        <5>2. Read(files.flat) = files.flat.messages
          BY <2>1, <4>2, NameFacts, FileKinds
        <5>3. ~interrupted => Load = Read(files.flat)
          BY <1>8, <2>1, <4>2, LoadIs DEF NoOrphan
        <5>4. QED
          BY <2>1, <5>1, <5>2, <5>3
      <4>3. QED
        BY <1>8, <4>1, <4>2
    <3>6. todo' # <<>> /\ ClearStage'
      BY <1>2, <3>1, <3>3, <3>4, <3>5 DEF ClearStage
    <3>7. Sane'
      <4>1. CASE n = "main"
        BY <1>2, <1>3, <3>2, <3>6, <4>1, NameFacts DEF Sane, Idle
      <4>2. CASE n = "flat"
        BY <1>2, <1>3, <1>8, <3>2, <3>6, <4>2, FileKinds DEF Sane, Idle
      <4>3. QED
        BY <1>8, <4>1, <4>2
    <3>8. QED
      BY <3>2, <3>6, <3>7, NameFacts
  <2>2. CASE /\ todo = <<Set(n, Whole(<<>>)), Set("bak", Torn), Set("bak", Whole(<<>>))>>
             /\ ~interrupted => Load = old
             /\ n = "flat" => Parsed(files.bak)
    <3>1. Head(todo) = Set(n, Whole(<<>>))
          /\ Tail(todo) = <<Set("bak", Torn), Set("bak", Whole(<<>>))>>
      BY <2>2
    <3>2. files'[n] = Whole(<<>>) /\ \A m \in Names : m # n => files'[m] = files[m]
      BY <1>1, <1>8, <3>1, OneStep
    <3>3. /\ n = "main" => files'.main = Whole(<<>>) /\ files'.flat = files.flat
          /\ n = "flat" => files'.main = files.main /\ files'.flat = Whole(<<>>)
          /\ files'.bak = files.bak /\ files'["named"] = files["named"]
      BY <1>8, <3>2, NameFacts
    <3>4. ClearedName' = n
      BY <1>8, <1>9, <3>3
    <3>5. ~interrupted => Load' \in {old, <<>>}
      <4>1. CASE n = "main"
        BY <3>3, <4>1, FileKinds, LoadIs
      <4>2. CASE n = "flat"
        <5>1. files.bak # Absent /\ ~Parsed(files.main)
          BY <1>8, <2>2, <4>2, FileKinds
        <5>2. Load' = Load
          BY <1>8, <3>3, <4>2, <5>1, LoadIs
        <5>3. QED
          BY <2>2, <5>2
      <4>3. QED
        BY <1>8, <4>1, <4>2
    <3>6. todo' # <<>> /\ ClearStage'
      BY <1>2, <3>1, <3>2, <3>4, <3>5 DEF ClearStage
    <3>7. Sane'
      <4>1. CASE n = "main"
        BY <1>2, <1>3, <1>6, <3>3, <3>6, <4>1, FileKinds DEF Sane, Idle
      <4>2. CASE n = "flat"
        BY <1>2, <1>3, <1>8, <3>3, <3>6, <4>2, FileKinds DEF Sane, Idle
      <4>3. QED
        BY <1>8, <4>1, <4>2
    <3>8. QED
      BY <1>8, <3>3, <3>6, <3>7, NameFacts, FileKinds
  <2>3. CASE /\ todo = <<Set("bak", Torn), Set("bak", Whole(<<>>))>>
             /\ files[n] = Whole(<<>>)
    <3>1. Head(todo) = Set("bak", Torn) /\ Tail(todo) = <<Set("bak", Whole(<<>>))>>
      BY <2>3
    <3>2. files'.main = files.main /\ files'.bak = Torn /\ files'.flat = files.flat
          /\ files'["named"] = files["named"] /\ files'[n] = files[n]
      BY <1>1, <1>8, <3>1, OneStep, NameFacts DEF Names
    <3>3. ClearedName' = n
      BY <1>9, <3>2
    <3>4. todo' # <<>> /\ ClearStage'
      BY <1>2, <2>3, <3>1, <3>2, <3>3 DEF ClearStage
    <3>5. Sane'
      BY <1>2, <1>3, <3>2, <3>4, FileKinds DEF Sane, Idle
    <3>6. QED
      BY <3>2, <3>4, <3>5, NameFacts
  <2>4. CASE /\ todo = <<Set("bak", Whole(<<>>))>>
             /\ files[n] = Whole(<<>>) /\ files.bak = Torn
    <3>1. Head(todo) = Set("bak", Whole(<<>>)) /\ Tail(todo) = <<>>
      BY <2>4
    <3>2. files'.main = files.main /\ files'.bak = Whole(<<>>) /\ files'.flat = files.flat
          /\ files'["named"] = files["named"] /\ files'[n] = files[n]
      BY <1>1, <1>8, <3>1, OneStep, NameFacts DEF Names
    <3>3. ClearedName' = n /\ todo' = <<>>
      BY <1>2, <1>9, <3>1, <3>2
    <3>4. ClearStage'
      BY <2>4, <3>2, <3>3 DEF ClearStage
    <3>5. Ordered' /\ NoOrphan'
      <4>1. Users(files'.bak) = {} /\ Read(files'.bak) = <<>>
        BY <1>6, <3>2, FileKinds
      <4>2. files'.main = Absent => Read(files'.flat) = <<>>
        BY <1>8, <2>4, <3>2, FileKinds, NameFacts
      <4>3. QED
        BY <4>1, <4>2 DEF Ordered, NoOrphan
    <3>6. Sane'
      BY <3>5 DEF Sane, Ordered
    <3>7. files'.main \in {Absent, Whole(<<>>)} /\ (files'.main = Absent => files'.flat = Whole(<<>>))
      BY <1>8, <2>4, <3>2, NameFacts
    <3>8. QED
      BY <3>2, <3>3, <3>4, <3>6, <3>7, NameFacts
  <2>5. QED
    BY <1>2, <1>3, <1>7, <2>1, <2>2, <2>3, <2>4 DEF ClearStage
<1>11. Clearing'
  BY <1>2, <1>3, <1>10 DEF Clearing
<1>12. gone' \in SUBSET (0..written)
  BY <1>1, <1>2, IdsInRange DEF FilesTypes
<1>13. FilesTypes'
  BY <1>1, <1>2, <1>10, <1>12, StepTypes, FileKinds DEF FilesTypes
<1>14. GoneForGood'
  <2>1. CASE todo' # <<>>
    <3>1. gone' = gone
      BY <1>2, <2>1
    <3>2. files'.main = Absent => Ids(Read(files'.flat)) \cap gone' = {}
      BY <1>1, <1>2, <1>3, <1>6, <1>10, <2>1, <3>1, FileKinds DEF GoneForGood
    <3>3. QED
      BY <1>1, <3>1, <3>2, StepGone DEF GoneForGood
  <2>2. CASE todo' = <<>>
    <3>1. Read(files'.main) = <<>> /\ Read(files'.bak) = <<>>
          /\ (files'.main = Absent => Read(files'.flat) = <<>>)
      BY <1>10, <2>2, FileKinds
    <3>2. memory' = <<>> /\ DOMAIN todo' = {}
      BY <1>2, <1>5, <2>2
    <3>3. QED
      BY <1>6, <3>1, <3>2 DEF GoneForGood
  <2>3. QED
    BY <2>1, <2>2
<1>15. QED
  BY <1>4, <1>5, <1>10, <1>11, <1>13, <1>14 DEF FilesInv

(* A step of a delete.                                                     *)
LEMMA StepOfDelete ==
    ASSUME FilesInv, Step, op = "delete"
    PROVE  FilesInv'
<1>1. FilesTypes /\ Deleting /\ TaskKnows /\ Sane /\ GoneForGood /\ EditTouchesOne
  BY DEF FilesInv
<1>2. /\ op' = op /\ new' = new /\ old' = old /\ interrupted' = interrupted /\ open' = open
      /\ memory' = memory /\ todo' = Tail(todo) /\ todo # <<>> /\ written' = written
      /\ gone' = IF todo' = <<>> THEN gone \cup Ids(old) ELSE gone
  BY DEF Step, Idle
<1>3. op \notin {"clear", "crash", "damage", "edit"} \cup Writes /\ new = <<>> /\ DeleteStage
  BY <1>1 DEF Writes, Deleting
<1>4. EditTouchesOne' /\ Writing' /\ WritesAtomic' /\ Clearing'
  BY <1>2, <1>3 DEF EditTouchesOne, Writing, WritesAtomic, Clearing
<1>5. TaskKnows' /\ ~open /\ memory = <<>>
  BY <1>1, <1>2, <1>3 DEF TaskKnows, Idle, Wipes, Writes
<1>6. Ids(<<>>) = {}
  BY DEF Ids
<1>. DEFINE Rest == /\ files'["flat"] \in {files["flat"], Absent}
                    /\ files'["named"] = files["named"]
                    /\ files'.main \in {files.main, Absent} /\ files'.bak \in {files.bak, Absent}
                    /\ DeleteStage'
                    /\ todo' = <<>> => files'.main = Absent /\ files'.bak = Absent
<1>7. Rest
  <2>1. CASE todo = <<Set("main", Absent), Set("bak", Absent), Set("dir", Absent), Set("flat", Absent)>>
    <3>1. Head(todo) = Set("main", Absent)
          /\ Tail(todo) = <<Set("bak", Absent), Set("dir", Absent), Set("flat", Absent)>>
      BY <2>1
    <3>2. files'.main = Absent /\ files'.bak = files.bak /\ files'.flat = files.flat
          /\ files'["named"] = files["named"]
      BY <1>1, <3>1, OneStep, NameFacts DEF Names
    <3>3. QED
      BY <1>2, <3>1, <3>2, NameFacts DEF DeleteStage
  <2>2. CASE todo = <<Set("bak", Absent), Set("main", Absent), Set("dir", Absent), Set("flat", Absent)>>
    <3>1. Head(todo) = Set("bak", Absent)
          /\ Tail(todo) = <<Set("main", Absent), Set("dir", Absent), Set("flat", Absent)>>
      BY <2>2
    <3>2. files'.bak = Absent /\ files'.main = files.main /\ files'.flat = files.flat
          /\ files'["named"] = files["named"]
      BY <1>1, <3>1, OneStep, NameFacts DEF Names
    <3>3. QED
      BY <1>2, <3>1, <3>2, NameFacts DEF DeleteStage
  <2>3. CASE /\ todo = <<Set("bak", Absent), Set("dir", Absent), Set("flat", Absent)>>
             /\ files.main = Absent
    <3>1. Head(todo) = Set("bak", Absent)
          /\ Tail(todo) = <<Set("dir", Absent), Set("flat", Absent)>>
      BY <2>3
    <3>2. files'.bak = Absent /\ files'.main = Absent /\ files'.flat = files.flat
          /\ files'["named"] = files["named"]
      BY <1>1, <2>3, <3>1, OneStep, NameFacts DEF Names
    <3>3. QED
      BY <1>2, <3>1, <3>2, NameFacts DEF DeleteStage, OnlyFlat
  <2>4. CASE /\ todo = <<Set("main", Absent), Set("dir", Absent), Set("flat", Absent)>>
             /\ files.bak = Absent
    <3>1. Head(todo) = Set("main", Absent)
          /\ Tail(todo) = <<Set("dir", Absent), Set("flat", Absent)>>
      BY <2>4
    <3>2. files'.bak = Absent /\ files'.main = Absent /\ files'.flat = files.flat
          /\ files'["named"] = files["named"]
      BY <1>1, <2>4, <3>1, OneStep, NameFacts DEF Names
    <3>3. QED
      BY <1>2, <3>1, <3>2, NameFacts DEF DeleteStage, OnlyFlat
  <2>5. CASE todo = <<Set("dir", Absent), Set("flat", Absent)>> /\ OnlyFlat
    <3>1. Head(todo) = Set("dir", Absent) /\ Tail(todo) = <<Set("flat", Absent)>>
      BY <2>5
    <3>2. files'.bak = Absent /\ files'.main = Absent /\ files'.flat = files.flat
          /\ files'["named"] = files["named"]
      BY <1>1, <2>5, <3>1, OneStep, NameFacts DEF Names, OnlyFlat
    <3>3. QED
      BY <1>2, <3>1, <3>2, NameFacts DEF DeleteStage, OnlyFlat
  <2>6. CASE todo = <<Set("flat", Absent)>> /\ OnlyFlat
    <3>1. Head(todo) = Set("flat", Absent) /\ Tail(todo) = <<>>
      BY <2>6
    <3>2. files'.bak = Absent /\ files'.main = Absent /\ files'.flat = Absent
          /\ files'["named"] = files["named"]
      BY <1>1, <2>6, <3>1, OneStep, NameFacts DEF Names, OnlyFlat
    <3>3. QED
      BY <1>2, <3>1, <3>2, NameFacts DEF DeleteStage, OnlyFlat
  <2>7. QED
    BY <1>2, <1>3, <2>1, <2>2, <2>3, <2>4, <2>5, <2>6 DEF DeleteStage
<1>8. Deleting'
  BY <1>2, <1>3, <1>7 DEF Deleting
<1>9. Sane'
  <2>1. Parsed(files'.main) /\ Parsed(files'.bak) => files'.main = files.main /\ files'.bak = files.bak
    BY <1>7, FileKinds
  <2>2. todo' = <<>> => Ordered' /\ NoOrphan'
    BY <1>7, FileKinds DEF Ordered, NoOrphan
  <2>3. QED
    BY <1>1, <1>2, <1>3, <2>1, <2>2 DEF Sane, Idle
<1>10. gone' \in SUBSET (0..written)
  BY <1>1, <1>2, IdsInRange DEF FilesTypes
<1>11. FilesTypes'
  BY <1>1, <1>2, <1>7, <1>10, StepTypes, FileKinds DEF FilesTypes
<1>12. GoneForGood'
  <2>1. CASE todo' # <<>>
    BY <1>1, <1>2, <1>3, <2>1, StepGone DEF GoneForGood
  <2>2. CASE todo' = <<>>
    <3>1. Read(files'.main) = <<>> /\ Read(files'.bak) = <<>>
      BY <1>7, <2>2, FileKinds
    <3>2. memory' = <<>> /\ DOMAIN todo' = {}
      BY <1>2, <1>5, <2>2
    <3>3. QED
      BY <1>2, <1>6, <3>1, <3>2 DEF GoneForGood
  <2>3. QED
    BY <2>1, <2>2
<1>13. QED
  BY <1>4, <1>5, <1>7, <1>8, <1>9, <1>11, <1>12 DEF FilesInv

-----------------------------------------------------------------------------
(* Numbers that were given stay so.                                        *)
LEMMA MessagesGrow ==
    ASSUME FilesTypes, written' \in {written, written + 1}
    PROVE  /\ \A m \in Seq(Messages) : m \in Seq(Messages')
           /\ \A f \in Files : f \in Files'
           /\ \A S \in SUBSET (0..written) : S \in SUBSET (0..written')
<1>1. written \in Nat
  BY DEF FilesTypes
<1>2. Messages \subseteq Messages'
  BY <1>1 DEF Messages
<1>3. \A m \in Seq(Messages) : m \in Seq(Messages')
  BY <1>2
<1>4. \A f \in Files : f \in Files'
  BY <1>3 DEF Files
<1>5. QED
  BY <1>1, <1>3, <1>4

(* Load returns messages.                                                  *)
LEMMA LoadTypes ==
    ASSUME FilesTypes
    PROVE  /\ Load \in Seq(Messages)
           /\ \A n \in Names : Read(files[n]) \in Seq(Messages)
<1>1. \A n \in Names : Read(files[n]) \in Seq(Messages)
  <2>1. <<>> \in Seq(Messages)
    OBVIOUS
  <2>2. QED
    BY <2>1, FileKinds DEF FilesTypes
<1>2. Load \in {Read(files.main), Read(files.bak), Read(files.flat)}
  BY FileKinds DEF Load
<1>3. QED
  BY <1>1, <1>2, NameFacts

(* Between two operations the files are as they should, unless the one     *)
(* before was cut short.                                                   *)
LEMMA IdleFiles ==
    ASSUME FilesInv, Idle
    PROVE  /\ ~(interrupted /\ op \in {"crash", "damage"}) => Ordered /\ NoOrphan
           /\ files.main = Absent => Ids(Read(files.flat)) \cap gone = {}
           /\ Ids(Load) \cap gone = {}
<1>1. Sane /\ GoneForGood /\ Deleting
  BY DEF FilesInv
<1>2. ~(interrupted /\ op \in {"crash", "damage"}) => Ordered /\ NoOrphan
  BY <1>1 DEF Sane
<1>3. Ids(<<>>) = {}
  BY DEF Ids
<1>4. files.main = Absent => Ids(Read(files.flat)) \cap gone = {}
  <2>1. CASE op # "delete"
    BY <1>1, <2>1 DEF GoneForGood
  <2>2. CASE op = "delete"
    <3>1. DeleteStage
      BY <1>1, <2>2 DEF Deleting
    <3>2. files.flat = Absent
      BY <3>1 DEF DeleteStage, Idle
    <3>3. QED
      BY <1>3, <3>2, FileKinds
  <2>3. QED
    BY <2>1, <2>2
<1>5. Ids(Load) \cap gone = {}
  <2>1. CASE files.main = Absent /\ files.bak = Absent
    BY <1>4, <2>1, LoadIs
  <2>2. CASE ~(files.main = Absent /\ files.bak = Absent)
    <3>1. Load \in {Read(files.main), Read(files.bak)}
      BY <2>2, LoadIs, FileKinds
    <3>2. QED
      BY <1>1, <3>1 DEF GoneForGood
  <2>3. QED
    BY <2>1, <2>2
<1>6. QED
  BY <1>2, <1>4, <1>5

(* A write, a migration or an edit begins.                                 *)
LEMMA WriteBegins ==
    ASSUME FilesInv, Idle,
           op' \in Writes, files' = files, old' = Load, damage' = damage,
           interrupted' = (interrupted /\ op \in {"crash", "damage"}),
           written' \in {written, written + 1}, written' \in 0..MaxMessages,
           open' \in BOOLEAN,
           memory' \in Seq(Messages'), Ids(memory') \cap gone' = {},
           new' \in Seq(Messages'), Ids(new') \cap gone' = {},
           gone' \in SUBSET gone,
           \/ /\ files.main = Absent /\ todo' = FolderFirst'
              /\ ~interrupted' /\ op' # "migrate" => Load = <<>>
           \/ /\ Parsed(files.main) /\ todo' = BackupFirst'
              /\ Users(files.main) \subseteq UsersOf(new')
           \/ /\ ~Parsed(files.main) /\ todo' = LastWrite'
              /\ ~interrupted' => files.main # Absent
              /\ Parsed(files.bak) => Users(files.bak) \subseteq UsersOf(new')
    PROVE  /\ FilesTypes' /\ Writing' /\ WritesAtomic' /\ Clearing' /\ Deleting'
           /\ Sane' /\ GoneForGood'
           /\ todo' # <<>>
<1>1. FilesTypes /\ Sane /\ GoneForGood
  BY DEF FilesInv
<1>2. /\ op' \in Writes /\ op' \notin {"clear", "delete", "crash", "damage"}
  BY DEF Writes
<1>3. Clearing' /\ Deleting'
  BY <1>2 DEF Clearing, Deleting
<1>4. ~interrupted' => Ordered /\ NoOrphan
  BY IdleFiles
<1>5. /\ LastWrite' # <<>> /\ BackupFirst' # <<>> /\ EmptyFirst' # <<>> /\ FolderFirst' # <<>>
      /\ BackupFirst' # LastWrite' /\ FolderFirst' # LastWrite'
  BY DEF LastWrite, BackupFirst, EmptyFirst, FolderFirst
<1>6. todo' # <<>>
  BY <1>5
<1>7. Writing'
  BY <1>2, <1>5, FileKinds DEF Writing, WriteStage
<1>8. Load' = Load
  BY DEF Load, OnlyFlat
<1>9. WritesAtomic'
  <2>1. CASE files.main = Absent /\ todo' = FolderFirst'
             /\ (~interrupted' /\ op' # "migrate" => Load = <<>>)
    BY <1>5, <1>8, <2>1 DEF WritesAtomic
  <2>2. CASE Parsed(files.main) /\ todo' = BackupFirst'
    BY <1>5, <1>8, <2>2, FileKinds DEF WritesAtomic
  <2>3. CASE ~Parsed(files.main) /\ todo' = LastWrite' /\ (~interrupted' => files.main # Absent)
    <3>1. ~interrupted' /\ Parsed(files.bak) => Load = files.bak.messages
      BY <2>3, LoadIs, FileKinds
    <3>2. QED
      BY <1>5, <1>8, <2>3, <3>1, FileKinds DEF WritesAtomic
  <2>4. QED
    BY <2>1, <2>2, <2>3
<1>10. Sane'
  <2>1. Ordered' <=> Ordered
    BY DEF Ordered
  <2>2. NoOrphan' <=> NoOrphan
    BY DEF NoOrphan
  <2>3. QED
    BY <1>1, <1>4, <1>6, <2>1, <2>2 DEF Sane, Idle
<1>11. /\ todo' \in Seq([name : Names, file : Files'])
       /\ \A i \in DOMAIN todo' : Ids(Read(todo'[i].file)) \cap gone' = {}
  <2>1. Ids(<<>>) = {} /\ <<>> \in Seq(Messages')
    BY DEF Ids
  <2>2. Whole(<<>>) \in Files' /\ Whole(new') \in Files'
    BY <2>1 DEF Files
  <2>3. files.main \in Files' /\ Ids(Read(files.main)) \cap gone' = {}
    BY <1>1, MessagesGrow, NameFacts DEF FilesTypes, GoneForGood
  <2>4. Ids(Read(Whole(<<>>))) \cap gone' = {} /\ Ids(Read(Whole(new'))) \cap gone' = {}
    BY <2>1, FileKinds
  <2>5. \A n \in Names, f \in Files' :
            /\ Set(n, f) \in [name : Names, file : Files']
            /\ Set(n, f).file = f
    BY DEF Set
  <2>6. CASE todo' = FolderFirst'
    <3>1. todo' = <<Set("dir", Whole(<<>>)), Set("main", Whole(<<>>)),
                 Set("bak", Whole(<<>>)), Set("main", Whole(new'))>>
      BY <2>6 DEF FolderFirst
    <3>2. QED
      BY <2>2, <2>4, <2>5, <3>1, NameFacts
  <2>7. CASE todo' = BackupFirst'
    <3>1. todo' = <<Set("bak", files.main), Set("main", Whole(new'))>>
      BY <2>7 DEF BackupFirst
    <3>2. QED
      BY <2>2, <2>3, <2>4, <2>5, <3>1, NameFacts
  <2>8. CASE todo' = LastWrite'
    <3>1. todo' = <<Set("main", Whole(new'))>>
      BY <2>8 DEF LastWrite
    <3>2. QED
      BY <2>2, <2>4, <2>5, <3>1, NameFacts
  <2>9. QED
    BY <2>6, <2>7, <2>8
<1>12. FilesTypes'
  <2>1. Load \in Seq(Messages') /\ gone' \in SUBSET (0..written')
    BY <1>1, LoadTypes, MessagesGrow DEF FilesTypes
  <2>2. files' \in [Names -> Files']
    BY <1>1, MessagesGrow DEF FilesTypes
  <2>3. interrupted' \in BOOLEAN
    BY <1>1 DEF FilesTypes
  <2>4. QED
    BY <1>1, <1>11, <2>1, <2>2, <2>3 DEF FilesTypes
<1>13. GoneForGood'
  BY <1>1, <1>11, IdleFiles DEF GoneForGood
<1>14. QED
  BY <1>3, <1>6, <1>7, <1>9, <1>10, <1>12, <1>13

-----------------------------------------------------------------------------
(* A message at the end: the numbers and the places of the user's.         *)
LEMMA Appended ==
    ASSUME NEW S, NEW m \in Seq(S), NEW e \in S
    PROVE  /\ Append(m, e) \in Seq(S)
           /\ UsersOf(m) \subseteq UsersOf(Append(m, e))
           /\ Ids(Append(m, e)) = Ids(m) \cup {e.id}
<1>1. Append(m, e) \in Seq(S) /\ Len(m) \in Nat /\ DOMAIN m = 1..Len(m)
  BY AppendProperties, LenProperties
<1>2. /\ DOMAIN Append(m, e) = 1..(Len(m) + 1)
      /\ \A i \in 1..Len(m) : Append(m, e)[i] = m[i]
      /\ Append(m, e)[Len(m) + 1] = e
  BY AppendProperties, LenProperties
<1>3. 1..(Len(m) + 1) = 1..Len(m) \cup {Len(m) + 1}
  BY <1>1
<1>4. UsersOf(m) \subseteq UsersOf(Append(m, e))
  BY <1>1, <1>2, <1>3 DEF UsersOf
<1>5. Ids(Append(m, e)) = Ids(m) \cup {e.id}
  BY <1>1, <1>2, <1>3 DEF Ids
<1>6. QED
  BY <1>1, <1>4, <1>5

(* A run begins.                                                           *)
LEMMA BeginKeeps ==
    ASSUME FilesInv, FilesAssumption, Begin
    PROVE  FilesInv'
<1>1. FilesTypes /\ Sane /\ GoneForGood /\ TaskKnows
  BY DEF FilesInv
<1>2. PICK byName \in BOOLEAN :
         LET renamed == byName /\ Load = <<>>
             stored == IF renamed THEN Read(files.named) ELSE Load
         IN  /\ memory' = Append(stored, Message(written + 1, "user"))
             /\ gone' = IF renamed THEN gone \ Ids(stored) ELSE gone
  BY DEF Begin
<1>3. PICK stored : stored = IF byName /\ Load = <<>> THEN Read(files.named) ELSE Load
  OBVIOUS
<1>4. /\ Idle /\ ~open /\ written < MaxMessages /\ written' = written + 1 /\ open' = TRUE
      /\ files' = files /\ damage' = damage /\ old' = Load /\ new' = memory'
      /\ todo' = PersistSteps(memory')
      /\ op' = IF Load # <<>> /\ OnlyFlat THEN "migrate" ELSE "write"
      /\ interrupted' = (interrupted /\ op \in {"crash", "damage"})
  BY DEF Begin, Operation
<1>5. /\ memory' = Append(stored, Message(written + 1, "user"))
      /\ gone' \in SUBSET gone
      /\ stored # Load => Load = <<>> /\ Ids(stored) \cap gone' = {}
  BY <1>2, <1>3
<1>6. written \in Nat /\ gone \in SUBSET (0..written) /\ MaxMessages \in Nat
  BY <1>1 DEF FilesTypes, FilesAssumption
<1>7. PICK e : e = Message(written + 1, "user")
  OBVIOUS
<1>8. e \in Messages' /\ e.id = written + 1
  BY <1>4, <1>6, <1>7 DEF Message, Messages
<1>9. stored \in Seq(Messages')
  <2>1. Load \in Seq(Messages) /\ Read(files.named) \in Seq(Messages)
    BY <1>1, LoadTypes DEF Names
  <2>2. QED
    BY <1>1, <1>3, <1>4, <2>1, MessagesGrow
<1>10. /\ memory' \in Seq(Messages') /\ UsersOf(stored) \subseteq UsersOf(memory')
       /\ Ids(memory') = Ids(stored) \cup {written + 1}
  BY <1>5, <1>7, <1>8, <1>9, Appended
<1>11. Ids(memory') \cap gone' = {}
  <2>1. Ids(stored) \cap gone' = {}
    BY <1>4, <1>5, IdleFiles
  <2>2. written + 1 \notin gone'
    BY <1>5, <1>6
  <2>3. QED
    BY <1>10, <2>1, <2>2
<1>12. /\ Parsed(files.main) => Users(files.main) \subseteq UsersOf(memory')
       /\ ~Parsed(files.main) /\ files.main # Absent /\ Parsed(files.bak) =>
             Users(files.bak) \subseteq UsersOf(memory')
  <2>1. UsersOf(Load) \subseteq UsersOf(memory')
    <3>1. UsersOf(<<>>) = {}
      BY DEF UsersOf
    <3>2. QED
      BY <1>5, <1>10, <3>1
  <2>2. QED
    BY <2>1, LoadIs, FileKinds
<1>13. op' \in Writes /\ op' \in {"write", "migrate"}
  BY <1>4 DEF Writes
<1>14. ~interrupted' /\ op' # "migrate" /\ files.main = Absent => Load = <<>>
  <2>1. ~interrupted' => NoOrphan
    BY <1>4, IdleFiles
  <2>2. op' # "migrate" => Load = <<>> \/ ~OnlyFlat
    BY <1>4
  <2>3. QED
    BY <2>1, <2>2, LoadIs DEF NoOrphan, OnlyFlat
<1>15. \/ files.main = Absent /\ todo' = FolderFirst'
       \/ Parsed(files.main) /\ todo' = BackupFirst'
       \/ files.main # Absent /\ ~Parsed(files.main) /\ todo' = LastWrite'
  <2>1. /\ FolderFirst' = <<Set("dir", Whole(<<>>)), Set("main", Whole(<<>>)),
                            Set("bak", Whole(<<>>)), Set("main", Whole(memory'))>>
        /\ BackupFirst' = <<Set("bak", files.main), Set("main", Whole(memory'))>>
        /\ LastWrite' = <<Set("main", Whole(memory'))>>
    BY <1>4 DEF FolderFirst, BackupFirst, LastWrite
  <2>2. PICK m : m = memory'
    OBVIOUS
  <2>3. QED
    BY <1>1, <1>4, <2>1, <2>2, PersistStepsAre, FileKinds
<1>16. /\ FilesTypes' /\ Writing' /\ WritesAtomic' /\ Clearing' /\ Deleting'
       /\ Sane' /\ GoneForGood' /\ todo' # <<>>
  <2>1. written' \in 0..MaxMessages /\ open' \in BOOLEAN
    BY <1>4, <1>6
  <2>2. CASE files.main = Absent /\ todo' = FolderFirst'
    BY <1>4, <1>5, <1>10, <1>11, <1>13, <1>14, <2>1, <2>2, WriteBegins
  <2>3. CASE Parsed(files.main) /\ todo' = BackupFirst'
    BY <1>4, <1>5, <1>10, <1>11, <1>12, <1>13, <2>1, <2>3, WriteBegins
  <2>4. CASE files.main # Absent /\ ~Parsed(files.main) /\ todo' = LastWrite'
    BY <1>4, <1>5, <1>10, <1>11, <1>12, <1>13, <2>1, <2>4, WriteBegins
  <2>5. QED
    BY <1>15, <2>2, <2>3, <2>4
<1>17. TaskKnows'
  BY <1>4, <1>13, <1>16 DEF TaskKnows, Idle
<1>18. EditTouchesOne'
  BY <1>13 DEF EditTouchesOne
<1>19. QED
  BY <1>16, <1>17, <1>18 DEF FilesInv

(* A task writes its messages.                                             *)
LEMMA PersistKeeps ==
    ASSUME FilesInv, FilesAssumption, Persist
    PROVE  FilesInv'
<1>1. FilesTypes /\ Sane /\ GoneForGood /\ TaskKnows
  BY DEF FilesInv
<1>2. /\ Idle /\ open /\ open' = open /\ gone' = gone
      /\ files' = files /\ damage' = damage /\ old' = Load /\ new' = memory'
      /\ todo' = PersistSteps(memory') /\ op' = "write"
      /\ interrupted' = (interrupted /\ op \in {"crash", "damage"})
  BY DEF Persist, Operation
<1>3. /\ files.main # Absent
      /\ Parsed(files.main) => Users(files.main) \subseteq UsersOf(memory)
      /\ Parsed(files.bak) => Users(files.bak) \subseteq UsersOf(memory)
  BY <1>1, <1>2 DEF TaskKnows
<1>4. /\ written \in Nat /\ gone \in SUBSET (0..written) /\ MaxMessages \in Nat
      /\ written \in 0..MaxMessages /\ memory \in Seq(Messages)
  BY <1>1 DEF FilesTypes, FilesAssumption
<1>5. /\ written' \in {written, written + 1} /\ written' \in 0..MaxMessages
      /\ memory' \in Seq(Messages') /\ UsersOf(memory) \subseteq UsersOf(memory')
      /\ Ids(memory') \cap gone' = {}
  <2>1. CASE UNCHANGED <<memory, written>>
    BY <1>1, <1>2, <1>4, <2>1, MessagesGrow DEF GoneForGood
  <2>2. CASE /\ written < MaxMessages /\ written' = written + 1
             /\ memory' = Append(memory, Message(written + 1, "assistant"))
    <3>1. PICK e : e = Message(written + 1, "assistant")
      OBVIOUS
    <3>2. e \in Messages' /\ e.id = written + 1
      BY <1>4, <2>2, <3>1 DEF Message, Messages
    <3>3. memory \in Seq(Messages')
      BY <1>1, <1>4, <2>2, MessagesGrow
    <3>4. /\ memory' \in Seq(Messages') /\ UsersOf(memory) \subseteq UsersOf(memory')
          /\ Ids(memory') = Ids(memory) \cup {written + 1}
      BY <2>2, <3>1, <3>2, <3>3, Appended
    <3>5. written + 1 \notin gone' /\ Ids(memory) \cap gone' = {}
      BY <1>1, <1>2, <1>4 DEF GoneForGood
    <3>6. QED
      BY <1>4, <2>2, <3>4, <3>5
  <2>3. QED
    BY <2>1, <2>2 DEF Persist
<1>6. op' \in Writes /\ gone' \in SUBSET gone /\ open' \in BOOLEAN
  BY <1>1, <1>2 DEF Writes, FilesTypes
<1>7. \/ Parsed(files.main) /\ todo' = BackupFirst'
      \/ ~Parsed(files.main) /\ todo' = LastWrite'
  <2>1. /\ BackupFirst' = <<Set("bak", files.main), Set("main", Whole(memory'))>>
        /\ LastWrite' = <<Set("main", Whole(memory'))>>
    BY <1>2 DEF BackupFirst, LastWrite
  <2>2. PICK m : m = memory'
    OBVIOUS
  <2>3. QED
    BY <1>1, <1>2, <1>3, <2>1, <2>2, PersistStepsAre, FileKinds
<1>8. /\ FilesTypes' /\ Writing' /\ WritesAtomic' /\ Clearing' /\ Deleting'
      /\ Sane' /\ GoneForGood' /\ todo' # <<>>
  <2>1. CASE Parsed(files.main) /\ todo' = BackupFirst'
    <3>1. Users(files.main) \subseteq UsersOf(new')
      BY <1>2, <1>3, <1>5, <2>1
    <3>2. QED
      BY <1>2, <1>5, <1>6, <2>1, <3>1, WriteBegins
  <2>2. CASE ~Parsed(files.main) /\ todo' = LastWrite'
    <3>1. Parsed(files.bak) => Users(files.bak) \subseteq UsersOf(new')
      BY <1>2, <1>3, <1>5
    <3>2. QED
      BY <1>2, <1>3, <1>5, <1>6, <2>2, <3>1, WriteBegins
  <2>3. QED
    BY <1>7, <2>1, <2>2
<1>9. TaskKnows'
  BY <1>2, <1>6, <1>8 DEF TaskKnows, Idle
<1>10. EditTouchesOne'
  BY <1>2 DEF EditTouchesOne
<1>11. QED
  BY <1>8, <1>9, <1>10 DEF FilesInv

-----------------------------------------------------------------------------
(* The numbers below n: how many there are.                                *)
LEMMA NumbersUpTo ==
    ASSUME NEW n \in Nat, NEW U \in SUBSET (1..n)
    PROVE  IsFiniteSet(U) /\ Cardinality(U) \in Nat
<1>1. IsFiniteSet(1..n)
  BY FS_Interval
<1>2. IsFiniteSet(U)
  BY <1>1, FS_Subset
<1>3. QED
  BY <1>2, FS_CardinalityType

(* Of more than k numbers, one has exactly k greater ones.                 *)
LEMMA PlaceFromTheEnd ==
    ASSUME NEW n \in Nat, NEW U \in SUBSET (1..n), NEW k \in Nat, Cardinality(U) > k
    PROVE  \E i \in U : Cardinality({j \in U : j > i}) = k
<1>. DEFINE Above(i) == {j \in U : j > i}
            T == {m \in Nat : m < Cardinality(U) => \E i \in U : Cardinality(Above(i)) = m}
<1>0. /\ \A i \in U : i \in Nat /\ n - i \in Nat
      /\ \A i, j \in U : (j > i <=> ~(j <= i)) /\ (j < i \/ j = i \/ j > i)
                           /\ (n - i <= n - j => j <= i)
      /\ \A i, j, l \in U : j > i /\ i > l => j > l
      /\ \A i, j \in U : (j < i <=> i > j) /\ ~(i > i)
  OBVIOUS
<1>1. /\ IsFiniteSet(U) /\ Cardinality(U) \in Nat
      /\ \A S \in SUBSET U : IsFiniteSet(S) /\ Cardinality(S) \in Nat
  <2>1. \A S \in SUBSET U : S \in SUBSET (1..n)
    OBVIOUS
  <2>2. QED
    BY <2>1, NumbersUpTo
<1>2. ASSUME NEW S \in SUBSET U, S # {}
      PROVE  \E i \in S : \A j \in S : j <= i
  <2>1. PICK d \in {n - s : s \in S} : \A c \in {n - s : s \in S} : d <= c
    <3>1. {n - s : s \in S} \in SUBSET Nat /\ {n - s : s \in S} # {}
      <4>1. \A s \in S : n - s \in Nat
        BY <1>0, <1>2
      <4>2. QED
        BY <1>2, <4>1
    <3>2. QED
      BY <3>1, LeastNumber
  <2>2. PICK i \in S : d = n - i
    BY <2>1
  <2>3. \A j \in S : j <= i
    <3>1. ASSUME NEW j \in S
          PROVE  j <= i
      <4>1. n - i <= n - j
        BY <2>1, <2>2
      <4>2. i \in U /\ j \in U
        BY <1>2
      <4>3. QED
        BY <1>0, <4>1, <4>2
    <3>2. QED
      BY <3>1
  <2>4. QED
    BY <2>3
<1>3. 0 \in T
  <2>1. ASSUME 0 < Cardinality(U)
        PROVE  \E i \in U : Cardinality(Above(i)) = 0
    <3>1. U # {}
      BY <2>1, FS_EmptySet
    <3>2. PICK i \in U : \A j \in U : j <= i
      BY <1>2, <3>1
    <3>3. Above(i) = {}
      BY <1>0, <3>2
    <3>4. QED
      BY <3>2, <3>3, FS_EmptySet
  <2>2. QED
    BY <2>1
<1>4. ASSUME NEW m \in Nat, m \in T
      PROVE  m + 1 \in T
  <2>1. ASSUME m + 1 < Cardinality(U)
        PROVE  \E i \in U : Cardinality(Above(i)) = m + 1
    <3>1. PICK i \in U : Cardinality(Above(i)) = m
      BY <1>1, <1>4, <2>1
    <3>. DEFINE Below == {j \in U : j < i}
    <3>2. Cardinality(Above(i) \cup {i}) = m + 1
      <4>1. IsFiniteSet(Above(i)) /\ i \notin Above(i)
        BY <1>0, <1>1
      <4>2. QED
        BY <3>1, <4>1, FS_AddElement
    <3>3. Below # {}
      <4>1. SUFFICES ASSUME Below = {} PROVE FALSE
        OBVIOUS
      <4>2. U = Above(i) \cup {i}
        BY <1>0, <4>1
      <4>3. QED
        BY <1>1, <2>1, <3>2, <4>2
    <3>4. PICK b \in Below : \A j \in Below : j <= b
      BY <1>2, <3>3
    <3>5. Above(b) = Above(i) \cup {i}
      <4>1. b \in U /\ i > b
        BY <1>0
      <4>2. ASSUME NEW j \in U
            PROVE  j > b <=> (j > i \/ j = i)
        <5>1. j < i => j <= b
          BY <3>4
        <5>2. QED
          BY <1>0, <4>1, <5>1
      <4>3. QED
        BY <4>1, <4>2
    <3>6. QED
      BY <3>2, <3>4, <3>5
  <2>2. QED
    BY <2>1
<1>. HIDE DEF T
<1>5. \A m \in Nat : m \in T
  BY <1>3, <1>4, NatInductionOnSets
<1>6. QED
  BY <1>5 DEF T

(* The message an edit looks for is there, and the edit leaves the numbers *)
(* and the roles.                                                          *)
LEMMA EditedIs ==
    ASSUME FilesTypes, NEW n \in Names, NEW k \in Nat,
           Cardinality(Users(files[n])) > k
    PROVE  /\ Parsed(files[n])
           /\ Edited(files[n], k) \in Seq(Messages)
           /\ Len(Edited(files[n], k)) = Len(files[n].messages)
           /\ \E i \in DOMAIN Edited(files[n], k) :
                Edited(files[n], k) = [files[n].messages EXCEPT ![i].edited = TRUE]
           /\ UsersOf(Edited(files[n], k)) = Users(files[n])
           /\ Ids(Edited(files[n], k)) = Ids(files[n].messages)
<1>1. Parsed(files[n])
  <2>1. ~Parsed(files[n]) => Users(files[n]) = {}
    BY FileKinds
  <2>2. Cardinality({}) = 0
    BY FS_EmptySet
  <2>3. QED
    BY <2>1, <2>2
<1>2. PICK m : m = files[n].messages
  OBVIOUS
<1>3. m \in Seq(Messages) /\ Users(files[n]) = UsersOf(m)
  BY <1>1, <1>2, FileKinds DEF FilesTypes
<1>4. DOMAIN m = 1..Len(m) /\ Len(m) \in Nat /\ UsersOf(m) \in SUBSET (1..Len(m))
  BY <1>3, LenProperties DEF UsersOf
<1>5. PICK i : i = At(files[n], k)
  OBVIOUS
<1>6. i \in UsersOf(m)
  <2>1. \E j \in UsersOf(m) : Cardinality({l \in UsersOf(m) : l > j}) = k
    BY <1>3, <1>4, PlaceFromTheEnd
  <2>2. QED
    BY <1>3, <1>5, <2>1 DEF At
<1>7. PICK e : e = Edited(files[n], k)
  OBVIOUS
<1>8. e = [m EXCEPT ![i].edited = TRUE] /\ i \in 1..Len(m)
  BY <1>2, <1>4, <1>5, <1>6, <1>7 DEF Edited
<1>9. /\ m[i] \in Messages /\ [m[i] EXCEPT !.edited = TRUE] \in Messages
      /\ [m[i] EXCEPT !.edited = TRUE].id = m[i].id
      /\ [m[i] EXCEPT !.edited = TRUE].role = m[i].role
  <2>1. m[i] \in Messages
    BY <1>3, <1>8, ElementOfSeq
  <2>2. QED
    BY <2>1 DEF Messages
<1>10. /\ e \in Seq(Messages) /\ Len(e) = Len(m) /\ DOMAIN e = DOMAIN m
       /\ e[i] = [m[i] EXCEPT !.edited = TRUE]
       /\ \A j \in DOMAIN m : j # i => e[j] = m[j]
  <2>1. /\ DOMAIN e = DOMAIN m /\ e[i] = [m[i] EXCEPT !.edited = TRUE]
        /\ \A j \in DOMAIN m : j # i => e[j] = m[j]
    BY <1>4, <1>8
  <2>2. e \in [1..Len(m) -> Messages]
    <3>1. \A j \in 1..Len(m) : m[j] \in Messages
      BY <1>3, ElementOfSeq
    <3>2. e = [j \in 1..Len(m) |-> e[j]]
      BY <1>4, <1>8
    <3>3. \A j \in 1..Len(m) : e[j] \in Messages
      BY <1>4, <1>9, <2>1, <3>1
    <3>4. QED
      BY <3>2, <3>3
  <2>3. e \in Seq(Messages)
    BY <1>4, <2>2
  <2>4. DOMAIN e = 1..Len(e) /\ Len(e) \in Nat
    BY <2>3, LenProperties
  <2>5. Len(e) = Len(m)
    BY <1>4, <2>1, <2>4
  <2>6. QED
    BY <2>1, <2>3, <2>5
<1>11. UsersOf(e) = UsersOf(m) /\ Ids(e) = Ids(m)
  BY <1>4, <1>8, <1>9, <1>10 DEF UsersOf, Ids, IsUser
<1>12. QED
  BY <1>1, <1>2, <1>3, <1>4, <1>7, <1>8, <1>10, <1>11

(* An edit begins.                                                         *)
LEMMA EditKeeps ==
    ASSUME FilesInv, FilesAssumption, Edit
    PROVE  FilesInv'
<1>1. FilesTypes /\ Sane /\ GoneForGood /\ TaskKnows
  BY DEF FilesInv
<1>2. PICK k \in 0..MaxMessages :
         \/ EditIn("main", k)
         \/ Cardinality(Users(files.main)) <= k /\ EditIn("bak", k)
  BY DEF Edit
<1>3. PICK n \in {"main", "bak"} :
         /\ EditIn(n, k)
         /\ n = "bak" => Cardinality(Users(files.main)) <= k
  BY <1>2
<1>4. n \in Names /\ k \in Nat /\ Cardinality(Users(files[n])) > k
  BY <1>3 DEF EditIn, Names, FilesAssumption
<1>5. PICK m : m = Edited(files[n], k)
  OBVIOUS
<1>6. /\ Idle /\ ~open /\ open' = open /\ memory' = memory /\ written' = written /\ gone' = gone
      /\ files' = files /\ damage' = damage /\ old' = Load /\ new' = m
      /\ todo' = WriteTo("main", m) /\ op' = "edit"
      /\ interrupted' = (interrupted /\ op \in {"crash", "damage"})
  BY <1>3, <1>5 DEF Edit, EditIn, Operation, WriteMessages
<1>7. /\ Parsed(files[n]) /\ m \in Seq(Messages)
      /\ Len(m) = Len(files[n].messages)
      /\ \E i \in DOMAIN m : m = [files[n].messages EXCEPT ![i].edited = TRUE]
      /\ UsersOf(m) = Users(files[n])
      /\ Ids(m) = Ids(files[n].messages)
  BY <1>1, <1>4, <1>5, EditedIs
<1>8. n = "bak" => ~(Parsed(files.main) /\ Users(files.bak) \subseteq Users(files.main))
  <2>1. SUFFICES ASSUME n = "bak", Parsed(files.main), Users(files.bak) \subseteq Users(files.main)
                 PROVE  FALSE
    OBVIOUS
  <2>2. IsFiniteSet(Users(files.main))
    <3>1. files.main.messages \in Seq(Messages)
      BY <1>1, <2>1, NameFacts, FileKinds DEF FilesTypes
    <3>2. Users(files.main) \subseteq 1..Len(files.main.messages) /\ Len(files.main.messages) \in Nat
      BY <2>1, <3>1, LenProperties, FileKinds DEF UsersOf
    <3>3. QED
      BY <3>2, NumbersUpTo
  <2>3. /\ Cardinality(Users(files.bak)) <= Cardinality(Users(files.main))
        /\ Cardinality(Users(files.bak)) \in Nat /\ Cardinality(Users(files.main)) \in Nat
    BY <2>1, <2>2, FS_Subset, FS_CardinalityType
  <2>4. QED
    BY <1>3, <1>4, <2>1, <2>3, NameFacts
<1>9. ~interrupted' => Ordered /\ NoOrphan
  BY <1>6, IdleFiles
<1>10. ~interrupted' => Load = files[n].messages
  <2>1. CASE n = "main"
    BY <1>7, <2>1, LoadIs, NameFacts
  <2>2. CASE n = "bak"
    <3>1. Parsed(files.bak)
      BY <1>7, <2>2, NameFacts
    <3>2. ~interrupted' => ~Parsed(files.main)
      BY <1>8, <1>9, <2>2, <3>1 DEF Ordered
    <3>3. QED
      BY <2>2, <3>1, <3>2, LoadIs, FileKinds, NameFacts
  <2>3. QED
    BY <2>1, <2>2
<1>11. EditTouchesOne'
  BY <1>6, <1>7, <1>10 DEF EditTouchesOne
<1>12. op' \in Writes /\ memory' = <<>>
  BY <1>1, <1>6 DEF Writes, TaskKnows
<1>13. Ids(new') \cap gone' = {} /\ new' \in Seq(Messages')
  <2>1. Read(files[n]) = files[n].messages
    BY <1>7, FileKinds
  <2>2. Ids(Read(files[n])) \cap gone = {}
    BY <1>1, <1>3, NameFacts DEF GoneForGood
  <2>3. QED
    BY <1>1, <1>6, <1>7, <2>1, <2>2, MessagesGrow
<1>14. Ids(memory') \cap gone' = {} /\ memory' \in Seq(Messages') /\ gone' \in SUBSET gone
       /\ open' \in BOOLEAN /\ written' \in {written, written + 1} /\ written' \in 0..MaxMessages
  <2>1. memory \in Seq(Messages') /\ Ids(memory) \cap gone = {}
    BY <1>1, <1>6, MessagesGrow DEF GoneForGood, FilesTypes
  <2>2. QED
    BY <1>1, <1>6, <2>1 DEF FilesTypes
<1>15. /\ BackupFirst' = <<Set("bak", files.main), Set("main", Whole(m))>>
       /\ LastWrite' = <<Set("main", Whole(m))>>
  BY <1>6 DEF BackupFirst, LastWrite
<1>16. /\ FilesTypes' /\ Writing' /\ WritesAtomic' /\ Clearing' /\ Deleting'
       /\ Sane' /\ GoneForGood' /\ todo' # <<>>
  <2>1. CASE Parsed(files.main)
    <3>1. todo' = BackupFirst'
      BY <1>1, <1>6, <1>15, <2>1, WriteToSteps, NameFacts
    <3>2. Users(files.main) \subseteq UsersOf(new')
      <4>1. CASE n = "main"
        BY <1>6, <1>7, <4>1, NameFacts
      <4>2. CASE n = "bak"
        BY <1>1, <1>7, <1>8, <2>1, <4>2, NameFacts DEF Sane
      <4>3. QED
        BY <4>1, <4>2
    <3>3. QED
      BY <1>6, <1>12, <1>13, <1>14, <2>1, <3>1, <3>2, WriteBegins
  <2>2. CASE ~Parsed(files.main)
    <3>1. todo' = LastWrite' /\ n = "bak"
      BY <1>1, <1>6, <1>7, <1>15, <2>2, WriteToSteps, NameFacts
    <3>2. Parsed(files.bak) /\ Users(files.bak) \subseteq UsersOf(new')
      BY <1>6, <1>7, <3>1, NameFacts
    <3>3. ~interrupted' => files.main # Absent
      <4>1. SUFFICES ASSUME ~interrupted', files.main = Absent PROVE FALSE
        OBVIOUS
      <4>2. files.bak # Absent
        BY <3>2, FileKinds
      <4>3. Read(files.bak) = <<>>
        BY <1>9, <4>1, <4>2 DEF NoOrphan
      <4>4. Users(files.bak) = {}
        BY <3>2, <4>3, FileKinds DEF UsersOf
      <4>5. QED
        BY <1>4, <3>1, <4>4, FS_EmptySet, NameFacts
    <3>4. QED
      BY <1>6, <1>12, <1>13, <1>14, <2>2, <3>1, <3>2, <3>3, WriteBegins
  <2>3. QED
    BY <2>1, <2>2
<1>17. TaskKnows'
  BY <1>6, <1>12, <1>16 DEF TaskKnows, Idle
<1>18. QED
  BY <1>11, <1>16, <1>17 DEF FilesInv

-----------------------------------------------------------------------------
(* A clear begins.                                                         *)
LEMMA ClearKeeps ==
    ASSUME FilesInv, FilesAssumption, Clear
    PROVE  FilesInv'
<1>1. FilesTypes /\ Sane /\ GoneForGood /\ TaskKnows
  BY DEF FilesInv
<1>2. PICK n : n = ClearedName
  OBVIOUS
<1>3. /\ n \in {"main", "flat"} /\ n \in Names
      /\ n = "flat" => files.main = Absent
      /\ n = "main" => files.main # Absent
  BY <1>2 DEF ClearedName, Names
<1>4. /\ Idle /\ ~open /\ files[n] # Absent
      /\ open' = open /\ memory' = memory /\ written' = written /\ gone' = gone
      /\ files' = files /\ damage' = damage /\ old' = Load /\ new' = <<>>
      /\ todo' = WriteTo(n, <<>>) \o PlainWrite("bak", <<>>) /\ op' = "clear"
      /\ interrupted' = (interrupted /\ op \in {"crash", "damage"})
  BY <1>2 DEF Clear, Operation, ClearedName
<1>5. ClearedName' = n /\ Load' = Load
  BY <1>2, <1>4 DEF ClearedName, Load, OnlyFlat
<1>6. ~interrupted' => NoOrphan'
  BY <1>4, IdleFiles DEF NoOrphan
<1>7. \/ /\ Parsed(files[n])
         /\ todo' = <<Set("bak", files[n]), Set(n, Whole(<<>>)),
                      Set("bak", Torn), Set("bak", Whole(<<>>))>>
      \/ /\ ~Parsed(files[n])
         /\ todo' = <<Set(n, Whole(<<>>)), Set("bak", Torn), Set("bak", Whole(<<>>))>>
  BY <1>1, <1>3, <1>4, ClearSteps
<1>8. n = "flat" => Parsed(files[n])
  <2>1. files["flat"] \in Files /\ files["flat"] # Torn
    BY <1>1, NameFacts DEF FilesTypes
  <2>2. QED
    BY <1>4, <2>1, FileKinds
<1>9. ClearStage'
  BY <1>4, <1>5, <1>6, <1>7, <1>8 DEF ClearStage
<1>10. Clearing' /\ todo' # <<>>
  BY <1>4, <1>7, <1>9 DEF Clearing
<1>11. Writing' /\ WritesAtomic' /\ Deleting' /\ EditTouchesOne'
  BY <1>4 DEF Writing, WritesAtomic, Deleting, EditTouchesOne, Writes
<1>12. TaskKnows'
  BY <1>1, <1>4, <1>10 DEF TaskKnows, Idle, Wipes
<1>13. Sane'
  BY <1>1, <1>4, <1>10 DEF Sane, Idle, Writes
<1>14. Messages' = Messages /\ Files' = Files
  BY <1>4 DEF Messages, Files
<1>15. /\ todo' \in Seq([name : Names, file : Files])
       /\ \A i \in DOMAIN todo' : Ids(Read(todo'[i].file)) \cap gone = {}
  <2>1. Ids(<<>>) = {} /\ <<>> \in Seq(Messages)
    BY DEF Ids
  <2>2. Whole(<<>>) \in Files /\ Torn \in Files /\ files[n] \in Files
    BY <1>1, <1>3, <2>1 DEF Files, FilesTypes
  <2>3. /\ Ids(Read(files[n])) \cap gone = {}
        /\ Ids(Read(Whole(<<>>))) \cap gone = {} /\ Ids(Read(Torn)) \cap gone = {}
    <3>1. Ids(Read(files[n])) \cap gone = {}
      BY <1>1, <1>3, <1>4, IdleFiles, NameFacts DEF GoneForGood
    <3>2. QED
      BY <2>1, <3>1, FileKinds
  <2>4. \A k \in Names, f \in Files :
            /\ Set(k, f) \in [name : Names, file : Files]
            /\ Set(k, f).file = f
    BY DEF Set
  <2>5. CASE todo' = <<Set("bak", files[n]), Set(n, Whole(<<>>)),
                      Set("bak", Torn), Set("bak", Whole(<<>>))>>
    BY <1>3, <2>2, <2>3, <2>4, <2>5, NameFacts
  <2>6. CASE todo' = <<Set(n, Whole(<<>>)), Set("bak", Torn), Set("bak", Whole(<<>>))>>
    BY <1>3, <2>2, <2>3, <2>4, <2>6, NameFacts
  <2>7. QED
    BY <1>7, <2>5, <2>6
<1>16. FilesTypes'
  <2>1. Load \in Seq(Messages) /\ <<>> \in Seq(Messages) /\ interrupted' \in BOOLEAN
    BY <1>1, <1>4, LoadTypes DEF FilesTypes
  <2>2. op' \in {"none", "crash", "damage"} \cup Writes \cup Wipes
    BY <1>4 DEF Wipes
  <2>3. QED
    BY <1>1, <1>4, <1>14, <1>15, <2>1, <2>2 DEF FilesTypes
<1>17. GoneForGood'
  BY <1>1, <1>4, <1>15, IdleFiles DEF GoneForGood
<1>18. QED
  BY <1>10, <1>11, <1>12, <1>13, <1>16, <1>17 DEF FilesInv

(* A delete begins.                                                        *)
LEMMA DeleteKeeps ==
    ASSUME FilesInv, FilesAssumption, Delete
    PROVE  FilesInv'
<1>1. FilesTypes /\ Sane /\ GoneForGood /\ TaskKnows
  BY DEF FilesInv
<1>2. /\ Idle /\ ~open
      /\ open' = open /\ memory' = memory /\ written' = written /\ gone' = gone
      /\ files' = files /\ damage' = damage /\ old' = Load /\ new' = <<>>
      /\ op' = "delete"
      /\ interrupted' = (interrupted /\ op \in {"crash", "damage"})
  BY DEF Delete, Operation
<1>3. \/ todo' = <<Set("main", Absent), Set("bak", Absent), Set("dir", Absent), Set("flat", Absent)>>
      \/ todo' = <<Set("bak", Absent), Set("main", Absent), Set("dir", Absent), Set("flat", Absent)>>
  BY DEF Delete, Operation
<1>4. DeleteStage'
  BY <1>3 DEF DeleteStage
<1>5. Deleting' /\ todo' # <<>>
  BY <1>2, <1>3, <1>4 DEF Deleting
<1>6. Writing' /\ WritesAtomic' /\ Clearing' /\ EditTouchesOne'
  BY <1>2 DEF Writing, WritesAtomic, Clearing, EditTouchesOne, Writes
<1>7. TaskKnows'
  BY <1>1, <1>2, <1>5 DEF TaskKnows, Idle, Wipes
<1>8. Sane'
  BY <1>1, <1>2, <1>5 DEF Sane, Idle, Writes
<1>9. Messages' = Messages /\ Files' = Files
  BY <1>2 DEF Messages, Files
<1>10. /\ todo' \in Seq([name : Names, file : Files])
       /\ \A i \in DOMAIN todo' : Ids(Read(todo'[i].file)) \cap gone = {}
  <2>1. Absent \in Files /\ Ids(Read(Absent)) = {}
    BY FileKinds DEF Files, Ids
  <2>2. \A k \in Names : /\ Set(k, Absent) \in [name : Names, file : Files]
                         /\ Set(k, Absent).file = Absent
    BY <2>1 DEF Set
  <2>3. CASE todo' = <<Set("main", Absent), Set("bak", Absent), Set("dir", Absent), Set("flat", Absent)>>
    BY <2>1, <2>2, <2>3, NameFacts
  <2>4. CASE todo' = <<Set("bak", Absent), Set("main", Absent), Set("dir", Absent), Set("flat", Absent)>>
    BY <2>1, <2>2, <2>4, NameFacts
  <2>5. QED
    BY <1>3, <2>3, <2>4
<1>11. FilesTypes'
  <2>1. Load \in Seq(Messages) /\ <<>> \in Seq(Messages) /\ interrupted' \in BOOLEAN
    BY <1>1, <1>2, LoadTypes DEF FilesTypes
  <2>2. op' \in {"none", "crash", "damage"} \cup Writes \cup Wipes
    BY <1>2 DEF Wipes
  <2>3. QED
    BY <1>1, <1>2, <1>9, <1>10, <2>1, <2>2 DEF FilesTypes
<1>12. GoneForGood'
  BY <1>1, <1>2, <1>10 DEF GoneForGood
<1>13. QED
  BY <1>5, <1>6, <1>7, <1>8, <1>11, <1>12 DEF FilesInv

(* A task ends.                                                            *)
LEMMA CloseKeeps ==
    ASSUME FilesInv, Close
    PROVE  FilesInv'
<1>1. FilesTypes /\ Writing /\ WritesAtomic /\ TaskKnows /\ Sane /\ GoneForGood
  BY DEF FilesInv
<1>2. /\ Idle /\ open /\ open' = FALSE /\ memory' = <<>>
      /\ files' = files /\ todo' = todo /\ op' = op /\ written' = written /\ damage' = damage
      /\ old' = old /\ new' = new /\ interrupted' = interrupted /\ gone' = gone
  BY DEF Close, fileVars, histVars
<1>3. op \notin {"clear", "delete", "edit"}
  BY <1>1, <1>2 DEF TaskKnows
<1>4. Clearing' /\ Deleting' /\ EditTouchesOne'
  BY <1>2, <1>3 DEF Clearing, Deleting, EditTouchesOne
<1>5. Load' = Load /\ LastWrite' = LastWrite /\ BackupFirst' = BackupFirst
      /\ EmptyFirst' = EmptyFirst /\ FolderFirst' = FolderFirst
  BY <1>2 DEF Load, OnlyFlat, LastWrite, BackupFirst, EmptyFirst, FolderFirst
<1>6. Writing'
  BY <1>1, <1>2, <1>5 DEF Writing, WriteStage
<1>7. WritesAtomic'
  BY <1>1, <1>2, <1>5 DEF WritesAtomic, Idle
<1>8. TaskKnows'
  BY <1>2 DEF TaskKnows, Idle
<1>9. Sane'
  BY <1>1, <1>2 DEF Sane, Ordered, NoOrphan, Idle
<1>10. Messages' = Messages /\ Files' = Files
  BY <1>2 DEF Messages, Files
<1>11. FilesTypes'
  <2>1. <<>> \in Seq(Messages)
    OBVIOUS
  <2>2. QED
    BY <1>1, <1>2, <1>10, <2>1 DEF FilesTypes
<1>12. Ids(<<>>) = {}
  BY DEF Ids
<1>13. GoneForGood'
  BY <1>1, <1>2, <1>12 DEF GoneForGood
<1>14. QED
  BY <1>4, <1>6, <1>7, <1>8, <1>9, <1>11, <1>13 DEF FilesInv

(* The process is killed.                                                  *)
LEMMA CrashKeeps ==
    ASSUME FilesInv, Crash
    PROVE  FilesInv'
<1>1. FilesTypes /\ TaskKnows /\ Sane /\ GoneForGood
  BY DEF FilesInv
<1>2. /\ todo' = <<>> /\ op' = "crash" /\ open' = FALSE /\ memory' = <<>>
      /\ old' = Load /\ new' = Load
      /\ files' = files /\ written' = written /\ damage' = damage
  BY DEF Crash
<1>3. /\ ~Idle /\ op \in Wipes => interrupted' = TRUE /\ gone' = gone \ Ids(Read(files.flat))
      /\ Idle \/ op \notin Wipes => interrupted' = interrupted /\ gone' = gone
  <2>1. interrupted \in BOOLEAN
    BY <1>1 DEF FilesTypes
  <2>2. CASE ~Idle /\ op \in Wipes
    BY <2>1, <2>2 DEF Crash, Wipes
  <2>3. CASE Idle \/ op \notin Wipes
    BY <2>1, <2>3 DEF Crash, Wipes
  <2>4. QED
    BY <2>2, <2>3
<1>4. Writing' /\ WritesAtomic' /\ Clearing' /\ Deleting' /\ EditTouchesOne'
  BY <1>2 DEF Writing, WritesAtomic, Clearing, Deleting, EditTouchesOne, Writes
<1>5. TaskKnows'
  BY <1>2 DEF TaskKnows, Idle
<1>6. Sane'
  <2>1. ~interrupted' => Ordered /\ NoOrphan
    BY <1>1, <1>3 DEF Sane, TaskKnows
  <2>2. (Ordered' <=> Ordered) /\ (NoOrphan' <=> NoOrphan)
    BY <1>2 DEF Ordered, NoOrphan
  <2>3. QED
    BY <1>1, <1>2, <2>1, <2>2 DEF Sane
<1>7. Messages' = Messages /\ Files' = Files
  BY <1>2 DEF Messages, Files
<1>8. FilesTypes'
  <2>1. <<>> \in Seq(Messages) /\ <<>> \in Seq([name : Names, file : Files])
    OBVIOUS
  <2>2. Load \in Seq(Messages)
    BY <1>1, LoadTypes
  <2>3. interrupted' \in BOOLEAN
    BY <1>1, <1>3 DEF FilesTypes
  <2>4. gone' \in SUBSET (0..written)
    BY <1>1, <1>3 DEF FilesTypes
  <2>5. QED
    BY <1>1, <1>2, <1>7, <2>1, <2>2, <2>3, <2>4 DEF FilesTypes
<1>9. GoneForGood'
  <2>1. Ids(<<>>) = {} /\ gone' \subseteq gone
    BY <1>3 DEF Ids
  <2>2. files.main = Absent => Ids(Read(files.flat)) \cap gone' = {}
    BY <1>3, IdleFiles DEF GoneForGood, FilesInv, Wipes
  <2>3. QED
    BY <1>1, <1>2, <2>1, <2>2 DEF GoneForGood
<1>10. QED
  BY <1>4, <1>5, <1>6, <1>8, <1>9 DEF FilesInv

(* The main file is damaged.                                               *)
LEMMA DamageKeeps ==
    ASSUME FilesInv, FilesAssumption, Damage
    PROVE  FilesInv'
<1>1. FilesTypes /\ TaskKnows /\ Sane /\ GoneForGood
  BY DEF FilesInv
<1>2. /\ Idle /\ Parsed(files.main) /\ damage < MaxDamage /\ damage' = damage + 1
      /\ files' = [files EXCEPT !["main"] = Torn] /\ op' = "damage"
      /\ todo' = todo /\ open' = open /\ memory' = memory /\ written' = written
      /\ old' = old /\ new' = new /\ interrupted' = interrupted /\ gone' = gone
  BY DEF Damage, histVars
<1>3. /\ files'.main = Torn /\ files'.bak = files.bak /\ files'.flat = files.flat
      /\ files'["named"] = files["named"]
  BY <1>1, <1>2, NameFacts DEF Names, FilesTypes
<1>4. files.main # Absent /\ files'.main # Absent /\ ~Parsed(files'.main)
  BY <1>2, <1>3, FileKinds
<1>5. Writing' /\ WritesAtomic' /\ Clearing' /\ Deleting' /\ EditTouchesOne'
  BY <1>2 DEF Writing, WritesAtomic, Clearing, Deleting, EditTouchesOne, Writes
<1>6. TaskKnows'
  BY <1>1, <1>2, <1>3, <1>4 DEF TaskKnows, Idle
<1>7. Sane'
  BY <1>4 DEF Sane, Ordered, NoOrphan
<1>8. Messages' = Messages /\ Files' = Files /\ Torn \in Files
  BY <1>2 DEF Messages, Files
<1>9. FilesTypes'
  <2>1. files' \in [Names -> Files]
    BY <1>1, <1>2, <1>8 DEF FilesTypes
  <2>2. damage' \in 0..MaxDamage
    BY <1>1, <1>2 DEF FilesTypes, FilesAssumption
  <2>3. QED
    BY <1>1, <1>2, <1>3, <1>8, <2>1, <2>2, NameFacts DEF FilesTypes
<1>10. GoneForGood'
  <2>1. Ids(Read(Torn)) = {}
    BY FileKinds DEF Ids
  <2>2. QED
    BY <1>1, <1>2, <1>3, <1>4, <2>1 DEF GoneForGood
<1>11. QED
  BY <1>5, <1>6, <1>7, <1>9, <1>10 DEF FilesInv

(* At the start there are only files of the last version.                  *)
LEMMA InitKeeps ==
    ASSUME FilesAssumption, FilesInit
    PROVE  FilesInv
<1>1. PICK flat \in OldFlat, named \in OldFlat :
           files = [main |-> Absent, bak |-> Absent, dir |-> Absent,
                    flat |-> flat, named |-> named]
  BY DEF FilesInit
<1>2. /\ todo = <<>> /\ op = "none" /\ open = FALSE /\ memory = <<>> /\ written = 0
      /\ damage = 0 /\ old = <<>> /\ new = <<>> /\ interrupted = FALSE /\ gone = {}
  BY DEF FilesInit
<1>3. \A f \in OldFlat : f \in Files /\ f # Torn
  <2>1. Message(0, "user") \in Messages
    BY <1>2 DEF Message, Messages
  <2>2. <<Message(0, "user")>> \in Seq(Messages)
    BY <2>1
  <2>3. QED
    BY <2>2, FileKinds DEF OldFlat, Files
<1>4. /\ files \in [Names -> Files] /\ files["flat"] = flat /\ files["named"] = named
      /\ files.main = Absent /\ files.bak = Absent
  <2>1. Absent \in Files
    BY DEF Files
  <2>2. QED
    BY <1>1, <1>3, <2>1 DEF Names
<1>5. FilesTypes
  <2>1. <<>> \in Seq(Messages) /\ <<>> \in Seq([name : Names, file : Files])
    OBVIOUS
  <2>2. written \in 0..MaxMessages /\ damage \in 0..MaxDamage
    BY <1>2 DEF FilesAssumption
  <2>3. open \in BOOLEAN /\ interrupted \in BOOLEAN /\ gone \in SUBSET (0..written)
    BY <1>2
  <2>4. files["flat"] # Torn /\ files["named"] # Torn
    BY <1>3, <1>4
  <2>5. QED
    BY <1>2, <1>4, <2>1, <2>2, <2>3, <2>4 DEF FilesTypes
<1>6. Writing /\ WritesAtomic /\ Clearing /\ Deleting /\ EditTouchesOne
  BY <1>2 DEF Writing, WritesAtomic, Clearing, Deleting, EditTouchesOne, Writes
<1>7. TaskKnows /\ Sane
  BY <1>2, <1>4, FileKinds DEF TaskKnows, Sane, Ordered, NoOrphan, Idle
<1>8. GoneForGood
  BY <1>2 DEF GoneForGood, Ids
<1>9. QED
  BY <1>5, <1>6, <1>7, <1>8 DEF FilesInv

-----------------------------------------------------------------------------
(* Whatever is written, cleared, deleted, edited, damaged and cut short,   *)
(* the files are at a known step of a known operation.                     *)
THEOREM FilesInvariant == FilesSpec => []FilesInv
<1>1. FilesInit => FilesInv
  BY InitKeeps, FilesAssumption
<1>2. FilesInv /\ [FilesNext]_allVars => FilesInv'
  <2>. SUFFICES ASSUME FilesInv, [FilesNext]_allVars
                PROVE  FilesInv'
    OBVIOUS
  <2>1. CASE Begin
    BY <2>1, BeginKeeps, FilesAssumption
  <2>2. CASE Persist
    BY <2>2, PersistKeeps, FilesAssumption
  <2>3. CASE Close
    BY <2>3, CloseKeeps
  <2>4. CASE Clear
    BY <2>4, ClearKeeps, FilesAssumption
  <2>5. CASE Delete
    BY <2>5, DeleteKeeps, FilesAssumption
  <2>6. CASE Edit
    BY <2>6, EditKeeps, FilesAssumption
  <2>7. CASE Step
    <3>1. op \in Writes \cup Wipes
      BY <2>7 DEF FilesInv, TaskKnows, Step
    <3>2. QED
      BY <2>7, <3>1, StepOfWrite, StepOfClear, StepOfDelete DEF Wipes
  <2>8. CASE Crash
    BY <2>8, CrashKeeps
  <2>9. CASE Damage
    BY <2>9, DamageKeeps, FilesAssumption
  <2>10. CASE UNCHANGED allVars
    <3>1. /\ files' = files /\ todo' = todo /\ op' = op /\ open' = open /\ memory' = memory
          /\ written' = written /\ damage' = damage /\ old' = old /\ new' = new
          /\ interrupted' = interrupted /\ gone' = gone
      BY <2>10 DEF allVars, fileVars, histVars
    <3>2. Load' = Load /\ (Idle' <=> Idle) /\ LastWrite' = LastWrite /\ (OnlyFlat' <=> OnlyFlat)
      BY <3>1 DEF Load, OnlyFlat, Idle, LastWrite
    <3>3. FilesTypes'
      BY <3>1 DEF FilesInv, FilesTypes, Messages, Files
    <3>4. Writing' /\ WritesAtomic'
      BY <3>1, <3>2 DEF FilesInv, Writing, WriteStage, BackupFirst, EmptyFirst, FolderFirst,
                        WritesAtomic
    <3>5. Clearing' /\ Deleting'
      <4>1. ClearedName' = ClearedName /\ (NoOrphan' <=> NoOrphan)
        BY <3>1 DEF ClearedName, NoOrphan
      <4>2. (ClearStage' <=> ClearStage) /\ (DeleteStage' <=> DeleteStage)
        BY <3>1, <3>2, <4>1 DEF ClearStage, DeleteStage
      <4>3. QED
        BY <3>1, <4>2 DEF FilesInv, Clearing, Deleting
    <3>6. TaskKnows' /\ Sane' /\ GoneForGood' /\ EditTouchesOne'
      BY <3>1, <3>2 DEF FilesInv, TaskKnows, Sane, Ordered, NoOrphan, GoneForGood, EditTouchesOne
    <3>7. QED
      BY <3>3, <3>4, <3>5, <3>6 DEF FilesInv
  <2>11. QED
    BY <2>1, <2>2, <2>3, <2>4, <2>5, <2>6, <2>7, <2>8, <2>9, <2>10 DEF FilesNext
<1>3. QED
  BY <1>1, <1>2, PTL DEF FilesSpec

(* A write, an edit or a clear is atomic to whoever reads the session,     *)
(* even if it is killed half way (OldOrNew).                               *)
THEOREM WritesAreAtomic == FilesSpec => []OldOrNew
<1>1. FilesInv => OldOrNew
  <2>. SUFFICES ASSUME FilesInv PROVE OldOrNew
    OBVIOUS
  <2>1. FilesTypes /\ Writing /\ WritesAtomic /\ Clearing /\ Deleting /\ TaskKnows
    BY DEF FilesInv
  <2>2. \A f \in Files : IsFile(f)
    <3>1. ASSUME NEW f \in Files, f # Absent, f # Torn
          PROVE  IsFile(f)
      <4>1. f = Whole(f.messages) /\ f.messages \in Seq(Messages)
        BY <3>1, FileKinds
      <4>2. f.is = "whole"
        BY <4>1, FileKinds DEF Parsed
      <4>3. \A i \in DOMAIN f.messages : f.messages[i] \in Messages
        BY <4>1, ElementOfSeq, LenProperties
      <4>4. Messages \subseteq [id : 0..MaxMessages, role : {"user", "assistant"}, edited : BOOLEAN]
        BY <2>1, FilesAssumption DEF Messages, FilesTypes, FilesAssumption
      <4>5. QED
        BY <4>2, <4>3, <4>4 DEF IsFile
    <3>2. QED
      BY <3>1 DEF IsFile
  <2>3. FilesTypeOK
    <3>1. \A n \in DOMAIN files : IsFile(files[n])
      BY <2>1, <2>2 DEF FilesTypes
    <3>2. \A i \in DOMAIN todo : todo[i].name \in DOMAIN files /\ IsFile(todo[i].file)
      <4>1. \A i \in DOMAIN todo : todo[i] \in [name : Names, file : Files]
        BY <2>1, ElementOfSeq, LenProperties DEF FilesTypes
      <4>2. DOMAIN files = Names
        BY <2>1 DEF FilesTypes
      <4>3. QED
        BY <2>2, <4>1, <4>2
    <3>3. op \in {"none", "write", "migrate", "clear", "delete", "edit", "crash", "damage"}
      BY <2>1 DEF FilesTypes, Writes, Wipes
    <3>4. gone \subseteq 0..MaxMessages
      BY <2>1, FilesAssumption DEF FilesTypes, FilesAssumption
    <3>5. open /\ Idle => files.main # Absent
      BY <2>1 DEF TaskKnows
    <3>6. QED
      BY <2>1, <3>1, <3>2, <3>3, <3>4, <3>5 DEF FilesTypes, FilesTypeOK
  <2>4. op \in Writes /\ Idle => Load = new
    <3>1. op \in Writes /\ Idle => files.main = Whole(new)
      BY <2>1 DEF Writing, WriteStage, Idle, LastWrite, BackupFirst, EmptyFirst, FolderFirst
    <3>2. QED
      BY <3>1, FileKinds, LoadIs
  <2>5. op = "clear" => (~interrupted => Load \in {old, new}) /\ (Idle => Load = new)
    <3>1. SUFFICES ASSUME op = "clear"
                   PROVE  (~interrupted => Load \in {old, new}) /\ (Idle => Load = new)
      OBVIOUS
    <3>2. ClearStage /\ new = <<>>
      BY <2>1, <3>1 DEF Clearing
    <3>3. /\ ClearedName = "main" => files.main # Absent
          /\ ClearedName = "flat" => files.main = Absent
          /\ ClearedName \in {"main", "flat"}
      BY DEF ClearedName
    <3>4. files[ClearedName] = Whole(<<>>) /\ files.bak \in {Torn, Whole(<<>>)} => Load = <<>>
      BY <3>3, FileKinds, LoadIs, NameFacts
    <3>5. QED
      BY <3>2, <3>4 DEF ClearStage, Idle
  <2>6. op = "delete" /\ Idle => Load = new
    <3>1. op = "delete" /\ Idle => OnlyFlat /\ files.flat = Absent /\ new = <<>>
      BY <2>1 DEF Deleting, DeleteStage, Idle
    <3>2. QED
      BY <3>1, FileKinds, LoadIs DEF OnlyFlat
  <2>7. op \in {"write", "edit"} /\ ~interrupted => Load \in {old, new}
    BY <2>1, <2>4 DEF WritesAtomic, Writes
  <2>8. QED
    BY <2>3, <2>4, <2>5, <2>6, <2>7 DEF OldOrNew, Writes
<1>2. QED
  BY <1>1, FilesInvariant, PTL

(* A damaged main file costs the last write, and what was cleared or       *)
(* deleted is in no file that Load may fall back on (DamageCostsOneWrite). *)
THEOREM BackupIsOneBehind == FilesSpec => []DamageCostsOneWrite
<1>1. FilesInv => DamageCostsOneWrite
  <2>. SUFFICES ASSUME FilesInv, Idle, ~interrupted
                PROVE  /\ op \in {"write", "edit"} /\ Parsed(files.bak) => files.bak.messages = old
                       /\ \A name \in {"main", "bak"} : Ids(Read(files[name])) \cap gone = {}
                       /\ Ids(Load) \cap gone = {}
    BY DEF DamageCostsOneWrite
  <2>1. op \in {"write", "edit"} /\ Parsed(files.bak) => files.bak.messages = old
    BY DEF FilesInv, WritesAtomic, Writes, Idle
  <2>2. \A name \in {"main", "bak"} : Ids(Read(files[name])) \cap gone = {}
    BY NameFacts DEF FilesInv, GoneForGood
  <2>3. QED
    BY <2>1, <2>2, IdleFiles
<1>2. QED
  BY <1>1, FilesInvariant, PTL

(* An edit changes one message of what the session read, and never writes  *)
(* an older conversation back (EditTouchesOne).                            *)
THEOREM EditsTouchOne == FilesSpec => []EditTouchesOne
<1>1. FilesInv => EditTouchesOne
  BY DEF FilesInv
<1>2. QED
  BY <1>1, FilesInvariant, PTL
=============================================================================
