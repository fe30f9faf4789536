---------------------------- MODULE SessionFiles ----------------------------
(***************************************************************************)
(* The files of one session (src/main/agent/session/): messages.json and   *)
(* its backup, written step by step, with a process that may be killed     *)
(* between any two steps, and a main file that may be damaged.             *)
(*                                                                         *)
(* AgentRuns takes a stored session for a list that is read and replaced   *)
(* at once.  This module is what that rests on: what Load returns.  From   *)
(* AgentRuns it takes that a clear, a delete or an edit meets no running   *)
(* task of its session.  Every operation is synchronous code, so nothing   *)
(* but a crash comes between its steps.                                    *)
(*                                                                         *)
(* Versions of the program before this layout kept a session in one flat   *)
(* file, <id>.json, which is still read, cleared and deleted; and a caller *)
(* may still name its session as it did then, when a run that finds its    *)
(* session empty reads the flat file of that name instead.                 *)
(*                                                                         *)
(* Left out: info.json, run.jsonl, SYSTEM.md (nothing reads them back for  *)
(* the conversation) and the temporary files a crash leaves behind.        *)
(***************************************************************************)
EXTENDS Naturals, Sequences, FiniteSets, SequencesExt

CONSTANTS
    MaxMessages,    \* bound: messages ever written
    MaxDamage       \* bound: times the main file is damaged

ASSUME FilesAssumption == MaxMessages \in Nat /\ MaxDamage \in Nat

VARIABLES
    files,          \* main is messages.json, bak its backup, dir the folder
                    \* they are in, flat <id>.json, named the flat file of
                    \* an old name of the session
    todo,           \* steps on files the operation under way has still to do
    op,             \* the operation under way, or the last one
    open,           \* a task has the session open
    memory,         \* its session.messages
    written,        \* messages written so far; they number the messages
    damage,         \* times the main file was damaged
    old,            \* history: what Load returned when op began
    new,            \* history: what Load is to return when op is done
    interrupted,    \* history: op is the first operation to begin since a
                    \* clear or a delete was cut short, or none has yet
    gone            \* history: messages a clear or a delete took away

fileVars == <<files, todo>>
histVars == <<old, new, interrupted, gone>>
allVars == <<files, todo, op, open, memory, written, damage, histVars>>

-----------------------------------------------------------------------------
(* A file is absent, not a JSON array of messages (torn), or whole.        *)
Absent == [is |-> "absent"]
Torn == [is |-> "torn"]
Whole(messages) == [is |-> "whole", messages |-> messages]

Message(n, role) == [id |-> n, role |-> role, edited |-> FALSE]

IsUser(m) == m.role = "user"

(* parseMessages.                                                          *)
Parsed(file) == file.is = "whole"

Read(file) == IF Parsed(file) THEN file.messages ELSE <<>>

(* loadMessagesBySessionId: the main file, else the backup; the flat file  *)
(* if there is neither.                                                    *)
OnlyFlat == files.main = Absent /\ files.bak = Absent

Load ==
    IF OnlyFlat THEN Read(files.flat)
    ELSE IF Parsed(files.main) THEN files.main.messages
    ELSE Read(files.bak)

(* atomicWriteFile: a rename.  writeFileSync: truncation, then content.    *)
Set(name, file) == [name |-> name, file |-> file]
AtomicWrite(name, messages) == <<Set(name, Whole(messages))>>
PlainWrite(name, messages) == <<Set(name, Torn), Set(name, Whole(messages))>>

(* Wrong variant of writeMessagesFile: in place, the backup afterwards.    *)
WriteInPlace(messages) ==
    PlainWrite("main", messages)
        \o (IF Parsed(files.main) THEN AtomicWrite("bak", files.main.messages) ELSE <<>>)

(* writeMessagesFile: the main file, if it can be read, becomes the backup *)
(* first.                                                                  *)
WriteTo(name, messages) ==
    (IF Parsed(files[name]) THEN AtomicWrite("bak", files[name].messages) ELSE <<>>)
        \o AtomicWrite(name, messages)

WriteMessages(messages) == WriteTo("main", messages)

(* persist: ensureSession makes the folder, and an empty main file if      *)
(* there is none.                                                          *)
PersistSteps(messages) ==
    IF files.main = Absent
    THEN AtomicWrite("dir", <<>>) \o AtomicWrite("main", <<>>)
             \o AtomicWrite("bak", <<>>) \o AtomicWrite("main", messages)
    ELSE WriteMessages(messages)

(* The flat files of the last version, with one message each.              *)
OldFlat == {Absent, Whole(<<Message(0, "user")>>)}

FilesInit ==
    /\ \E flat, named \in OldFlat :
           files = [main |-> Absent, bak |-> Absent, dir |-> Absent,
                    flat |-> flat, named |-> named]
    /\ todo = <<>>
    /\ op = "none"
    /\ open = FALSE
    /\ memory = <<>>
    /\ written = 0
    /\ damage = 0
    /\ old = <<>>
    /\ new = <<>>
    /\ interrupted = FALSE
    /\ gone = {}

Idle == todo = <<>>

(* An operation begins: it will do these steps, after which the session is *)
(* to read as messages.                                                    *)
Operation(name, steps, messages) ==
    /\ Idle
    /\ todo' = steps
    /\ op' = name
    /\ old' = Load
    /\ new' = messages
    /\ interrupted' = (interrupted /\ op \in {"crash", "damage"})
    /\ UNCHANGED <<files, damage>>

Ids(messages) == {messages[i].id : i \in DOMAIN messages}

(* init() of a run, called with the id of the session or with its old      *)
(* name.  (sanitizeMessages drops empty answers: none is ever written.)    *)
Begin ==
    /\ ~open
    /\ written < MaxMessages
    /\ written' = written + 1
    /\ open' = TRUE
    /\ \E byName \in BOOLEAN :
         LET renamed == byName /\ Load = <<>>
             stored == IF renamed THEN Read(files.named) ELSE Load
         IN  /\ memory' = Append(stored, Message(written + 1, "user"))
             /\ gone' = IF renamed THEN gone \ Ids(stored) ELSE gone
    /\ Operation(IF Load # <<>> /\ OnlyFlat THEN "migrate" ELSE "write",
                 PersistSteps(memory'), memory')

(* addAssistantMessage and addToolResults.                                 *)
Persist ==
    /\ open
    /\ \/ /\ written < MaxMessages
          /\ written' = written + 1
          /\ memory' = Append(memory, Message(written + 1, "assistant"))
       \/ UNCHANGED <<memory, written>>
    /\ Operation("write", PersistSteps(memory'), memory')
    /\ UNCHANGED <<open, gone>>

(* The task ends.                                                          *)
Close ==
    /\ open
    /\ Idle
    /\ open' = FALSE
    /\ memory' = <<>>
    /\ UNCHANGED <<fileVars, op, written, damage, histVars>>

(* Wrong variant of Clear: it leaves the backup that its write made.       *)
ClearMainOnly ==
    /\ ~open
    /\ files.main # Absent
    /\ Operation("clear", WriteMessages(<<>>), <<>>)
    /\ UNCHANGED <<open, memory, written, gone>>

(* clearMessagesBySessionId: the main file, or the flat one, is emptied;   *)
(* nothing is done if there is neither.  (Where only the flat file is, the *)
(* backup cannot be written without the folder: an error, and no change.)  *)
Clear ==
    /\ ~open
    /\ LET name == IF files.main # Absent THEN "main" ELSE "flat"
       IN  /\ files[name] # Absent /\ files.dir # Absent
           /\ Operation("clear", WriteTo(name, <<>>) \o PlainWrite("bak", <<>>), <<>>)
    /\ UNCHANGED <<open, memory, written, gone>>

(* deleteSessionBySessionId: rmSync takes the files in any order, then     *)
(* the folder; then the flat file.                                         *)
Delete ==
    /\ ~open
    /\ \E first \in {"main", "bak"} :
         LET second == IF first = "main" THEN "bak" ELSE "main"
         IN  Operation("delete", <<Set(first, Absent), Set(second, Absent),
                                   Set("dir", Absent), Set("flat", Absent)>>, <<>>)
    /\ UNCHANGED <<open, memory, written, gone>>

Users(file) == IF Parsed(file) THEN {i \in DOMAIN file.messages : IsUser(file.messages[i])} ELSE {}

(* The place of the user message at an offset from the end.                *)
At(file, offset) ==
    CHOOSE i \in Users(file) : Cardinality({j \in Users(file) : j > i}) = offset

Edited(file, offset) == [file.messages EXCEPT ![At(file, offset)].edited = TRUE]

EditIn(name, offset) ==
    /\ Cardinality(Users(files[name])) > offset
    /\ Operation("edit", WriteMessages(Edited(files[name], offset)), Edited(files[name], offset))
    /\ UNCHANGED <<open, memory, written, gone>>

(* Wrong variant of Edit: the candidates in the wrong order.               *)
EditBackupFirst ==
    /\ ~open
    /\ \E offset \in 0..MaxMessages :
         \/ EditIn("bak", offset)
         \/ Cardinality(Users(files.bak)) <= offset /\ EditIn("main", offset)

(* updateUserMessageBySessionId: a candidate that cannot be parsed, or has *)
(* not so many user messages, is passed over.                              *)
Edit ==
    /\ ~open
    /\ \E offset \in 0..MaxMessages :
         \/ EditIn("main", offset)
         \/ Cardinality(Users(files.main)) <= offset /\ EditIn("bak", offset)

(* One step on the files.                                                  *)
Step ==
    /\ ~Idle
    /\ files' = [files EXCEPT ![Head(todo).name] = Head(todo).file]
    /\ todo' = Tail(todo)
    /\ gone' = IF op \in {"clear", "delete"} /\ todo' = <<>> THEN gone \cup Ids(old) ELSE gone
    /\ UNCHANGED <<op, open, memory, written, damage, old, new, interrupted>>

(* The process is killed: the files stay as they are.                      *)
Crash ==
    /\ todo' = <<>>
    /\ op' = "crash"
    /\ open' = FALSE
    /\ memory' = <<>>
    /\ old' = Load
    /\ new' = Load
    /\ LET cut == ~Idle /\ op \in {"clear", "delete"}
       IN  /\ interrupted' = (interrupted \/ cut)
           /\ gone' = IF cut THEN gone \ Ids(Read(files.flat)) ELSE gone
    /\ UNCHANGED <<files, written, damage>>

(* External: the main file is damaged between two operations.              *)
Damage ==
    /\ Idle
    /\ Parsed(files.main)
    /\ damage < MaxDamage
    /\ damage' = damage + 1
    /\ files' = [files EXCEPT !.main = Torn]
    /\ op' = "damage"
    /\ UNCHANGED <<todo, open, memory, written, histVars>>

FilesNext ==
    Begin \/ Persist \/ Close \/ Clear \/ Delete \/ Edit \/ Step \/ Crash \/ Damage

FilesSpec == FilesInit /\ [][FilesNext]_allVars

-----------------------------------------------------------------------------
IsFile(f) ==
    \/ f \in {Absent, Torn}
    \/ /\ f.is = "whole"
       /\ \A i \in DOMAIN f.messages :
            f.messages[i] \in [id : 0..MaxMessages, role : {"user", "assistant"}, edited : BOOLEAN]

(* Every variable has a value of its kind; a task that has the session     *)
(* open finds its main file.                                               *)
FilesTypeOK ==
    /\ \A name \in DOMAIN files : IsFile(files[name])
    /\ \A i \in DOMAIN todo : todo[i].name \in DOMAIN files /\ IsFile(todo[i].file)
    /\ op \in {"none", "write", "migrate", "clear", "delete", "edit", "crash", "damage"}
    /\ open \in BOOLEAN /\ interrupted \in BOOLEAN
    /\ written \in 0..MaxMessages /\ damage \in 0..MaxDamage
    /\ gone \subseteq 0..MaxMessages
    /\ open /\ Idle => files.main # Absent

(* A write, an edit or a clear is atomic to whoever reads the session,     *)
(* even if it is killed at any of its steps: it reads as before or as      *)
(* after.  Once an operation is done, it reads as after.  (A delete is not *)
(* atomic: cut short, it may leave the backup or the flat file alone, and  *)
(* a clear or a second delete has to put things right.  Nor is the first   *)
(* write to a session that has only its flat file: cut short behind the    *)
(* empty main file, it hides the flat one for good.)                       *)
OldOrNew ==
    /\ FilesTypeOK
    /\ op \in {"write", "edit", "clear"} /\ ~interrupted => Load \in {old, new}
    /\ op \in {"write", "migrate", "edit", "clear", "delete"} /\ Idle => Load = new

(* If the main file is damaged, Load falls back on the state before the    *)
(* last write or edit; and no message that was cleared or deleted is in    *)
(* any file it may fall back on.  (One of a flat file comes back if its    *)
(* old name is used, or the delete that was to remove it is cut short.)    *)
DamageCostsOneWrite ==
    Idle /\ ~interrupted =>
        /\ op \in {"write", "edit"} /\ Parsed(files.bak) => files.bak.messages = old
        /\ \A name \in {"main", "bak"} : Ids(Read(files[name])) \cap gone = {}
        /\ Ids(Load) \cap gone = {}

(* An edit changes one message of what the session read, although it looks *)
(* in the backup when the main file has too few: it never writes an older  *)
(* conversation back (unless a clear or a delete was cut short).           *)
EditTouchesOne ==
    op = "edit" /\ ~interrupted =>
        /\ Len(new) = Len(old)
        /\ \E i \in DOMAIN new : new = [old EXCEPT ![i].edited = TRUE]
=============================================================================
