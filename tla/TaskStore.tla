----------------------------- MODULE TaskStore ------------------------------
(* The store of A2A tasks (src/main/a2a/store.ts): one file per task,      *)
(* written beside the old one and renamed, so that a file is there whole   *)
(* or not at all.  Every operation is synchronous and is one action here;  *)
(* the constructor handles file after file and the process may stop        *)
(* between two of them, so its loop is an action per file.                 *)
EXTENDS Naturals, SequencesExt

CONSTANTS
    TaskIds,      \* the task ids, numbers in the order localeCompare gives them
    Owners,     \* the clients that can authenticate
    Legacy,     \* the owner of a record written before records had owners
    Disks,      \* what may be in the directory when it is first opened
    Retention,  \* RETENTION_MS
    MaxTime,    \* bound: the clock stops here
    Filters,    \* the filters of the list requests
    PageSizes

Open == {"submitted", "working"}
TERMINAL_STATES == {"completed", "failed"}
Record == [owner : Owners \cup {Legacy}, state : Open \cup TERMINAL_STATES,
           time : 0..MaxTime]
NoFile == [state |-> "none"]
Damaged == [state |-> "damaged"]

ASSUME TaskStoreAssumption ==
    /\ TaskIds \subseteq Nat /\ Retention \in Nat /\ MaxTime \in Nat
    /\ PageSizes \subseteq Nat \ {0} /\ Legacy \notin Owners
    /\ Disks \subseteq [TaskIds -> Record \cup {NoFile, Damaged}]
    /\ \A disk \in Disks : IsFiniteSet({t \in TaskIds : disk[t] # NoFile})

VARIABLES
    files,      \* the directory, by task
    process,    \* "down", "starting" in the constructor, "up"
    todo,       \* the files the constructor's loop has still to look at
    ours,       \* the tasks this process has saved
    used,       \* the ids ever given to a task (they are UUIDs)
    clock,
    listing,    \* one client's walk through the pages of a listing
    same        \* the tasks its first page had to choose from, unchanged since

vars == <<files, process, todo, ours, used, clock, listing, same>>

-----------------------------------------------------------------------------
(* The files.                                                              *)

\* read: what is no record counts as no task.
Read(f) == f \in Record

\* A terminal record whose status is older than the retention allows.
Expired(f) == f.state \in TERMINAL_STATES /\ f.time + Retention < clock

\* maintain(false): every expired record is removed.
Maintained == [t \in TaskIds |->
    IF Read(files[t]) /\ Expired(files[t]) THEN NoFile ELSE files[t]]

\* What maintain(true) leaves of one file.
Recovered(f) ==
    IF ~Read(f) THEN f
    ELSE IF f.state \notin TERMINAL_STATES
         THEN [f EXCEPT !.state = "failed", !.time = clock]
         ELSE IF Expired(f) THEN NoFile ELSE f

-----------------------------------------------------------------------------
(* Listing.                                                                *)

\* readAll: the tasks that have a record.
ReadAll(fs) == {t \in TaskIds : Read(fs[t])}

Matching(fs, o, filter) == {t \in ReadAll(fs) :
    /\ fs[t].owner = o
    /\ filter.state \in {"any", fs[t].state}
    /\ fs[t].time >= filter.after}

\* The latest status first, the greater id first among equals.
Before(fs, a, b) ==
    \/ fs[a].time > fs[b].time
    \/ fs[a].time = fs[b].time /\ a > b

Sorted(fs, S) == CHOOSE all \in [1..Cardinality(S) -> S] :
    \A i, j \in DOMAIN all : i < j => Before(fs, all[i], all[j])

\* Wrong variant: the id alone is looked for.
AtCursorById(fs, t, cursor) == t = cursor.id

\* Whether t is the task the cursor was made of, its status unchanged.
AtCursor(fs, t, cursor) == t = cursor.id /\ fs[t].time = cursor.time

\* Where in the listing the cursor is, 0 for the first page's; {} if it went.
CursorIndex(fs, all, token) ==
    IF token = <<>> THEN {0} ELSE {i \in DOMAIN all : AtCursor(fs, all[i], token[1])}

Behind(all, index) == IF index = {} THEN <<>> ELSE SubSeq(all, Min(index) + 1, Len(all))

\* encodeCursor: a page token is made of the last task of a page.
Token(fs, t) == <<[time |-> fs[t].time, id |-> t]>>

Idle == [stage |-> "idle"]

-----------------------------------------------------------------------------
Init ==
    /\ files \in Disks
    /\ process = "down" /\ todo = {} /\ ours = {}
    /\ used = {t \in TaskIds : files[t] # NoFile}
    /\ clock = 0
    /\ listing = Idle /\ same = {}

\* What an action does to the tasks a listing watches.
Watch == same' = {t \in same : files'[t] = files[t]}

\* The constructor begins: it secures the directory and reads its names.
Construct ==
    /\ process = "down"
    /\ process' = "starting"
    /\ todo' = {t \in TaskIds : files[t] # NoFile}
    /\ UNCHANGED <<files, ours, used, clock, listing, same>>

\* Wrong variant: a task that was only submitted is not seen as interrupted.
RecoverWorking(t) ==
    /\ process = "starting" /\ t \in todo
    /\ files' = [files EXCEPT ![t] =
            IF Read(@) /\ @.state = "submitted" THEN @ ELSE Recovered(@)]
    /\ todo' = todo \ {t}
    /\ Watch
    /\ UNCHANGED <<process, ours, used, clock, listing>>

\* One turn of maintain(true): an open task has failed, an expired one goes.
Recover(t) ==
    /\ process = "starting" /\ t \in todo
    /\ files' = [files EXCEPT ![t] = Recovered(@)]
    /\ todo' = todo \ {t}
    /\ Watch
    /\ UNCHANGED <<process, ours, used, clock, listing>>

\* The constructor returns and the server begins to answer.
Constructed ==
    /\ process = "starting" /\ todo = {}
    /\ process' = "up"
    /\ UNCHANGED <<files, todo, ours, used, clock, listing, same>>

\* The process stops, or a write of the constructor fails and ends it.
Stop ==
    /\ process # "down"
    /\ process' = "down" /\ todo' = {} /\ ours' = {}
    /\ UNCHANGED <<files, used, clock, listing, same>>

\* The executor of this process reports a status of a task it runs: a new
\* task, or an open one.
Reports(t, s) ==
    \/ t \notin used /\ s = "submitted"
    \/ t \in ours /\ files[t].state \in Open /\ s # "submitted"

\* write: a temporary file takes the place of the record.
Written(fs, t, record) == [fs EXCEPT ![t] = record]

\* save: the expired go first, a record of another owner is not overwritten.
Save(t, o, s) ==
    /\ process = "up"
    /\ Reports(t, s)
    /\ LET kept == Maintained
           mine == Read(kept[t]) => kept[t].owner = o
       IN  files' = IF mine
                    THEN Written(kept, t, [owner |-> o, state |-> s, time |-> clock])
                    ELSE kept
    /\ used' = used \cup {t}
    /\ ours' = ours \cup {t}
    /\ Watch
    /\ UNCHANGED <<process, todo, clock, listing>>

\* A save whose write fails, and a load: only the expired go.
Touch ==
    /\ process = "up"
    /\ files' = Maintained
    /\ files' # files
    /\ Watch
    /\ UNCHANGED <<process, todo, ours, used, clock, listing>>

\* One page of the walk l of a client; "cut" says that its cursor was gone.
PageOf(l, fs, rest, lost) ==
    LET page == SubSeq(rest, 1, Min({l.size, Len(rest)}))
        more == page # <<>> /\ Len(rest) > Len(page)
    IN  [l EXCEPT
            !.stage = IF more THEN "paging" ELSE "done",
            !.token = IF more THEN Token(fs, Last(page)) ELSE @,
            !.shown = @ \o page,
            !.cut = lost]

PageFrom(l, fs, all, index) == PageOf(l, fs, Behind(all, index), index = {})
PageIn(l, fs, all) == PageFrom(l, fs, all, CursorIndex(fs, all, l.token))
Page(l) == PageIn(l, Maintained, Sorted(Maintained, Matching(Maintained, l.owner, l.filter)))

\* The client goes on until there is no other page.
Goes(l) == IF l.stage = "paging" THEN l ELSE Idle

\* A client asks for the first page of its tasks.
ListFirst(o, filter, size) ==
    /\ process = "up" /\ listing.stage = "idle"
    /\ files' = Maintained
    /\ listing' = Goes(Page([stage |-> "paging", owner |-> o, filter |-> filter, size |-> size,
                        token |-> <<>>, shown |-> <<>>, cut |-> FALSE]))
    /\ same' = Matching(Maintained, o, filter)
    /\ UNCHANGED <<process, todo, ours, used, clock>>

\* It asks for the page behind the token it was given, of this process or of
\* one before it: the server keeps nothing of a listing.
ListNext ==
    /\ process = "up" /\ listing.stage = "paging"
    /\ files' = Maintained
    /\ listing' = Goes(Page(listing))
    /\ Watch
    /\ UNCHANGED <<process, todo, ours, used, clock>>

Tick ==
    /\ clock < MaxTime
    /\ clock' = clock + 1
    /\ UNCHANGED <<files, process, todo, ours, used, listing, same>>

Next ==
    \/ Construct
    \/ \E t \in TaskIds : Recover(t)
    \/ Constructed
    \/ Stop
    \/ \E t \in TaskIds, o \in Owners, s \in Open \cup TERMINAL_STATES : Save(t, o, s)
    \/ Touch
    \/ \E o \in Owners, filter \in Filters, size \in PageSizes : ListFirst(o, filter, size)
    \/ ListNext
    \/ Tick

Spec == Init /\ [][Next]_vars

-----------------------------------------------------------------------------
TaskTypeOK ==
    /\ files \in [TaskIds -> Record \cup {NoFile, Damaged}]
    /\ process \in {"down", "starting", "up"}
    /\ todo \subseteq TaskIds /\ ours \subseteq used /\ used \subseteq TaskIds
    /\ clock \in 0..MaxTime /\ same \subseteq TaskIds

\* While the server answers, an open task on the disk is one this very
\* process runs: no client waits for a task that ended with an earlier one.
OpenIsOurs ==
    process = "up" => \A t \in TaskIds : files[t].state \in Open => t \in ours

\* A record keeps its owner; one that has ended keeps everything, through
\* any number of restarts and half-done recoveries, for the whole retention.
RecordsKept ==
    \A t \in TaskIds : Read(files[t]) =>
        \/ files'[t] = NoFile /\ Expired(files[t])
        \/ /\ files'[t] # NoFile
           /\ files'[t].owner = files[t].owner
           /\ files[t].state \in TERMINAL_STATES => files'[t] = files[t]

\* A restart settles what it interrupted and nothing else (constructor and
\* maintain, store.ts:35 and 121).
RestartSettles == [](TaskTypeOK /\ OpenIsOurs) /\ [][RecordsKept]_vars

\* A client that walks through the pages of its tasks while they change is
\* shown no task twice; it is shown every task that did not change, unless
\* the last task of a page changed or went, which ends the walk early (list,
\* store.ts:59).
PageSound(walk) ==
    /\ IsInjective(walk.shown)
    /\ walk.cut => walk.token[1].id \notin same'
    /\ walk.stage = "done" /\ ~walk.cut => same' \subseteq ToSet(walk.shown)

ListingComplete ==
    [][listing.stage = "paging" /\ listing' # listing => PageSound(Page(listing))]_vars
=============================================================================
