----------------------------- MODULE AgentRuns ------------------------------
(***************************************************************************)
(* Agent (src/main/agent/agent.ts) at the grain of whole runs: the         *)
(* registry of run records, cancellation, and the operations on stored     *)
(* sessions, over the scheduler of AgentScheduler, which it extends.       *)
(*                                                                         *)
(* The calls that enter the scheduler (its Runs) are sends, wipes (both    *)
(* clearMessages and deleteSession: they differ in what is left on disk,   *)
(* not in what can be read back) and edits.  Every step is the code        *)
(* between two awaits; cancel(), send() and the others are called from any *)
(* of them.                                                                *)
(*                                                                         *)
(* A stored session is its list of messages; a running task reads it once, *)
(* keeps its own copy and writes the whole copy back each time.            *)
(***************************************************************************)
EXTENDS AgentScheduler, Filters

CONSTANTS
    Sends,          \* calls of send(), each with a run id of its own
    Wipes,          \* calls of clearMessages() and deleteSession()
    Edits,          \* calls of editUserMessage()
    Windows,        \* window ids
    WindowOf,       \* the window each send names
    MaxReplies      \* bound: assistant messages one run adds

ASSUME AgentAssumption ==
    /\ Runs = Sends \cup Wipes \cup Edits
    /\ Sends \cap Wipes = {} /\ Sends \cap Edits = {} /\ Wipes \cap Edits = {}
    /\ \A o \in Wipes \cup Edits : PriorityOf[o] = "high"
    /\ WindowOf \in [Sends -> Windows]
    /\ MaxReplies \in Nat

VARIABLES
    lifecycle,      \* per send, the status of its record; none: not in the registry
    memory,         \* per send, session.messages; empty: no session yet
    outcome,        \* per call, how its promise stands
    captured,       \* per wipe, the completions it awaits
    stored,         \* per session, the messages on disk
    before          \* history: per call, the sends of its session made before it

agentVars == <<lifecycle, memory, outcome, captured, stored>>
allVars == <<vars, agentVars, before>>

Statuses == {"none", "queued", "running", "cancelling"}
Outcomes == {"unmade", "pending", "finished", "cancelled", "failed"}

(* A message: the run it belongs to, and whether its user wrote it, its    *)
(* user's text has been edited, or it is an answer.                        *)
Messages == [run : Sends, kind : {"user", "edited", "reply"}]

-----------------------------------------------------------------------------
SessionOf(c) == KeyOf[c]

Recorded == {r \in Sends : lifecycle[r] # "none"}

AgentInit ==
    /\ Init
    /\ lifecycle = [r \in Sends |-> "none"]
    /\ memory = [r \in Sends |-> <<>>]
    /\ outcome = [c \in Runs |-> "unmade"]
    /\ captured = [o \in Wipes |-> {}]
    /\ stored = [s \in Keys |-> <<>>]
    /\ before = [c \in Runs |-> {}]

(* The history of a call that is made now.                                 *)
Made(c) ==
    before' = [before EXCEPT ![c] =
        {r \in Sends : SessionOf(r) = SessionOf(c) /\ outcome[r] # "unmade"}]

(* send(): admitRun, then the scheduler.  Bound: a run id is used once; an *)
(* id still in the registry is refused by admitRun without any change.     *)
Send(r) ==
    /\ outcome[r] = "unmade"
    /\ lifecycle[r] = "none"
    /\ lifecycle' = [lifecycle EXCEPT ![r] = "queued"]
    /\ outcome' = [outcome EXCEPT ![r] = "pending"]
    /\ Submit(r)
    /\ Made(r)
    /\ UNCHANGED <<memory, captured, stored>>

(* Wrong variant of Begin: process() that does not look at beginRun.       *)
BeginAnyway(r) ==
    LET messages == Append(stored[SessionOf(r)], [run |-> r, kind |-> "user"])
    IN  /\ r \in running \ settled
        /\ memory[r] = <<>>
        /\ lifecycle' = [lifecycle EXCEPT ![r] = "running"]
        /\ memory' = [memory EXCEPT ![r] = messages]
        /\ stored' = [stored EXCEPT ![SessionOf(r)] = messages]
        /\ UNCHANGED <<vars, outcome, captured, before>>

(* process() of a record still queued: beginRun, then init() loads the     *)
(* session, adds the user's message and persists, all before the first     *)
(* await.                                                                  *)
Begin(r) ==
    LET messages == Append(stored[SessionOf(r)], [run |-> r, kind |-> "user"])
    IN  /\ r \in running \ settled
        /\ lifecycle[r] = "queued"
        /\ lifecycle' = [lifecycle EXCEPT ![r] = "running"]
        /\ memory' = [memory EXCEPT ![r] = messages]
        /\ stored' = [stored EXCEPT ![SessionOf(r)] = messages]
        /\ UNCHANGED <<vars, outcome, captured, before>>

(* process() of a record cancelled after pump() took its entry: beginRun   *)
(* refuses.                                                                *)
Skip(r) ==
    /\ lifecycle[r] = "cancelling"
    /\ memory[r] = <<>>
    /\ Settle(r)
    /\ outcome' = [outcome EXCEPT ![r] = "cancelled"]
    /\ UNCHANGED <<lifecycle, memory, captured, stored, before>>

(* Wrong variant of Persist: a write that the task does not wait for.      *)
PersistDetached(r) ==
    /\ memory[r] # <<>>
    /\ stored' = [stored EXCEPT ![SessionOf(r)] = memory[r]]
    /\ UNCHANGED <<vars, lifecycle, memory, outcome, captured, before>>

(* addAssistantMessage or addToolResults of a task that has not returned,  *)
(* cancelled or not: the copy, one reply longer or as it is, is written.   *)
Persist(r) ==
    LET replies == {i \in DOMAIN memory[r] : memory[r][i] = [run |-> r, kind |-> "reply"]}
    IN  /\ r \in running \ settled
        /\ memory[r] # <<>>
        /\ \/ /\ Cardinality(replies) < MaxReplies
              /\ memory' = [memory EXCEPT ![r] = Append(@, [run |-> r, kind |-> "reply"])]
           \/ UNCHANGED memory
        /\ stored' = [stored EXCEPT ![SessionOf(r)] = memory'[r]]
        /\ UNCHANGED <<vars, lifecycle, outcome, captured, before>>

(* process() returns, or throws: an error counts as a cancellation when    *)
(* the signal is aborted.  A cancelled run may still finish by itself.     *)
Finish(r) ==
    /\ memory[r] # <<>>
    /\ Settle(r)
    /\ \E o \in {"finished", IF lifecycle[r] = "cancelling" THEN "cancelled" ELSE "failed"} :
         outcome' = [outcome EXCEPT ![r] = o]
    /\ UNCHANGED <<lifecycle, memory, captured, stored, before>>

(* The finally callback of the scheduler.                                  *)
Free(c) == Release(c) /\ UNCHANGED <<agentVars, before>>

(* Wrong variant of Complete: cleanup only after a promise that fulfils.   *)
CompleteFulfilled(r) ==
    /\ r \in Recorded \ running
    /\ outcome[r] \in {"finished", "cancelled"}
    /\ lifecycle' = [lifecycle EXCEPT ![r] = "none"]
    /\ UNCHANGED <<vars, memory, outcome, captured, stored, before>>

(* cleanup() of send(), a microtask after the slot is free.                *)
Complete(r) ==
    /\ r \in Recorded \ running
    /\ outcome[r] # "pending"
    /\ lifecycle' = [lifecycle EXCEPT ![r] = "none"]
    /\ UNCHANGED <<vars, memory, outcome, captured, stored, before>>

-----------------------------------------------------------------------------
(* cancelRun on each of the records: the status changes and the signal     *)
(* aborts; that rejects the entries still in the queue, whose sends end as *)
(* cancelled, and only tells the other tasks.                              *)
Marked(records) ==
    [r \in Sends |-> IF r \in records THEN "cancelling" ELSE lifecycle[r]]

(* Wrong variant of Rejected: the entry is removed and nobody is told.     *)
RejectedSilently(records) == outcome

Rejected(records) ==
    [c \in Runs |-> IF c \in records \cap Queued THEN "cancelled" ELSE outcome[c]]

Remaining(records) == Kept(queue, Runs \ records)

(* The records that cancelRun does not refuse.                             *)
Cancellable == {r \in Sends : lifecycle[r] \in {"queued", "running"}}

(* One pump() stands for the pump() of each onAbort: none of them starts   *)
(* anything (AbortStartsNothing).                                          *)
CancelOnly(records) ==
    /\ records # {}
    /\ lifecycle' = Marked(records)
    /\ outcome' = Rejected(records)
    /\ Pump(Remaining(records), activeKeys, active, running)
    /\ UNCHANGED <<settled, memory, captured, stored, before>>

(* cancel() of one run, by itself or by the window that owns it.           *)
Cancel(r) == CancelOnly({r} \cap Cancellable)

CancelWindow(w) == CancelOnly({r \in Cancellable : WindowOf[r] = w})

CancelAll == CancelOnly(Cancellable)

(* What cancelSession() collects, and cancels: all that the registry has   *)
(* for the session.                                                        *)
Matching(s) == {r \in Recorded : SessionOf(r) = s}

(* clearMessages() and deleteSession(): cancelSession, then the operation  *)
(* is scheduled.                                                           *)
Wipe(o) ==
    LET matching == Matching(SessionOf(o))
    IN  /\ outcome[o] = "unmade"
        /\ captured' = [captured EXCEPT ![o] = matching]
        /\ lifecycle' = Marked(matching)
        /\ outcome' = [Rejected(matching) EXCEPT ![o] = "pending"]
        /\ Pump(Append(Remaining(matching), o), activeKeys, active, running)
        /\ Made(o)
        /\ UNCHANGED <<settled, memory, stored>>

(* The task of a wipe, once Promise.allSettled lets it go on.              *)
ApplyWipe(o) ==
    /\ \A r \in captured[o] : outcome[r] # "pending"
    /\ Settle(o)
    /\ stored' = [stored EXCEPT ![SessionOf(o)] = <<>>]
    /\ outcome' = [outcome EXCEPT ![o] = "finished"]
    /\ UNCHANGED <<lifecycle, memory, captured, before>>

(* editUserMessage(): only scheduled, nothing is cancelled.                *)
Edit(o) ==
    /\ outcome[o] = "unmade"
    /\ outcome' = [outcome EXCEPT ![o] = "pending"]
    /\ Submit(o)
    /\ Made(o)
    /\ UNCHANGED <<lifecycle, memory, captured, stored>>

(* The task of an edit: the offset names a user message, or none.          *)
ApplyEdit(o) ==
    LET s == SessionOf(o)
    IN  /\ Settle(o)
        /\ \/ \E i \in DOMAIN stored[s] :
                /\ stored[s][i].kind \in {"user", "edited"}
                /\ stored' = [stored EXCEPT ![s][i].kind = "edited"]
           \/ UNCHANGED stored
        /\ outcome' = [outcome EXCEPT ![o] = "finished"]
        /\ UNCHANGED <<lifecycle, memory, captured, before>>

-----------------------------------------------------------------------------
AgentNext ==
    \/ \E r \in Sends :
         \/ Send(r) \/ Begin(r) \/ Skip(r) \/ Persist(r) \/ Finish(r)
         \/ Complete(r) \/ Cancel(r)
    \/ \E w \in Windows : CancelWindow(w)
    \/ CancelAll
    \/ \E o \in Wipes : Wipe(o) \/ ApplyWipe(o)
    \/ \E o \in Edits : Edit(o) \/ ApplyEdit(o)
    \/ \E c \in Runs : Free(c)

AgentSpec == AgentInit /\ [][AgentNext]_allVars

(* Microtasks run, and a task returns: a run is aborted after ten minutes. *)
(* Nobody has to call anything.                                            *)
AgentFairness ==
    /\ \A r \in Sends :
         /\ WF_allVars(Begin(r)) /\ WF_allVars(Skip(r)) /\ WF_allVars(Finish(r))
         /\ WF_allVars(Complete(r))
    /\ \A o \in Wipes : WF_allVars(ApplyWipe(o))
    /\ \A o \in Edits : WF_allVars(ApplyEdit(o))
    /\ \A c \in Runs : WF_allVars(Free(c))

FairAgentSpec == AgentSpec /\ AgentFairness
-----------------------------------------------------------------------------
(* Every variable of the agent has a value of its kind.                    *)
AgentTypeOK ==
    /\ TypeOK
    /\ lifecycle \in [Sends -> Statuses]
    /\ memory \in [Sends -> Seq(Messages)]
    /\ outcome \in [Runs -> Outcomes]
    /\ captured \in [Wipes -> SUBSET Sends]
    /\ stored \in [Keys -> Seq(Messages)]
    /\ before \in [Runs -> SUBSET Sends]

(* The registry and the scheduler, updated in different microtasks, tell   *)
(* the same story: what waits in the queue or holds a slot is a pending    *)
(* call, or a settled one whose slot is freed next; a send that waits has  *)
(* a record nobody has cancelled and no session; a pending send is found   *)
(* in the registry, so that cancel() and cancelSession() can reach it, and *)
(* in the scheduler, so that it can end.                                   *)
RegistryMatchesScheduler ==
    /\ AgentTypeOK
    /\ \A c \in Runs : outcome[c] = "pending" <=> c \in Queued \cup (running \ settled)
    /\ \A r \in Sends :
         /\ outcome[r] = "pending" => r \in Recorded
         /\ r \in Queued => lifecycle[r] = "queued" /\ memory[r] = <<>>
         /\ lifecycle[r] = "running" => memory[r] # <<>>

(* A wipe that holds the slot of its session never waits for a run: those  *)
(* it collected have all ended, or it would wait, holding the session, for *)
(* a promise that only the session's next turn can settle.                 *)
WipeNeverBlocks ==
    \A o \in Wipes \cap running : \A r \in captured[o] : outcome[r] # "pending"

(* After a clear or a delete has taken effect nothing sent to the session  *)
(* before it was called is on disk, then or later: no cancelled task       *)
(* writes its copy back.                                                   *)
WipedStaysWiped ==
    \A o \in Wipes : outcome[o] = "finished" =>
        \A i \in DOMAIN stored[SessionOf(o)] :
            stored[SessionOf(o)][i].run \notin before[o]

(* What is on disk is one conversation: the runs of a session stand in the *)
(* order they were sent in, their messages are not mixed, and each begins  *)
(* with its user's message.                                                *)
HistoryInOrder ==
    \A s \in Keys : \A i, j \in DOMAIN stored[s] :
        LET m == stored[s][i]
            n == stored[s][j]
        IN  i < j => /\ m.run = n.run \/ m.run \in before[n.run]
                     /\ n.kind # "reply" => m.run # n.run

(* A run that was cancelled before its task began never begins: it leaves  *)
(* no message in the session.                                              *)
CancelledStaysOut ==
    [][\A r \in Sends :
        lifecycle[r] = "cancelling" /\ memory[r] = <<>> => memory'[r] = <<>>]_allVars

(* Tasks overwrite the file of their session with a copy they read before; *)
(* still what is on disk only grows, until a wipe or an edit changes it:   *)
(* no answer and no edit is lost under the copy of another task.           *)
NothingOverwritten ==
    [][\A s \in Keys :
        \/ IsPrefix(stored[s], stored'[s])
        \/ \E o \in (Wipes \cup Edits) \cap running :
             SessionOf(o) = s /\ outcome'[o] # outcome[o]]_allVars

(* Every call that is made ends, whatever is cancelled meanwhile, and its  *)
(* record is removed (isBusy does not stay true).                          *)
EveryCallEnds ==
    \A c \in Runs :
        outcome[c] = "pending" ~>
            outcome[c] # "pending" /\ (c \in Sends => lifecycle[c] = "none")
=============================================================================
