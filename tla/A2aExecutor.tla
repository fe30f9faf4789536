---------------------------- MODULE A2aExecutor -----------------------------
(***************************************************************************)
(* IdraExecutor (src/main/a2a/executor.ts): each execute() of an A2A task  *)
(* starts a run of the agent under the id of the task and turns the run's  *)
(* events, which arrive through a callback, into events of the task; its   *)
(* state lives in the Map activeRuns, by task id.                          *)
(*                                                                         *)
(* The agent is AgentRuns seen through AgentPort: send() of an id that is  *)
(* still in the registry is refused; a run waits, starts, streams text,    *)
(* reports how it stopped, settles and leaves the registry; cancelling it  *)
(* while it waits settles it at once, with an empty text and no report.    *)
(*                                                                         *)
(* The request handler is a library.  It passes a message that names no    *)
(* task to execute() with a new task id, and one that names a task that    *)
(* has not ended with the id of that task (execute() reads the artifacts   *)
(* and the history of requestContext.task).                                *)
(***************************************************************************)
EXTENDS Naturals, Sequences, FiniteSets

CONSTANTS
    Tasks,          \* task ids
    Executions,     \* calls of execute()
    TaskOf,         \* the task id of each call
    MaxDeltas,      \* bound: text deltas of one run
    None

ASSUME ExecutorAssumption ==
    /\ TaskOf \in [Executions -> Tasks]
    /\ MaxDeltas \in Nat
    /\ None \notin Executions

VARIABLES
    activeRuns,     \* the Map: per task, the execution whose state it holds
    state,          \* per execution, its ActiveRun
    phase,          \* per execution: idle, refused, sending (awaits send), done
    run,            \* per execution, its run in the agent
    aborted,        \* executions whose run has been cancelled
    stopReason,     \* per execution, the reason its run reported
    emitted,        \* per execution, the deltas its run streamed
    response,       \* per execution, how the promise of send settled
    published,      \* per task, the events on its bus
    cancelledBy,    \* history: tasks that cancelTask() has cancelled
    cutOff          \* history: executions shut down while their run waited

portVars == <<run, aborted, stopReason, emitted, response>>
executorVars == <<activeRuns, state, phase, published>>
allVars == <<executorVars, portVars, cancelledBy, cutOff>>

RunStatuses == {"none", "queued", "running", "settled", "gone"}

(* error stands for every reason that is neither of the others: timeout,   *)
(* the budgets, max_tokens, a failure.                                     *)
StopReasons == {"end_turn", "cancelled", "error"}

(* Events: a status, or a chunk of the artifact; of a text only its place  *)
(* in the stream of its run matters.                                       *)
Status(s) == [status |-> s]
Chunk(delta, append, last) == [delta |-> delta, append |-> append, last |-> last]
TerminalStatuses == {"completed", "canceled", "failed"}
IsStatus(e) == "status" \in DOMAIN e
IsTerminal(e) == IsStatus(e) /\ e.status \in TerminalStatuses

(* pendingDelta is a delta <<run, number>>, or the whole text of a run.    *)
NoDelta == <<>>
WholeText(x) == <<x, 0>>

ActiveRun == [terminal |-> FALSE, artifactStarted |-> FALSE, pendingDelta |-> NoDelta]

-----------------------------------------------------------------------------
ExecutorInit ==
    /\ activeRuns = [t \in Tasks |-> None]
    /\ state = [x \in Executions |-> ActiveRun]
    /\ phase = [x \in Executions |-> "idle"]
    /\ published = [t \in Tasks |-> <<>>]
    /\ run = [x \in Executions |-> "none"]
    /\ aborted = {}
    /\ stopReason = [x \in Executions |-> "none"]
    /\ emitted = [x \in Executions |-> 0]
    /\ response = [x \in Executions |-> "pending"]
    /\ cancelledBy = {}
    /\ cutOff = {}

(* The records of the registry of the agent.                               *)
Registered == {x \in Executions : run[x] \in {"queued", "running", "settled"}}

(* Wrong variants of this module's definitions stand before them, to see   *)
(* that the properties notice.  Here: every end but a cancellation counts  *)
(* as a success; no chunk is marked as the last.                           *)
StatusOptimist(reason) == IF reason = "cancelled" THEN "canceled" ELSE "completed"

PublishOpen(s, last) ==
    IF s.pendingDelta = NoDelta THEN <<>>
    ELSE <<Chunk(s.pendingDelta, s.artifactStarted, FALSE)>>

StatusOf(reason) ==
    CASE reason = "end_turn" -> "completed"
      [] reason = "cancelled" -> "canceled"
      [] OTHER -> "failed"

(* publishDelta(): one chunk, and whether it is the first.                 *)
PublishDelta(s, last) ==
    IF s.pendingDelta = NoDelta THEN <<>>
    ELSE <<Chunk(s.pendingDelta, s.artifactStarted, last)>>

(* Wrong variant of FinishWith.                                            *)
FinishAgain(t, s, reason) ==
    published' = [published EXCEPT
        ![t] = @ \o PublishDelta(s, TRUE) \o <<Status(StatusOf(reason))>>]

(* finish() on the state s that the Map holds for t: once.                 *)
FinishWith(t, s, reason) ==
    IF s.terminal THEN UNCHANGED published
    ELSE published' = [published EXCEPT
            ![t] = @ \o PublishDelta(s, TRUE) \o <<Status(StatusOf(reason))>>]

Finished(s) ==
    [s EXCEPT !.terminal = TRUE,
              !.artifactStarted = @ \/ (~s.terminal /\ s.pendingDelta # NoDelta)]

(* execute() throws before it has done anything: textMessage() finds       *)
(* something other than text, or too much of it, or the context is no UUID.*)
Refuse(x) ==
    /\ phase[x] = "idle"
    /\ phase' = [phase EXCEPT ![x] = "refused"]
    /\ UNCHANGED <<activeRuns, state, published, portVars, cancelledBy, cutOff>>

(* execute() up to the await of send(): send is refused when the registry  *)
(* has the id.                                                             *)
Execute(x) ==
    LET t == TaskOf[x]
    IN  /\ phase[x] = "idle"
        /\ \A i \in DOMAIN published[t] : ~IsTerminal(published[t][i])
        /\ activeRuns' = [activeRuns EXCEPT ![t] = x]
        /\ phase' = [phase EXCEPT ![x] = "sending"]
        /\ published' = [published EXCEPT ![t] = @ \o <<Status("submitted"), Status("working")>>]
        /\ IF \E y \in Registered : TaskOf[y] = t
           THEN /\ response' = [response EXCEPT ![x] = "rejected"]
                /\ UNCHANGED run
           ELSE /\ run' = [run EXCEPT ![x] = "queued"]
                /\ UNCHANGED response
        /\ UNCHANGED <<state, aborted, stopReason, emitted, cancelledBy, cutOff>>

(* handleEvent() of a text delta: the one before it is published.          *)
HandleDelta(t, delta) ==
    LET x == activeRuns[t]
    IN  IF x = None THEN UNCHANGED <<state, published>>
        ELSE IF state[x].terminal THEN UNCHANGED <<state, published>>
        ELSE /\ published' = [published EXCEPT ![t] = @ \o PublishDelta(state[x], FALSE)]
             /\ state' = [state EXCEPT
                    ![x].pendingDelta = delta,
                    ![x].artifactStarted = @ \/ state[x].pendingDelta # NoDelta]

(* finish(t, reason).                                                      *)
Finish(t, reason) ==
    LET x == activeRuns[t]
    IN  IF x = None THEN UNCHANGED <<state, published>>
        ELSE /\ FinishWith(t, state[x], reason)
             /\ state' = [state EXCEPT ![x] = Finished(@)]

-----------------------------------------------------------------------------
(* The agent: the scheduler starts the run.                                *)
Start(x) ==
    /\ run[x] = "queued"
    /\ run' = [run EXCEPT ![x] = "running"]
    /\ UNCHANGED <<executorVars, aborted, stopReason, emitted, response, cancelledBy, cutOff>>

(* Its stream yields text; the callback carries the id of the task.        *)
Stream(x) ==
    /\ run[x] = "running"
    /\ stopReason[x] = "none"
    /\ emitted[x] < MaxDeltas
    /\ emitted' = [emitted EXCEPT ![x] = @ + 1]
    /\ HandleDelta(TaskOf[x], <<x, emitted[x] + 1>>)
    /\ UNCHANGED <<activeRuns, phase, run, aborted, stopReason, response, cancelledBy, cutOff>>

(* It yields run_finished: cancelled only if the signal is aborted.        *)
Report(x) ==
    /\ run[x] = "running"
    /\ stopReason[x] = "none"
    /\ \E reason \in IF x \in aborted THEN StopReasons ELSE StopReasons \ {"cancelled"} :
         /\ stopReason' = [stopReason EXCEPT ![x] = reason]
         /\ Finish(TaskOf[x], reason)
    /\ UNCHANGED <<activeRuns, phase, run, aborted, emitted, response, cancelledBy, cutOff>>

(* process() returns after the report, with the text so far; or it throws, *)
(* if it is not aborted, after reporting an error or before its stream.    *)
SettleRun(x) ==
    /\ run[x] = "running"
    /\ run' = [run EXCEPT ![x] = "settled"]
    /\ \/ /\ stopReason[x] # "none"
          /\ response' = [response EXCEPT ![x] = IF emitted[x] > 0 THEN "text" ELSE "empty"]
       \/ /\ x \notin aborted
          /\ stopReason[x] = "error" \/ (stopReason[x] = "none" /\ emitted[x] = 0)
          /\ response' = [response EXCEPT ![x] = "rejected"]
    /\ UNCHANGED <<executorVars, aborted, stopReason, emitted, cancelledBy, cutOff>>

(* cleanup() of send(), before the caller of send goes on.                 *)
LeaveRegistry(x) ==
    /\ run[x] = "settled"
    /\ run' = [run EXCEPT ![x] = "gone"]
    /\ UNCHANGED <<executorVars, aborted, stopReason, emitted, response, cancelledBy, cutOff>>

(* cancelRun of the records xs: a waiting run settles, a running one is    *)
(* told.                                                                   *)
CancelRuns(xs) ==
    /\ aborted' = aborted \cup xs
    /\ run' = [x \in Executions |-> IF x \in xs /\ run[x] = "queued" THEN "settled" ELSE run[x]]
    /\ response' = [x \in Executions |->
                       IF x \in xs /\ run[x] = "queued" THEN "empty" ELSE response[x]]
    /\ UNCHANGED <<stopReason, emitted>>

(* destroy(): cancelAll().                                                 *)
Shutdown ==
    LET xs == Registered \ aborted
    IN  /\ xs # {}
        /\ CancelRuns(xs)
        /\ cutOff' = cutOff \cup {x \in xs : run[x] = "queued"}
        /\ UNCHANGED <<executorVars, cancelledBy>>

-----------------------------------------------------------------------------
(* cancelTask(): refused, without any change, unless the Map has a state   *)
(* that is not terminal and the agent a run to cancel.                     *)
CancelTask(t) ==
    LET x == activeRuns[t]
        xs == {y \in Registered \ aborted : TaskOf[y] = t}
    IN  /\ x # None
        /\ ~state[x].terminal
        /\ xs # {}
        /\ CancelRuns(xs)
        /\ Finish(t, "cancelled")
        /\ cancelledBy' = cancelledBy \cup {t}
        /\ UNCHANGED <<activeRuns, phase, cutOff>>

(* The finally block.                                                      *)
Forget(t) == activeRuns' = [activeRuns EXCEPT ![t] = None]

(* Wrong variant: a rejection is swallowed.                                *)
FinishFulfilled(x) ==
    IF response[x] = "rejected" THEN UNCHANGED <<state, published>>
    ELSE Finish(TaskOf[x], "end_turn")

(* execute() after the await looks at its own state, and finishes, and     *)
(* deletes, the one the Map holds for its task by then.  A text that came  *)
(* by no delta is published whole.                                         *)
FinishOwn(x) ==
    LET found == activeRuns[TaskOf[x]]
        untold == response[x] = "text" /\ ~state[x].artifactStarted
                  /\ state[x].pendingDelta = NoDelta
        told == [state EXCEPT ![x].pendingDelta = IF untold THEN WholeText(x) ELSE @]
    IN  IF found = None
        THEN state' = told /\ UNCHANGED published
        ELSE /\ FinishWith(TaskOf[x], told[found],
                          IF response[x] = "rejected" THEN "error" ELSE "end_turn")
             /\ state' = [told EXCEPT ![found] = Finished(@)]

Resume(x) ==
    /\ phase[x] = "sending"
    /\ response[x] # "pending"
    /\ run[x] \in {"none", "gone"}
    /\ phase' = [phase EXCEPT ![x] = "done"]
    /\ IF state[x].terminal THEN UNCHANGED <<state, published>> ELSE FinishOwn(x)
    /\ Forget(TaskOf[x])
    /\ UNCHANGED <<portVars, cancelledBy, cutOff>>

ExecutorNext ==
    \/ \E x \in Executions :
         \/ Refuse(x) \/ Execute(x) \/ Start(x) \/ Stream(x) \/ Report(x) \/ SettleRun(x)
         \/ LeaveRegistry(x) \/ Resume(x)
    \/ \E t \in Tasks : CancelTask(t)
    \/ Shutdown

ExecutorSpec == ExecutorInit /\ [][ExecutorNext]_allVars
(* Microtasks run, the scheduler starts what waits, a run ends within its  *)
(* timeout.  Streaming, cancelling and shutting down are nobody's duty.    *)
FairExecutorSpec ==
    /\ ExecutorSpec
    /\ \A x \in Executions :
         /\ WF_allVars(Start(x)) /\ WF_allVars(Report(x)) /\ WF_allVars(SettleRun(x))
         /\ WF_allVars(LeaveRegistry(x)) /\ WF_allVars(Resume(x))

-----------------------------------------------------------------------------
Made(t) == {x \in Executions : TaskOf[x] = t /\ phase[x] \in {"sending", "done"}}

(* The only execution of its task so far.                                  *)
Only(x) == Made(TaskOf[x]) = {x}

EventsOf(x) == published[TaskOf[x]]

Chunks(x) == {i \in DOMAIN EventsOf(x) : ~IsStatus(EventsOf(x)[i])}

TerminalsOf(t) == {i \in DOMAIN published[t] : IsTerminal(published[t][i])}

(* Every variable has a value of its kind; the Map has only states of      *)
(* executions of the task that have not returned.                          *)
ExecutorTypeOK ==
    /\ \A t \in Tasks : activeRuns[t] # None =>
         TaskOf[activeRuns[t]] = t /\ phase[activeRuns[t]] = "sending"
    /\ \A x \in Executions :
         /\ DOMAIN state[x] = DOMAIN ActiveRun
         /\ {state[x].terminal, state[x].artifactStarted} \subseteq BOOLEAN
         /\ state[x].pendingDelta \in {NoDelta} \cup (Executions \X (0..MaxDeltas))
    /\ phase \in [Executions -> {"idle", "refused", "sending", "done"}]
    /\ run \in [Executions -> RunStatuses]
    /\ aborted \in SUBSET Executions
    /\ stopReason \in [Executions -> StopReasons \cup {"none"}]
    /\ emitted \in [Executions -> 0..MaxDeltas]
    /\ response \in [Executions -> {"pending", "text", "empty", "rejected"}]
    /\ cancelledBy \in SUBSET Tasks
    /\ cutOff \in SUBSET Executions

(* Nothing is published on a task after a terminal status, so there is no  *)
(* second one: neither by the run that goes on after cancelTask(), nor by  *)
(* the promise that settles after the report, nor by another execution.    *)
TerminalIsLast ==
    /\ ExecutorTypeOK
    /\ \A t \in Tasks : \A i \in TerminalsOf(t) : i = Len(published[t])

(* The text a client receives is the text the run streamed: each delta     *)
(* once and in order, the first one opening the artifact, and the last one *)
(* marked as such exactly when the task ends.                              *)
TextInOrder ==
    \A x \in {y \in Executions : Only(y)} :
        LET ended == TerminalsOf(TaskOf[x]) # {}
            Nth(i) == Cardinality({j \in Chunks(x) : j <= i})
        IN  /\ \A i \in Chunks(x) :
                 EventsOf(x)[i] = Chunk(<<x, Nth(i)>>, Nth(i) > 1,
                                        ended /\ Nth(i) = Cardinality(Chunks(x)))
            /\ ended /\ x \notin aborted => Cardinality(Chunks(x)) = emitted[x]

(* The status a task ends with is canceled if cancelTask() accepted, else  *)
(* what its run reported, and failed if that run reported nothing.  Left   *)
(* out: runs that destroy() cancels while they wait, which report nothing  *)
(* either (see CompletedWasReported), and tasks with a second execution.   *)
EndsAsReported ==
    \A x \in {y \in Executions : Only(y)} \ cutOff : \A i \in TerminalsOf(TaskOf[x]) :
        EventsOf(x)[i].status =
            CASE TaskOf[x] \in cancelledBy \/ stopReason[x] = "cancelled" -> "canceled"
              [] TaskOf[x] \notin cancelledBy /\ stopReason[x] = "end_turn" -> "completed"
              [] OTHER -> "failed"

(* Every task on which execute() was called ends.                          *)
EveryTaskEnds ==
    \A x \in Executions : phase[x] = "sending" ~> TerminalsOf(TaskOf[x]) # {}

(* What tests/a2a.test.ts says of the executor, "emits exactly one         *)
(* sanitized terminal state for every run outcome", with completed for     *)
(* end_turn and canceled for cancelled: a task is reported as completed    *)
(* only if its run came to the end of its turn.                            *)
CompletedWasReported ==
    \A x \in {y \in Executions : Only(y)} : \A i \in TerminalsOf(TaskOf[x]) :
        EventsOf(x)[i].status = "completed" => stopReason[x] = "end_turn"
=============================================================================
