------------------------------- MODULE RunLoop -------------------------------
(***************************************************************************)
(* A run of the agent (runner/stream.ts, run_model_turn.ts, run_tool_calls *)
(* .ts, run_tool_call.ts) and the subagents it starts (subagents/): turns  *)
(* of the model, tool calls, budgets, retries, cancellation.               *)
(*                                                                         *)
(* Parent is the run that was asked for; Children are the requests of its  *)
(* tool `subagents`, runs of the same loop with the parent's signal and a  *)
(* session of their own.  All of them stand in line at the two limiters of *)
(* agent.ts: `provider` during one attempt of a model call, `subagents`    *)
(* during the whole of a child.  A limiter is what FifoSemaphore promises  *)
(* (KeyedLimiter implements it).  The provider is shared with the Others,  *)
(* the rest of the process's runs, of which only their leases matter here. *)
(*                                                                         *)
(* The language model may answer with any of Answers, the kinds of its     *)
(* tool calls: "plain", "paid", "web" (counted when the agent is the       *)
(* channels bot), "bad" (unknown, or arguments the tool rejects) and       *)
(* "subagents", which a child is never offered (parallel.ts).  It may also *)
(* fail, before or after output was passed on.                             *)
(***************************************************************************)
EXTENDS Naturals, Sequences, FiniteSets, SequencesExt, Filters

CONSTANTS
    Parent, Children, Others,
    Answers,        \* per run, tool calls of one answer of the model
    MaxTurns,       \* per run, input.maxTurns: 20, for a child at most 10
    Errors,         \* of the provider: [status, lost, exceeds], see Thrown
    MaxRetries,     \* 2
    MaxToolCalls,   \* 100
    MaxKind,        \* per counted kind: 3 paid calls, 8 web calls
    MaxLarge,       \* outputs of a large size that fit MAX_TOOL_OUTPUT_BYTES
    LimiterConcurrency \* of each limiter; 3

Agents == {Parent} \cup Children
LimiterKeys == {"provider", "subagents"}
CountedKinds == {"paid", "web"}
Kinds == CountedKinds \cup {"plain", "bad", "subagents"}

ASSUME RunLoopAssumption ==
    /\ Parent \notin Children /\ Others \cap Agents = {}
    /\ \A a \in Agents : MaxTurns[a] \in Nat \ {0} /\ Answers[a] \subseteq Seq(Kinds)
    /\ \A c \in Children : \A kinds \in Answers[c] : "subagents" \notin ToSet(kinds)
    /\ {MaxRetries, MaxToolCalls, MaxLarge} \subseteq Nat
    /\ \A e \in Errors : e.status \in Nat /\ {e.lost, e.exceeds} \subseteq BOOLEAN
    /\ MaxKind \in [CountedKinds -> Nat]
    /\ LimiterConcurrency \in Nat \ {0}

VARIABLES
    holders, line,  \* the two limiters
    aborted,        \* signal.reason: "no", "cancelled", "timeout"
    pc,             \* per run, where its generator is
    attempt,        \* per run, attempts of this turn that failed
    visible,        \* per run, whether this attempt passed on output
    history,        \* per run, session.messages: the calls of each turn
    counted,        \* per run, paidToolCalls and botWebToolCalls
    large,          \* per run, toolOutputBytes in large outputs
    numTurns,       \* per run, session.numTurns
    called,         \* per run, the length of session.toolCalls
    stop,           \* per run, the stop reason of run_finished
    finishes        \* per run, how many run_finished it yielded

limiters == <<holders, line>>
session == <<history, counted, large, numTurns, called>>
ending == <<stop, finishes>>
turn == <<attempt, visible>>
vars == <<limiters, aborted, pc, turn, session, ending>>

Limiter == INSTANCE FifoSemaphore
    WITH Keys <- LimiterKeys, Clients <- Agents \cup Others, Capacity <- LimiterConcurrency

(* idle: a child that is not asked for; admit: a child before its lease;   *)
(* setup: before the loop; loop: the top of the loop; queued: waiting for  *)
(* the provider; attempt: the model answers; backoff: before a retry;      *)
(* tools: before the next tool call; tool: a tool runs; finished:          *)
(* run_finished was yielded.                                               *)
Places == {"idle", "admit", "setup", "loop", "queued", "attempt", "backoff",
           "tools", "tool", "finished"}

Call(kind) == [kind |-> kind, started |-> FALSE, ended |-> FALSE, result |-> FALSE]

Init ==
    /\ Limiter!SemaphoreInit
    /\ aborted = "no"
    /\ pc = [a \in Agents |-> IF a = Parent THEN "setup" ELSE "idle"]
    /\ attempt = [a \in Agents |-> 0]
    /\ visible = [a \in Agents |-> FALSE]
    /\ history = [a \in Agents |-> <<>>]
    /\ counted = [a \in Agents |-> [k \in CountedKinds |-> 0]]
    /\ large = [a \in Agents |-> 0]
    /\ numTurns = [a \in Agents |-> 0]
    /\ called = [a \in Agents |-> 0]
    /\ stop = [a \in Agents |-> "none"]
    /\ finishes = [a \in Agents |-> 0]

-----------------------------------------------------------------------------
Goto(a, place) == pc' = [pc EXCEPT ![a] = place]

(* stream(): run_finished with this reason, the last event of the run.     *)
Finish(a, reason) ==
    /\ Goto(a, "finished")
    /\ stop' = [stop EXCEPT ![a] = reason]
    /\ finishes' = [finishes EXCEPT ![a] = @ + 1]

(* The reason when the loop returned without one, or threw.                *)
Outcome == IF aborted = "no" THEN "error" ELSE aborted

(* acquire() of the provider's limiter.                                    *)
Queue(a) ==
    \/ Limiter!Enter("provider", a) /\ Goto(a, "attempt")
    \/ Limiter!Wait("provider", a) /\ Goto(a, "queued")

(* loop() looks up the provider and the model and gathers the tools, or    *)
(* throws.  The signal is not asked before the first turn.                 *)
SetUp(a) ==
    /\ pc[a] = "setup"
    /\ \/ Goto(a, "loop") /\ UNCHANGED ending
       \/ Finish(a, Outcome)
    /\ UNCHANGED <<limiters, aborted, turn, session>>

(* Wrong variant: the signal is not asked before the next turn.            *)
BeginTurnDeaf(a) ==
    /\ pc[a] = "loop"
    /\ attempt' = [attempt EXCEPT ![a] = 0]
    /\ visible' = [visible EXCEPT ![a] = FALSE]
    /\ \/ Queue(a) /\ UNCHANGED ending
       \/ Finish(a, Outcome) /\ UNCHANGED limiters
    /\ UNCHANGED <<aborted, session>>

(* The top of the loop: the prompt is built and fitted into the context.   *)
BeginTurn(a) ==
    /\ pc[a] = "loop"
    /\ attempt' = [attempt EXCEPT ![a] = 0]
    /\ visible' = [visible EXCEPT ![a] = FALSE]
    /\ \/ aborted = "no" /\ Queue(a) /\ UNCHANGED ending
       \/ Finish(a, Outcome) /\ UNCHANGED limiters
    /\ UNCHANGED <<aborted, session>>

(* The lease was handed on to a run that waited.                           *)
Granted(a) ==
    /\ pc[a] = "queued" /\ a \in holders["provider"]
    /\ Goto(a, "attempt")
    /\ UNCHANGED <<limiters, aborted, turn, session, ending>>

(* The model sends text or the start of a tool call, which is passed on.   *)
Output(a) ==
    /\ pc[a] = "attempt" /\ ~visible[a]
    /\ visible' = [visible EXCEPT ![a] = TRUE]
    /\ UNCHANGED <<limiters, aborted, pc, attempt, session, ending>>

(* isTransientModelError(): the status of the answer, 0 if there is none,  *)
(* or whether the connection was lost.                                     *)
IsTransient(e) == e.status \in {408, 409, 429} \/ e.status >= 500 \/ e.lost

(* throwProviderError(): the errors that are thrown in place of the        *)
(* provider's keep no status.  One whose message speaks of something that  *)
(* is exceeded is taken for a context that is too long, also when it is    *)
(* the rate of requests.                                                   *)
Thrown(e) ==
    CASE e.status \in {401, 403} -> "auth"
      [] e.status \notin {401, 403} /\ e.exceeds -> "overflow"
      [] OTHER -> IF IsTransient(e) THEN "transient" ELSE "other"

(* The attempt throws; the finally block gives the lease back.  It is      *)
(* repeated if the error is transient and nobody has noticed.              *)
AttemptFails(a, error) ==
    LET again == /\ aborted = "no" /\ Thrown(error) = "transient"
                 /\ ~visible[a] /\ attempt[a] < MaxRetries
    IN
    /\ pc[a] = "attempt"
    /\ Limiter!Leave("provider", a)
    /\ \/ /\ again
          /\ Goto(a, "backoff")
          /\ attempt' = [attempt EXCEPT ![a] = @ + 1]
          /\ UNCHANGED <<visible, ending>>
       \/ /\ ~again
          /\ Finish(a, Outcome)
          /\ UNCHANGED turn
    /\ UNCHANGED <<aborted, session>>

(* The wait before the next attempt is over, or the signal ends it.        *)
Retry(a) ==
    /\ pc[a] = "backoff"
    /\ \/ aborted = "no" /\ Queue(a) /\ UNCHANGED ending
       \/ aborted # "no" /\ Finish(a, Outcome) /\ UNCHANGED limiters
    /\ UNCHANGED <<aborted, turn, session>>

-----------------------------------------------------------------------------
OfKind(calls, k) == Cardinality({i \in DOMAIN calls : calls[i].kind = k})

(* Wrong variant: the calls of earlier turns are not counted.              *)
CountsOfTurn(a, calls) == [k \in CountedKinds |-> OfKind(calls, k)]

(* The paid and web calls of the run, those of this turn included.         *)
Counts(a, calls) == [k \in CountedKinds |-> counted[a][k] + OfKind(calls, k)]

(* isExhausted(), asked after this turn was recorded.                      *)
Exhausted(a) == numTurns[a] + 1 >= MaxTurns[a]

(* The first budget that the calls of a turn exceed, in the order of the   *)
(* checks; the counter of paid calls is raised before the next check.      *)
Exceeded(a, calls) ==
    IF called[a] + Len(calls) > MaxToolCalls THEN "max_tool_calls"
    ELSE IF \E k \in CountedKinds : Counts(a, calls)[k] > MaxKind[k]
         THEN "budget_exhausted"
    ELSE IF Exhausted(a) THEN "max_iterations"
    ELSE "no"

(* The model has answered: recordTurn(), addAssistantMessage() and the     *)
(* checks of the budgets.  An answer without text or calls leaves no       *)
(* message; one without calls ends the run.                                *)
AttemptSucceeds(a, kinds) ==
    LET calls == [i \in DOMAIN kinds |-> Call(kinds[i])]
        over == Exceeded(a, calls)
    IN
    /\ pc[a] = "attempt"
    /\ calls # <<>> => visible[a]
    /\ Limiter!Leave("provider", a)
    /\ numTurns' = [numTurns EXCEPT ![a] = @ + 1]
    /\ history' = IF visible[a] THEN [history EXCEPT ![a] = Append(@, calls)] ELSE history
    /\ \/ /\ calls = <<>>
          /\ Finish(a, "end_turn") /\ UNCHANGED counted
       \/ /\ calls # <<>> /\ over # "no"
          /\ Finish(a, over) /\ UNCHANGED counted
       \/ /\ calls # <<>> /\ over = "no"
          /\ Goto(a, "tools")
          /\ counted' = [counted EXCEPT ![a] = Counts(a, calls)]
          /\ UNCHANGED ending
    /\ UNCHANGED <<aborted, turn, large, called>>

-----------------------------------------------------------------------------
LastTurn(a) == history[a][Len(history[a])]
NextCall(a) == CHOOSE i \in DOMAIN LastTurn(a) :
                   /\ ~LastTurn(a)[i].ended
                   /\ \A j \in 1..(i - 1) : LastTurn(a)[j].ended
ThisCall(a) == LastTurn(a)[NextCall(a)]
IsLastCall(a) == NextCall(a) = Len(LastTurn(a))

Mark(a, call) == [history EXCEPT ![a][Len(history[a])][NextCall(a)] = call]

(* addToolResults(), after the last call or an early end of the turn.      *)
AddResults(a) == called' = [called EXCEPT ![a] = @ + Len(LastTurn(a))]

(* runToolCall(): the tool is started, with the children if it is          *)
(* `subagents`.  A signal that is aborted is thrown out of the run, and    *)
(* the results of this turn are not added.                                 *)
StartTool(a) ==
    /\ pc[a] = "tools" /\ ThisCall(a).kind # "bad"
    /\ \/ /\ aborted # "no"
          /\ Finish(a, Outcome)
          /\ UNCHANGED history
       \/ /\ aborted = "no"
          /\ history' = Mark(a, [ThisCall(a) EXCEPT !.started = TRUE])
          /\ pc' = [b \in Agents |->
                       IF b = a THEN "tool"
                       ELSE IF ThisCall(a).kind = "subagents" /\ b \in Children
                            THEN "admit"
                       ELSE pc[b]]
          /\ UNCHANGED ending
    /\ UNCHANGED <<limiters, aborted, turn, counted, large, numTurns, called>>

(* runToolCalls(): whether another call of the turn follows.               *)
TurnGoesOn(a) == ~IsLastCall(a) /\ aborted = "no"

(* Wrong variant: the run goes on after it reported that it is finished.   *)
EndCallAndGoOn(a, size) ==
    /\ large' = [large EXCEPT ![a] = @ + size]
    /\ history' = Mark(a, [ThisCall(a) EXCEPT !.ended = TRUE, !.result = TRUE])
    /\ IF TurnGoesOn(a)
       THEN Goto(a, "tools") /\ UNCHANGED <<called, ending>>
       ELSE /\ AddResults(a) /\ Goto(a, "loop")
            /\ finishes' = IF large'[a] > MaxLarge
                           THEN [finishes EXCEPT ![a] = @ + 1] ELSE finishes
            /\ UNCHANGED stop

(* tool_call_end is yielded.  An output that is too much for the run ends  *)
(* it, and that call never gets its result; else it does, and the turn     *)
(* goes on, or its results are added and the loop starts again.            *)
EndCall(a, size) ==
    LET call == [ThisCall(a) EXCEPT !.ended = TRUE] IN
    /\ large' = [large EXCEPT ![a] = @ + size]
    /\ \/ /\ large'[a] > MaxLarge
          /\ history' = Mark(a, call)
          /\ AddResults(a)
          /\ Finish(a, "budget_exhausted")
       \/ /\ large'[a] <= MaxLarge
          /\ history' = Mark(a, [call EXCEPT !.result = TRUE])
          /\ IF TurnGoesOn(a)
             THEN Goto(a, "tools") /\ UNCHANGED called
             ELSE Goto(a, "loop") /\ AddResults(a)
          /\ UNCHANGED ending

(* A call that cannot be run is answered with an error.                    *)
RefuseCall(a) ==
    /\ pc[a] = "tools" /\ ThisCall(a).kind = "bad"
    /\ EndCall(a, 0)
    /\ UNCHANGED <<limiters, aborted, turn, counted, numTurns>>

(* The tool returns or throws; `subagents` returns when every child is     *)
(* back, whatever became of it.                                            *)
EndTool(a, throws, size) ==
    /\ pc[a] = "tool"
    /\ IF ThisCall(a).kind = "subagents"
       THEN ~throws /\ \A c \in Children : pc[c] = "idle"
       ELSE throws => size = 0
    /\ \/ /\ throws /\ aborted # "no"
          /\ Finish(a, Outcome)
          /\ UNCHANGED <<history, large, called>>
       \/ /\ ~(throws /\ aborted # "no")
          /\ EndCall(a, size)
    /\ UNCHANGED <<limiters, aborted, turn, counted, numTurns>>

-----------------------------------------------------------------------------
(* runSubagents(): each request waits for a lease.                         *)
Admit(c) ==
    /\ pc[c] = "admit" /\ c \notin holders["subagents"]
    /\ c \notin ToSet(line["subagents"])
    /\ aborted = "no"
    /\ Limiter!Enter("subagents", c) \/ Limiter!Wait("subagents", c)
    /\ UNCHANGED <<aborted, pc, turn, session, ending>>

(* It has one: runSubagent() starts with a session of its own.             *)
StartChild(c) ==
    /\ pc[c] = "admit" /\ c \in holders["subagents"]
    /\ Goto(c, "setup")
    /\ history' = [history EXCEPT ![c] = <<>>]
    /\ counted' = [counted EXCEPT ![c] = [k \in CountedKinds |-> 0]]
    /\ large' = [large EXCEPT ![c] = 0]
    /\ numTurns' = [numTurns EXCEPT ![c] = 0]
    /\ called' = [called EXCEPT ![c] = 0]
    /\ stop' = [stop EXCEPT ![c] = "none"]
    /\ finishes' = [finishes EXCEPT ![c] = 0]
    /\ UNCHANGED <<limiters, aborted, turn>>

(* Wrong variant: a child that failed keeps its lease.                     *)
EndChildLeaking(c) ==
    /\ \/ /\ pc[c] = "finished"
          /\ IF stop[c] = "error" THEN UNCHANGED limiters ELSE Limiter!Leave("subagents", c)
       \/ /\ pc[c] = "admit" /\ aborted # "no" /\ c \notin holders["subagents"]
          /\ UNCHANGED limiters
    /\ Goto(c, "idle")
    /\ UNCHANGED <<aborted, turn, session, ending>>

(* The child is over, or was turned away by the signal: the finally block  *)
(* gives the lease back.                                                   *)
EndChild(c) ==
    /\ \/ /\ pc[c] = "finished"
          /\ Limiter!Leave("subagents", c)
       \/ /\ pc[c] = "admit" /\ aborted # "no" /\ c \notin holders["subagents"]
          /\ UNCHANGED limiters
    /\ Goto(c, "idle")
    /\ UNCHANGED <<aborted, turn, session, ending>>

(* cancel(), cancelAll(), or ten minutes are over.  The listeners of every *)
(* run that waits in a line take it out at once; the runs that waited for  *)
(* the provider end.                                                       *)
Abort(reason) ==
    LET turnedAway == { a \in Agents : pc[a] = "queued" /\ a \notin holders["provider"] }
    IN
    /\ aborted = "no" /\ pc[Parent] # "finished"
    /\ aborted' = reason
    /\ line' = [k \in LimiterKeys |-> Kept(line[k], Others)]
    /\ pc' = [a \in Agents |-> IF a \in turnedAway THEN "finished" ELSE pc[a]]
    /\ stop' = [a \in Agents |-> IF a \in turnedAway THEN reason ELSE stop[a]]
    /\ finishes' = [a \in Agents |-> IF a \in turnedAway THEN finishes[a] + 1
                                     ELSE finishes[a]]
    /\ UNCHANGED <<holders, turn, session>>

(* Another run calls the model, or is done with it.                        *)
OtherCalls(o) ==
    /\ o \notin holders["provider"] \cup ToSet(line["provider"])
    /\ Limiter!Enter("provider", o) \/ Limiter!Wait("provider", o)
    /\ UNCHANGED <<aborted, pc, turn, session, ending>>
OtherReturns(o) ==
    /\ Limiter!Leave("provider", o)
    /\ UNCHANGED <<aborted, pc, turn, session, ending>>

Step(a) ==
    \/ SetUp(a) \/ BeginTurn(a) \/ Granted(a) \/ Output(a) \/ Retry(a)
    \/ \E error \in Errors : AttemptFails(a, error)
    \/ \E kinds \in Answers[a] : AttemptSucceeds(a, kinds)
    \/ StartTool(a) \/ RefuseCall(a)
    \/ \E throws \in BOOLEAN, size \in 0..1 : EndTool(a, throws, size)

ChildStep(c) == Admit(c) \/ StartChild(c) \/ EndChild(c)

Next ==
    \/ \E a \in Agents : Step(a)
    \/ \E c \in Children : ChildStep(c)
    \/ \E reason \in {"cancelled", "timeout"} : Abort(reason)
    \/ \E o \in Others : OtherCalls(o) \/ OtherReturns(o)

Spec == Init /\ [][Next]_vars

(* Requests of the provider and tools end; nobody has to cancel.           *)
FairSpec ==
    /\ Spec
    /\ \A a \in Agents : WF_vars(Step(a))
    /\ \A c \in Children : WF_vars(ChildStep(c))
    /\ \A o \in Others : WF_vars(OtherReturns(o))

-----------------------------------------------------------------------------
TypeOK ==
    /\ pc \in [Agents -> Places]
    /\ \A k \in LimiterKeys : 
        holders[k] \subseteq Agents \cup Others /\ line[k] \in Seq(Agents \cup Others)
    /\ aborted \in {"no", "cancelled", "timeout"}
    /\ \A a \in Agents : attempt[a] <= MaxRetries

(* A run yields run_finished once and nothing after it, for the reason     *)
(* that ended it, and has then given back the lease of the provider; one   *)
(* that is not finished has not said so.                                   *)
EndsAsItWent ==
    /\ TypeOK
    /\ \A a \in Agents : pc[a] \notin {"idle", "admit"} =>
        IF pc[a] # "finished" THEN finishes[a] = 0
        ELSE /\ finishes[a] = 1
             /\ a \notin holders["provider"]
             /\ CASE stop[a] \in {"cancelled", "timeout"} -> aborted = stop[a]
                  [] stop[a] = "end_turn" -> visible[a] => LastTurn(a) = <<>>
                  [] stop[a] = "budget_exhausted" -> LastTurn(a) # <<>>
                  [] OTHER -> TRUE

(* The model is asked again only with every earlier call answered, also    *)
(* when a turn of several calls was broken off.  A call whose end was      *)
(* reported lacks its result only if its output was the one too much       *)
(* (stream.ts:251).                                                        *)
HistorySound ==
    \A a \in Agents :
        /\ pc[a] \in {"queued", "attempt", "backoff"} =>
              \A t \in ToSet(history[a]) : \A i \in DOMAIN t : t[i].result
        /\ \A t \in ToSet(history[a]) : \A i \in DOMAIN t :
              t[i].ended /\ ~t[i].result => stop[a] = "budget_exhausted"

(* The calls of a history, by their places: the turn, and where in it.     *)
CallsIn(turns) == UNION {{t} \X DOMAIN turns[t] : t \in DOMAIN turns}
StartedIn(turns) == {p \in CallsIn(turns) : turns[p[1]][p[2]].started}
OfKindIn(turns, k) == {p \in CallsIn(turns) : turns[p[1]][p[2]].kind = k}

(* However the calls are spread over turns, a run starts no more of them   *)
(* than its budgets allow, and asks the model for no more turns.           *)
BudgetsKept ==
    \A a \in Agents :
        /\ Cardinality(StartedIn(history[a])) <= MaxToolCalls
        /\ \A k \in CountedKinds :
              Cardinality(StartedIn(history[a]) \cap OfKindIn(history[a], k)) <= MaxKind[k]
        /\ numTurns[a] <= MaxTurns[a]
        /\ large[a] <= MaxLarge + 1

(* Runs that wait for each other's leases never wait forever: the run and  *)
(* every child it started come to an end.                                  *)
EveryRunEnds ==
    /\ <>(pc[Parent] = "finished")
    /\ \A c \in Children : pc[c] = "admit" ~> pc[c] = "idle"
=============================================================================
