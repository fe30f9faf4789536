---------------------------- MODULE Conversation ----------------------------
(***************************************************************************)
(* The messages of a session between the user and the model: each request  *)
(* is cut to the budget and built from them (ModelContext), each answer is *)
(* collected into them (ModelStream) and shown to the caller of the run    *)
(* (AgentEvents).  RunLoop has the control around it: limiters, budgets,   *)
(* who may call.  Here a turn may be retried, fail, or be interrupted      *)
(* between any two of its tool calls, by a cancellation or by a crash, and *)
(* the conversation goes on from what was stored.                          *)
(***************************************************************************)
EXTENDS AgentEvents, ModelStream

CONSTANTS
    AnswersOf(_),   \* what the model may say in the n-th turn
    UserSizes, ResultSizes,
    System, Tools,  \* sizes of the system prompt and the tool schemas
    WorkspaceContext, \* the messages before the conversation, of the user's role
    OutputTokens,   \* the output configured for the model; 8,192
    MaxToolOutput,  \* of one tool call; 200,000 bytes
    MaxMessages     \* bound

ToolCalls == [id : Strings, args : Nat, result : Nat \cup {NoResult}]
Blocks == [type : {"text", "provider_item"}, size : Nat]
Messages == [role : {"user", "assistant"}, content : Seq(Blocks), calls : Seq(ToolCalls)]

ASSUME ConversationAssumption ==
    /\ {System, Tools, OutputTokens, MaxToolOutput, MaxMessages} \subseteq Nat
    /\ UserSizes \subseteq Nat /\ ResultSizes \subseteq Nat
    /\ WorkspaceContext \in Seq(Messages)
    /\ \A n \in 0..MaxMessages : AnswersOf(n) \subseteq Seq(Items)

(* The model names each of its calls, and never two of two answers alike.  *)
Called(items) == { items[i].id : i \in { j \in DOMAIN items : items[j].type = "call" } }
CalledIn(n) == UNION { Called(items) : items \in AnswersOf(n) }

ASSUME CallsAssumption ==
    /\ \A i \in DOMAIN WorkspaceContext : WorkspaceContext[i].calls = <<>>
    /\ \A n \in 0..MaxMessages : "none" \notin CalledIn(n)
    /\ \A m, n \in 0..MaxMessages : m # n => CalledIn(m) \cap CalledIn(n) = {}

VARIABLES
    messages,       \* session.messages
    phase,          \* idle, ready, calling, tools
    lost,           \* whether an attempt of this turn was repeated
    shown           \* what the caller of the last run was told

vars == <<messages, phase, lost, shown, streamVars>>

NoCall == "none"

Init ==
    /\ Fresh(NoCall, <<>>)
    /\ messages = <<>> /\ phase = "idle" /\ lost = FALSE /\ shown = NothingShown

MaxInput == InputLimit(OutputTokens)

Request == Fitted(System, WorkspaceContext, messages, Tools, MaxInput)

(* A run begins: init() adds the message of the user.                      *)
UserAsks(size) ==
    /\ phase = "idle" /\ Len(messages) < MaxMessages
    /\ messages' = Append(messages, User(size))
    /\ phase' = "ready" /\ shown' = NothingShown
    /\ UNCHANGED <<lost, streamVars>>

(* The request fits into the context, or the run ends with an error.       *)
Begin(name, items) ==
    /\ phase = "ready"
    /\ Request.fits /\ Len(messages) < MaxMessages
    /\ phase' = "calling" /\ lost' = FALSE
    /\ Call(name, items)
    /\ UNCHANGED <<messages, shown>>

TooLarge ==
    /\ phase = "ready" /\ ~Request.fits
    /\ phase' = "idle"
    /\ UNCHANGED <<messages, lost, shown, streamVars>>

Receive ==
    /\ phase = "calling"
    /\ \/ StreamEnd /\ shown' = ShowAll(shown, Unended)
       \/ WholeAnswer /\ shown' = ShowAll(shown, Response)
       \/ \E i \in DOMAIN answer : StreamEvent(i) /\ shown' = ShowAll(shown, NextOut(i))
    /\ UNCHANGED <<messages, phase, lost>>

(* Wrong variant: an answer that was passed on in part is asked for again. *)
AgainAfterOutput(name, items) ==
    /\ phase = "calling" /\ name = provider
    /\ ~over /\ ~lost
    /\ lost' = TRUE
    /\ Call(name, items)
    /\ UNCHANGED <<messages, phase, shown>>

(* A transient error before anyone has noticed: another answer may come.   *)
Again(name, items) ==
    /\ phase = "calling" /\ name = provider
    /\ ~over /\ ~visibleOutput /\ ~lost
    /\ lost' = TRUE
    /\ Call(name, items)
    /\ UNCHANGED <<messages, phase, shown>>

(* Any other error, a cancellation or a crash: the turn leaves no trace.   *)
Fails ==
    /\ phase = "calling" /\ ~over
    /\ phase' = "idle" /\ lost' = FALSE
    /\ Call(NoCall, <<>>)
    /\ UNCHANGED <<messages, shown>>

(* addAssistantMessage(): the provider's items come first, then the text,  *)
(* an empty one if there is nothing else; an answer of neither text nor    *)
(* calls leaves no message.                                                *)
AnswerText ==
    IF collected.content # <<>> \/ collected.items = <<>>
    THEN <<TextBlock(Len(collected.content))>> ELSE <<>>

AssistantMessage ==
    [role |-> "assistant",
     content |-> [k \in DOMAIN collected.items |-> ItemBlock(Len(collected.items[k]))] \o AnswerText,
     calls |-> [k \in DOMAIN collected.calls |->
                   [id |-> collected.calls[k].id, args |-> Len(CollectedCalls[k].args),
                    result |-> NoResult]]]

AddAnswer ==
    /\ phase = "calling" /\ over
    /\ messages' = IF visibleOutput THEN Append(messages, AssistantMessage) ELSE messages
    /\ phase' = IF collected.calls = <<>> THEN "idle" ELSE "tools"
    /\ lost' = FALSE
    /\ Call(NoCall, <<>>)
    /\ UNCHANGED shown

LastCalls == messages[Len(messages)].calls
Open == { k \in DOMAIN LastCalls : LastCalls[k].result = NoResult }

(* limitToolOutput(): too much is cut, and a note put behind it.           *)
Limited(size) == IF size <= MaxToolOutput THEN size ELSE MaxToolOutput + Placeholder

(* A tool call is run: its input is shown, then its output.                *)
ShowCall(call, size) == shown' = ShowOutput(ShowInput(shown, call.id, call.args), call.id, size)

(* The output is stored, and after the last call the loop goes on.         *)
ToolResult(size) ==
    /\ phase = "tools"
    /\ ShowCall(LastCalls[Min(Open)], Limited(size))
    /\ messages' = [messages EXCEPT ![Len(messages)].calls[Min(Open)].result = Limited(size)]
    /\ phase' = IF Cardinality(Open) = 1 THEN "ready" ELSE "tools"
    /\ UNCHANGED <<lost, streamVars>>

(* The outputs exceed the budget of the run, which ends before the last    *)
(* one of them is stored.                                                  *)
OutputTooLarge(size) ==
    /\ phase = "tools"
    /\ ShowCall(LastCalls[Min(Open)], Limited(size))
    /\ phase' = "idle"
    /\ UNCHANGED <<messages, lost, streamVars>>

(* The run ends here, cancelled after a call or over another budget.       *)
Interrupt ==
    /\ phase \in {"tools", "ready"}
    /\ phase' = "idle"
    /\ UNCHANGED <<messages, lost, shown, streamVars>>

(* A cancellation inside a tool is thrown past addToolResults(), as if the *)
(* process were gone: of this turn only the answer was stored.             *)
InterruptTool ==
    /\ phase = "tools"
    /\ messages' = [messages EXCEPT ![Len(messages)].calls =
                        [k \in DOMAIN @ |-> [@[k] EXCEPT !.result = NoResult]]]
    /\ phase' = "idle"
    /\ UNCHANGED <<lost, shown, streamVars>>

Next ==
    \/ \E size \in UserSizes : UserAsks(size)
    \/ \E name \in Providers, items \in AnswersOf(Len(messages)) :
          Begin(name, items) \/ Again(name, items)
    \/ TooLarge \/ Receive \/ Fails \/ AddAnswer \/ Interrupt \/ InterruptTool
    \/ \E size \in ResultSizes : ToolResult(size) \/ OutputTooLarge(size)

Spec == Init /\ [][Next]_vars

-----------------------------------------------------------------------------
(* What the caller was told of the run is what the history shows of it:    *)
(* the same text and calls, and for each output that is stored the one     *)
(* that was shown.  Only a run that has ended may have shown more, and     *)
(* only in its last turn: a part of an answer, or outputs that were not    *)
(* stored (agent.ts:456, agent.ts:362).                                    *)
OwnHistory ==
    LET begin == LatestUser(messages) IN History(SubSeq(messages, begin + 1, Len(messages)))

ToolUsesTold ==
    [k \in DOMAIN shown.calls |->
        [id |-> shown.calls[k].id, args |-> Len(ParsedArgs(shown.calls[k].args))]]

OutputsTold ==
    LET ended == SelectSeq(shown.calls, LAMBDA c : c.output # NoResult)
    IN  [k \in DOMAIN ended |-> [id |-> ended[k].id, output |-> ended[k].output]]

InLastTurn(id) ==
    /\ OwnHistory # <<>>
    /\ \E k \in DOMAIN Last(OwnHistory).toolUses : Last(OwnHistory).toolUses[k].id = id

ShownIsStored ==
    LET text == SumOf(OwnHistory, LAMBDA h : h.text)
        toolUses == FlattenSeq([i \in DOMAIN OwnHistory |-> OwnHistory[i].toolUses])
        outputs == FlattenSeq([i \in DOMAIN OwnHistory |-> OwnHistory[i].outputs])
    IN
    /\ IsPrefix(toolUses, ToolUsesTold) /\ IsPrefix(outputs, OutputsTold)
    /\ \A k \in DOMAIN shown.calls :
          shown.calls[k].input \in {NoResult, ToolUsesTold[k].args}
    /\ IF phase = "idle"
       THEN /\ text <= shown.text
            /\ \A k \in (Len(outputs) + 1)..Len(OutputsTold) : InLastTurn(OutputsTold[k].id)
       ELSE /\ shown.text = text + Len(collected.content)
            /\ Len(shown.calls) = Len(toolUses) + Len(collected.calls)
            /\ OutputsTold = outputs

(* However an answer came, in one piece or in many, at the first attempt   *)
(* or a later one, the turn is what the model said (ModelStream), and the  *)
(* caller saw it.                                                          *)
AnswerReachesAll == TurnIsAnswer /\ ShownIsStored

-----------------------------------------------------------------------------
(* In whatever state a run was left, a request in any of the protocols has *)
(* each call answered once, after it and before anything else is said, and *)
(* no reply without its call (llm_shared.ts:38).                           *)
Replied(said) ==
    /\ \A i \in DOMAIN said :
          said[i].kind = "call" =>
              \E j \in (i + 1)..Len(said) :
                  /\ said[j] = Said("reply", said[i].id)
                  /\ \A k \in i..j : said[k].kind \in {"call", "reply"}
    /\ \A i, j \in DOMAIN said :
          said[i].kind = "reply" /\ said[j].kind = "reply" /\ said[i].id = said[j].id => i = j
    /\ \A i \in DOMAIN said :
          said[i].kind = "reply" => \E j \in 1..(i - 1) : said[j] = Said("call", said[i].id)

OfChat(m) ==
    IF m.role = "tool" THEN <<Said("reply", m.tool_call_id)>>
    ELSE <<Said(m.role, NoReply)>>
         \o [i \in DOMAIN m.tool_calls |-> Said("call", m.tool_calls[i])]

AnsweredIn(entries, blocks, chat) ==
    /\ Replied(ResponseInput(entries))
    /\ Replied(FlattenSeq([i \in DOMAIN blocks |-> blocks[i].blocks]))
    /\ Replied(FlattenSeq([i \in DOMAIN chat |-> OfChat(chat[i])]))

AnsweredInAll(entries) ==
    AnsweredIn(entries, AnthropicMessages(entries), ChatMessages(entries))

RequestAnswered ==
    phase = "ready" /\ Request.fits => AnsweredInAll(Transcript(Request.messages))

(* What is sent fits the budget; it ends with the whole of the user's      *)
(* latest turn; before it come whole turns, and with one turn more it      *)
(* would not fit, even without the marker for what was left out; a context *)
(* message is left out only if it does not fit beside the latest turn; and *)
(* a request is refused only if the latest turn alone, with what is too    *)
(* large in it shortened and the system prompt cut to its minimum, is      *)
(* beyond the budget (fit_model_context.ts).                               *)
TurnStarts == {1} \cup { i \in DOMAIN messages : messages[i].role = "user" }
TurnBefore(first) == Max({ t \in TurnStarts : t < first })

SlimSize(from) ==
    SumOf([i \in 1..(Len(messages) - from + 1) |-> Slimmed(messages[from + i - 1])], MessageSize)

WithContext(R, n) == ContextSize(R.system, SubSeq(WorkspaceContext, 1, n), Tools)

KeepsLatest(R, latest) ==
    IF ~R.fits
    THEN Min({System, MinSystem}) + Tools + SlimSize(latest) > MaxInput
    ELSE /\ R.size <= MaxInput
         /\ R.first \in TurnStarts
         /\ R.first <= latest
         /\ \A i \in R.first..Len(messages) :
               R.messages[Len(R.messages) - (Len(messages) - i)]
                   \in {messages[i], Slimmed(messages[i])}
         /\ R.size = ContextSize(R.system, R.messages, Tools)
         /\ R.system >= Min({System, MinSystem})
         /\ R.first > 1 =>
               WithContext(R, R.context) + SlimSize(TurnBefore(R.first)) > MaxInput
         /\ R.context < Len(WorkspaceContext) =>
               WithContext(R, R.context + 1) + SlimSize(latest) > MaxInput

FitsAndKeepsLatest == phase = "ready" => KeepsLatest(Request, LatestUser(messages))
=============================================================================
