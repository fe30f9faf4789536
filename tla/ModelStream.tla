---------------------------- MODULE ModelStream -----------------------------
(***************************************************************************)
(* One attempt of a model call: the events of a provider are adapted by    *)
(* LlmModel (core/adapters/llm/) and collected by runModelTurn().          *)
(*                                                                         *)
(* An answer is a sequence of items: text, a reasoning item, or a tool     *)
(* call [id, args, deltas], whose arguments come in pieces if `deltas`.    *)
(* A provider sends the events of each item in their order and starts the  *)
(* items in theirs; the events of two tool calls may mix.  With streaming  *)
(* off the answer is one response.                                         *)
(***************************************************************************)
EXTENDS Naturals, Sequences, FiniteSets, SequencesExt, FiniteSetsExt, Filters

CONSTANTS Providers

ASSUME ProvidersAssumption == Providers \subseteq {"openai", "anthropic", "chat"}

VARIABLES
    provider, answer, \* who was asked, and what the model says
    sent,           \* per item, how many of its events have arrived
    states,         \* per call, callsByOutputIndex, blockIndexToToolUseId, pending
    collected,      \* content, toolCalls, items, ended: runModelTurn()'s locals
    over            \* message_end was yielded

streamVars == <<provider, answer, sent, states, collected, over>>

Text(pieces) == [type |-> "text", args |-> pieces, id |-> "none", deltas |-> TRUE]
Reasoning(pieces) == [type |-> "reasoning", args |-> pieces, id |-> "none", deltas |-> FALSE]
ToolCall(id, pieces, deltas) ==
    [type |-> "call", args |-> pieces, id |-> id, deltas |-> deltas]

(* These three are strings, too, but tlapm does not know it.               *)
Strings == STRING \cup {"none", "item", "{}"}
Items == [type : {"text", "reasoning", "call"}, args : Seq(Strings), id : Strings,
          deltas : BOOLEAN]

-----------------------------------------------------------------------------
(* The events of an item.  OpenAI repeats the arguments when they are      *)
(* complete and when the item is, and names the item, not the call, in     *)
(* the events between; Anthropic's block has an end; a chunk of a chat     *)
(* completion names the call once.  Only openai sends reasoning items.     *)
Event(type, value) == [type |-> type, value |-> value]
Deltas(item) ==
    IF item.deltas THEN [k \in DOMAIN item.args |-> Event("delta", <<item.args[k]>>)] ELSE <<>>

Script(item) ==
    CASE item.type = "text" -> Deltas(item)
      [] item.type = "reasoning" -> IF provider = "openai" THEN <<Event("item", item.args)>> ELSE <<>>
      [] item.type = "call" /\ provider = "openai" ->
            <<Event("added", <<>>)>> \o Deltas(item)
            \o <<Event("arguments", item.args), Event("item", item.args)>>
      [] item.type = "call" /\ provider = "anthropic" ->
            <<Event("start", <<>>)>> \o Deltas([item EXCEPT !.deltas = TRUE])
            \o <<Event("stop", <<>>)>>
      [] item.type = "call" /\ provider = "chat" ->
            <<Event("first", IF item.deltas THEN <<>> ELSE item.args)>> \o Deltas(item)

AllSent == \A i \in DOMAIN answer : sent[i] = Len(Script(answer[i]))

(* Item i may send its next event.                                         *)
MaySend(i) ==
    /\ sent[i] < Len(Script(answer[i]))
    /\ \A j \in 1..(i - 1) :
          IF answer[i].type = "call" /\ answer[j].type = "call"
          THEN sent[j] > 0 ELSE sent[j] = Len(Script(answer[j]))

-----------------------------------------------------------------------------
(* The collector.                                                          *)
NothingCollected == [content |-> <<>>, calls |-> <<>>, items |-> <<>>, ended |-> <<>>]

(* pending.set(), pending.get(): a Map keeps the order of insertion.       *)
Collect(c, e) ==
    CASE e.type = "model_call_delta" -> [c EXCEPT !.content = @ \o e.value]
      [] e.type = "model_provider_item" -> [c EXCEPT !.items = Append(@, e.value)]
      [] e.type = "model_tool_call_start" ->
            IF \E k \in DOMAIN c.calls : c.calls[k].id = e.id
            THEN [c EXCEPT !.calls = [k \in DOMAIN @ |->
                     IF @[k].id = e.id THEN [@[k] EXCEPT !.args = <<>>] ELSE @[k]]]
            ELSE [c EXCEPT !.calls = Append(@, [id |-> e.id, args |-> <<>>])]
      [] e.type = "model_tool_call_args_delta" ->
            [c EXCEPT !.calls = [k \in DOMAIN c.calls |->
                IF c.calls[k].id = e.id THEN [c.calls[k] EXCEPT !.args = @ \o e.value]
                ELSE c.calls[k]]]
      [] e.type = "model_tool_call_end" -> [c EXCEPT !.ended = Append(@, e.id)]

CollectAll(c, events) ==
    LET after[n \in 0..Len(events)] == IF n = 0 THEN c ELSE Collect(after[n - 1], events[n])
    IN  after[Len(events)]

Out(type, id, value) == [type |-> type, id |-> id, value |-> value]
TextOut(value) == Out("model_call_delta", "none", value)
StartOut(id) == Out("model_tool_call_start", id, <<>>)
ArgsOut(id, value) == Out("model_tool_call_args_delta", id, value)
EndOut(id) == Out("model_tool_call_end", id, <<>>)
ItemOut(value) == Out("model_provider_item", "none", value)

visibleOutput == collected.content # <<>> \/ collected.calls # <<>>

-----------------------------------------------------------------------------
(* The state of a call in the adapter.                                     *)
NoState == [id |-> "none", args |-> <<>>, started |-> FALSE, ended |-> FALSE]
Known(state) == state.id # "none"

(* stateFor(): the id of the event is taken if none is known yet, or if it *)
(* is the id of the call.                                                  *)
StateFor(state, id, preferId) == IF preferId \/ ~Known(state) THEN [state EXCEPT !.id = id] ELSE state

Started(state) == [state EXCEPT !.started = TRUE]
Ended(state) == [state EXCEPT !.ended = state.started]
StartOf(state) == IF ~state.started /\ Known(state) THEN <<StartOut(state.id)>> ELSE <<>>
EndOf(state) == IF ~state.ended /\ state.started THEN <<EndOut(state.id)>> ELSE <<>>

(* The complete arguments, if no piece of them came before.                *)
WholeArguments(state, args) == IF state.args = <<>> THEN args ELSE <<>>
ArgsOf(state, args) == IF args = <<>> THEN <<>> ELSE <<ArgsOut(state.id, args)>>

(* adaptOpenAIResponseEvent(): the state of the call after the event, and  *)
(* what is passed on.                                                      *)
OpenAI(i, event) ==
    LET item == answer[i]
        old == states[i]
        added == StateFor(old, item.id, TRUE)
        piece == StateFor(old, "item", FALSE)  \* event.item_id
        whole == WholeArguments(old, event.value)
    IN
    IF item.type = "text" THEN [state |-> old, out |-> <<TextOut(event.value)>>]
    ELSE IF item.type = "reasoning" THEN [state |-> old, out |-> <<ItemOut(event.value)>>]
    ELSE
    CASE event.type = "added" -> [state |-> Started(added), out |-> StartOf(added)]
      [] event.type = "delta" ->
            [state |-> [Started(piece) EXCEPT !.args = @ \o event.value],
             out |-> StartOf(piece) \o ArgsOf(piece, event.value)]
      [] event.type = "arguments" ->
            [state |-> Ended([Started(piece) EXCEPT !.args = @ \o whole]),
             out |-> StartOf(piece) \o ArgsOf(piece, whole) \o EndOf(Started(piece))]
      [] event.type = "item" ->
            [state |-> Ended([Started(added) EXCEPT !.args = @ \o whole]),
             out |-> StartOf(added) \o ArgsOf(added, whole) \o EndOf(Started(added))]

(* streamAnthropic(): the index of a block leads to the id of its call.    *)
AnthropicEvent(i, event) ==
    LET item == answer[i]
        old == states[i]
    IN
    IF item.type = "text" THEN [state |-> old, out |-> <<TextOut(event.value)>>]
    ELSE
    CASE event.type = "start" ->
            [state |-> [old EXCEPT !.id = item.id], out |-> <<StartOut(item.id)>>]
      [] event.type = "delta" -> [state |-> old, out |-> <<ArgsOut(old.id, event.value)>>]
      [] event.type = "stop" -> [state |-> old, out |-> <<EndOut(old.id)>>]

(* streamOpenAIChat(): the end of a call is passed on after the last chunk.*)
ChatChunk(i, event) ==
    LET item == answer[i]
        old == states[i]
        named == IF event.type = "first" THEN [old EXCEPT !.id = item.id] ELSE old
    IN
    IF item.type = "text" THEN [state |-> old, out |-> <<TextOut(event.value)>>]
    ELSE [state |-> [Started(named) EXCEPT !.args = @ \o event.value],
          out |-> StartOf(named) \o ArgsOf(named, event.value)]

Adapt(i, event) ==
    CASE provider = "openai" -> OpenAI(i, event)
      [] provider = "anthropic" -> AnthropicEvent(i, event)
      [] provider = "chat" -> ChatChunk(i, event)

(* Calls that were started and not ended, in the order of the map.         *)
Unended ==
    FlattenSeq([i \in DOMAIN answer |-> IF provider = "anthropic" THEN <<>> ELSE EndOf(states[i])])

-----------------------------------------------------------------------------
(* The response as a whole: responses.ts,                                  *)
WholeText(item) == IF item.args = <<>> THEN <<>> ELSE <<TextOut(item.args)>>
WholeCall(item, args) ==
    <<StartOut(item.id)>> \o (IF args = <<>> THEN <<>> ELSE <<ArgsOut(item.id, args)>>)
    \o <<EndOut(item.id)>>

ResponseItem(item) ==
    CASE item.type = "text" -> WholeText(item)
      [] item.type = "reasoning" -> <<ItemOut(item.args)>>
      [] item.type = "call" -> WholeCall(item, item.args)

(* anthropic.ts, which writes the arguments out as JSON,                   *)
AnthropicBlock(item) ==
    CASE item.type = "text" -> WholeText(item)
      [] item.type = "reasoning" -> <<>>
      [] item.type = "call" -> WholeCall(item, IF item.args = <<>> THEN <<"{}">> ELSE item.args)

(* and chat.ts, where the text comes before the calls.                     *)
OfType(type) == Kept(answer, { item \in ToSet(answer) : item.type = type })

ChatMessage ==
    LET texts == OfType("text")
        calls == OfType("call")
    IN  WholeText(Text(FlattenSeq([i \in DOMAIN texts |-> texts[i].args])))
        \o FlattenSeq([i \in DOMAIN calls |-> WholeCall(calls[i], calls[i].args)])

Response ==
    IF provider = "chat" THEN ChatMessage
    ELSE FlattenSeq([i \in DOMAIN answer |->
            IF provider = "openai" THEN ResponseItem(answer[i]) ELSE AnthropicBlock(answer[i])])

(* A call of no arguments may say so with an empty object.                 *)
ParsedArgs(args) == IF args = <<"{}">> THEN <<>> ELSE args
CollectedCalls ==
    [k \in DOMAIN collected.calls |-> [collected.calls[k] EXCEPT !.args = ParsedArgs(@)]]

(* The locals of an attempt, before its first event.                       *)
Fresh(name, items) ==
    /\ provider = name /\ answer = items
    /\ sent = [i \in DOMAIN items |-> 0]
    /\ states = [i \in DOMAIN items |-> NoState]
    /\ collected = NothingCollected
    /\ over = FALSE

(* Nothing of an attempt before is kept.                                   *)
Call(name, items) ==
    /\ provider' = name /\ answer' = items
    /\ sent' = [i \in DOMAIN items |-> 0]
    /\ states' = [i \in DOMAIN items |-> NoState]
    /\ collected' = NothingCollected
    /\ over' = FALSE

(* An event of the stream.                                                 *)
Adapted(i) == Adapt(i, Script(answer[i])[sent[i] + 1])
NextOut(i) == Adapted(i).out

StreamEvent(i) ==
    /\ ~over /\ MaySend(i)
    /\ sent' = [sent EXCEPT ![i] = @ + 1]
    /\ states' = [states EXCEPT ![i] = Adapted(i).state]
    /\ collected' = CollectAll(collected, NextOut(i))
    /\ UNCHANGED <<provider, answer, over>>

(* The stream is over.                                                     *)
StreamEnd ==
    /\ ~over /\ AllSent
    /\ collected' = CollectAll(collected, Unended)
    /\ over' = TRUE
    /\ UNCHANGED <<provider, answer, sent, states>>

(* The answer without streaming.                                           *)
WholeAnswer ==
    /\ ~over /\ \A i \in DOMAIN answer : sent[i] = 0
    /\ sent' = [i \in DOMAIN answer |-> Len(Script(answer[i]))]
    /\ collected' = CollectAll(collected, Response)
    /\ over' = TRUE
    /\ UNCHANGED <<provider, answer, states>>

-----------------------------------------------------------------------------
CallsOfAnswer ==
    LET calls == OfType("call")
    IN [i \in DOMAIN calls |-> [id |-> calls[i].id, args |-> calls[i].args]]

(* However its events mix and whichever provider sent them, with streaming *)
(* or without, the turn is what the model said: its text, its calls in     *)
(* order with their arguments exactly once, its reasoning items in order   *)
(* and once; and every call that was begun was ended once.  At any moment  *)
(* before, what was passed on is a beginning of that (run_model_turn.ts,   *)
(* llm/).                                                                  *)
TurnIsAnswer ==
    LET texts == OfType("text")
        said == FlattenSeq([i \in DOMAIN texts |-> texts[i].args])
        items == OfType("reasoning")
        reasoning == [i \in DOMAIN items |-> items[i].args]
        calls == CallsOfAnswer
    IN
    /\ IsPrefix(collected.content, said)
    /\ \A k \in DOMAIN CollectedCalls :
          /\ CollectedCalls[k].id = calls[k].id
          /\ IsPrefix(CollectedCalls[k].args, calls[k].args)
    /\ over =>
          /\ collected.content = said
          /\ CollectedCalls = calls
          /\ collected.items = IF provider = "openai" THEN reasoning ELSE <<>>
          /\ Len(collected.ended) = Len(calls)
          /\ ToSet(collected.ended) = { calls[i].id : i \in DOMAIN calls }
=============================================================================
