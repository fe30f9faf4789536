----------------------------- MODULE AgentEvents -----------------------------
(***************************************************************************)
(* What the caller of a run is told of it (agent.ts): process() passes the *)
(* events of the run through runtimeEventToAgentEvents() and adds up the   *)
(* text; getLastMessages() shows the stored messages afterwards, at most   *)
(* fifty of them, which no instance reaches.                               *)
(*                                                                         *)
(* Text counts by its size.  A call that is shown is [id, args, input,     *)
(* output]: the arguments as the model wrote them, and from the moment the *)
(* call is run the size of its input; NoResult while there is no output.   *)
(***************************************************************************)
EXTENDS ModelContext

(* response and streamingToolArgs, and the calls the caller was told of.   *)
NothingShown == [text |-> 0, calls |-> <<>>]

WithCall(shown, id, Change(_)) ==
    [shown EXCEPT !.calls = [k \in DOMAIN @ |-> IF @[k].id = id THEN Change(@[k]) ELSE @[k]]]

(* A call is announced while the model still writes it, and announced      *)
(* again when it is run; pieces of a call that was not announced are       *)
(* dropped.  The ends of calls and the provider's own items are not shown. *)
Announced(shown, id) ==
    IF \E k \in DOMAIN shown.calls : shown.calls[k].id = id THEN shown
    ELSE [shown EXCEPT !.calls = Append(@,
            [id |-> id, args |-> <<>>, input |-> NoResult, output |-> NoResult])]

Announce(shown, id) == WithCall(Announced(shown, id), id, LAMBDA c : [c EXCEPT !.args = <<>>])

Show(shown, e) ==
    CASE e.type = "model_call_delta" -> [shown EXCEPT !.text = @ + Len(e.value)]
      [] e.type = "model_tool_call_start" -> Announce(shown, e.id)
      [] e.type = "model_tool_call_args_delta" ->
            WithCall(shown, e.id, LAMBDA c : [c EXCEPT !.args = @ \o e.value])
      [] e.type \in {"model_tool_call_end", "model_provider_item"} -> shown

ShowAll(shown, events) == FoldLeft(Show, shown, events)

(* tool_call_start of a call that is run carries the input, tool_call_end  *)
(* the output.                                                             *)
ShowInput(shown, id, size) ==
    WithCall(Announced(shown, id), id, LAMBDA c : [c EXCEPT !.input = size])
ShowOutput(shown, id, size) == WithCall(shown, id, LAMBDA c : [c EXCEPT !.output = size])

-----------------------------------------------------------------------------
(* toHistoryMessages(): the message with its calls, then the output of     *)
(* each call that has one.  Only text is shown of its content.             *)
TextSize(block) == IF block.type = "text" THEN block.size ELSE 0
HistoryBlocks(m) == [k \in DOMAIN m.calls |-> [id |-> m.calls[k].id, args |-> m.calls[k].args]]

Outputs(calls) ==
    LET ended == SelectSeq(calls, LAMBDA c : c.result # NoResult)
    IN [k \in DOMAIN ended |-> [id |-> ended[k].id, output |-> ended[k].result]]

HistoryOf(m) ==
    [role |-> m.role, text |-> SumOf(m.content, TextSize), toolUses |-> HistoryBlocks(m), outputs |-> Outputs(m.calls)]

History(messages) == [i \in DOMAIN messages |-> HistoryOf(messages[i])]
=============================================================================
