---------------------------- MODULE ModelContext ----------------------------
(***************************************************************************)
(* What is sent to the language model: fitModelContext() cuts the          *)
(* conversation to the budget of the model (runner/fit_model_context.ts),  *)
(* which is what modelInputLimit() leaves of its window;                   *)
(* llmToTranscriptEntry() and the three builders of llm_shared.ts turn it  *)
(* into the messages of the provider's protocol.                           *)
(*                                                                         *)
(* A message is [role, content, calls], its content a sequence of blocks   *)
(* [type, size]: text, or an item of the provider that is sent back to it. *)
(* A call is [id, args, result] with the sizes of its arguments and its    *)
(* result, NoResult when it has none.  The sizes stand for contextBytes()  *)
(* in tokens and add up; the punctuation of JSON and the constant 32 are   *)
(* left out.                                                               *)
(***************************************************************************)
EXTENDS Integers, Sequences, FiniteSets, SequencesExt, FiniteSetsExt

CONSTANTS
    NoResult,       \* the result of a call that was interrupted
    MaxItem,        \* MAX_CONTEXT_TOOL_RESULT_TOKENS, 2,048
    MinSystem,      \* 1,536 characters of the system prompt are always kept
    CutStep,        \* 512 characters are cut at a time
    MarkerLength,   \* characters of the marker for what was cut
    MarkerSize,     \* and what they take
    ContextTokens,  \* DEFAULT_MODEL_CONTEXT_TOKENS, 32,768
    SafetyTokens,   \* MODEL_CONTEXT_SAFETY_TOKENS, 1,024
    MaxOutputTokens, \* 65,536
    MinInputTokens  \* 256

ASSUME ModelContextAssumption ==
    /\ {MaxItem, MinSystem, MarkerLength, MarkerSize} \subseteq Nat
    /\ {ContextTokens, SafetyTokens, MaxOutputTokens, MinInputTokens} \subseteq Nat \ {0}
    /\ CutStep \in Nat \ {0}
    /\ NoResult \notin Nat

(* What a request may take, with so many tokens configured for the output. *)
ModelOutputLimit(configured) == Min({configured, MaxOutputTokens})
ModelInputLimit(maxOutput) == ContextTokens - maxOutput - SafetyTokens
InputLimit(configured) == Max({MinInputTokens, ModelInputLimit(ModelOutputLimit(configured))})

Placeholder == 1    \* the size of "[... omitted]" in place of something larger

TextBlock(size) == [type |-> "text", size |-> size]
ItemBlock(size) == [type |-> "provider_item", size |-> size]
User(size) == [role |-> "user", content |-> <<TextBlock(size)>>, calls |-> <<>>]

Total(numbers) ==
    LET total[n \in 0..Len(numbers)] == IF n = 0 THEN 0 ELSE total[n - 1] + numbers[n]
    IN  total[Len(numbers)]
SumOf(seq, Op(_)) == Total([i \in DOMAIN seq |-> Op(seq[i])])

CallSize(call) == call.args + (IF call.result = NoResult THEN 0 ELSE call.result)
BlockSize(block) == block.size
MessageSize(m) == SumOf(m.content, BlockSize) + SumOf(m.calls, CallSize)
ContextSize(system, messages, tools) == system + tools + SumOf(messages, MessageSize)

(* In an assistant's message arguments and results that are too large give *)
(* way to a placeholder, and a provider's item that is to a text.          *)
Shortened(size) == IF size # NoResult /\ size > MaxItem THEN Placeholder ELSE size
SlimCall(call) == [call EXCEPT !.args = Shortened(@), !.result = Shortened(@)]
SlimBlock(block) ==
    IF block.type = "provider_item" /\ block.size > MaxItem THEN TextBlock(Placeholder) ELSE block
Slimmed(m) ==
    IF m.role # "assistant" THEN m
    ELSE [m EXCEPT !.content = [i \in DOMAIN @ |-> SlimBlock(@[i])],
                   !.calls = [i \in DOMAIN @ |-> SlimCall(@[i])]]

(* The index of the message the current turn of the user begins with.      *)
LatestUser(messages) ==
    LET users == { i \in DOMAIN messages : messages[i].role = "user" }
    IN IF users # {} THEN Max(users) ELSE Len(messages)

(* The start of the turn before the message at cursor.                     *)
PreviousUser(messages, cursor) ==
    Max({1} \cup { i \in 1..(cursor - 1) : messages[i].role = "user" })

(* What the system prompt takes when it is cut until the rest fits with    *)
(* it: once by the excess, then in steps, at last to the minimum.  What is *)
(* cut is counted in characters, and the marker that takes its place is    *)
(* heavier than its characters, because JSON escapes some of them.         *)
CutSystem(system, rest, limit) ==
    LET least == Min({system, MinSystem})
        first == Max({least, system - (system + rest - limit) - MarkerLength})
        cut[kept \in least..system] ==
            IF kept + MarkerSize + rest <= limit THEN kept + MarkerSize
            ELSE IF kept <= least THEN least
            ELSE cut[kept - Min({CutStep, kept - least})]
    IN  IF system + rest <= limit THEN system ELSE cut[first]

(* Context messages are dropped from the end until the rest fits.          *)
KeptContext(context, rest, limit) ==
    LET fits == { n \in 0..Len(context) :
                    rest + SumOf(SubSeq(context, 1, n), MessageSize) <= limit }
    IN SubSeq(context, 1, IF fits = {} THEN 0 ELSE Max(fits))

(* Wrong variant: earlier messages are added one at a time.                *)
EarliestKeptByMessage(messages, latest, rest, limit) ==
    LET start[cursor \in 1..latest] ==
            IF cursor = 1 THEN 1
            ELSE IF rest + SumOf(SubSeq(messages, cursor - 1, Len(messages)), MessageSize) > limit
                 THEN cursor
            ELSE start[cursor - 1]
    IN start[latest]

(* Earlier turns are added, the latest first, while they fit.              *)
EarliestKept(messages, latest, rest, limit) ==
    LET start[cursor \in 1..latest] ==
            IF cursor = 1 THEN 1
            ELSE LET previous == PreviousUser(messages, cursor) IN
                 IF rest + SumOf(SubSeq(messages, previous, Len(messages)), MessageSize) > limit
                 THEN cursor
                 ELSE start[previous]
    IN start[latest]

(* The result of a cut that succeeded; `context` tells how many of the     *)
(* context messages were kept, and `first` is the index of the first       *)
(* message of the conversation that was.                                   *)
FittedTo(system, context, first, sent, tools) ==
    [fits |-> TRUE, system |-> system, messages |-> sent, context |-> context, first |-> first,
     size |-> ContextSize(system, sent, tools)]

(* A marker stands for the messages that were left out, if there is room.  *)
Marked(chosen, first, rest, max) ==
    LET marked == <<User(Placeholder)>> \o chosen
    IN IF first > 1 /\ rest + SumOf(marked, MessageSize) <= max THEN marked ELSE chosen

WithEarlier(system, kept, slim, latest, rest, tools, max) ==
    LET first == EarliestKept(slim, latest, rest, max)
    IN FittedTo(system, Len(kept), first,
                kept \o Marked(SubSeq(slim, first, Len(slim)), first, rest, max), tools)

(* Room is made for the user's turn: first in the system prompt, then in   *)
(* the context messages.                                                   *)
FittedAround(system, context, slim, latest, turnSize, tools, max) ==
    LET cut == CutSystem(system, turnSize, max)
        kept == KeptContext(context, cut + turnSize, max)
    IN  WithEarlier(cut, kept, slim, latest, ContextSize(cut, kept, tools), tools, max)

(* The size of the user's turn, which is never cut.                        *)
TurnSizeOf(slim, tools) == ContextSize(0, SubSeq(slim, LatestUser(slim), Len(slim)), tools)

FittedSlim(system, context, slim, turnSize, tools, max) ==
    IF Min({system, MinSystem}) + turnSize > max THEN [fits |-> FALSE]
    ELSE FittedAround(system, context, slim, LatestUser(slim), turnSize, tools, max)

SlimmedAll(messages) == [i \in DOMAIN messages |-> Slimmed(messages[i])]

(* fitModelContext(); `fits` is FALSE when it throws.                      *)
Fitted(system, context, messages, tools, max) ==
    IF ContextSize(system, context \o messages, tools) <= max
    THEN FittedTo(system, Len(context), 1, context \o messages, tools)
    ELSE FittedSlim(system, context, SlimmedAll(messages),
                    TurnSizeOf(SlimmedAll(messages), tools), tools, max)

-----------------------------------------------------------------------------
(* llmToTranscriptEntry(): an assistant's message is followed by a reply   *)
(* to each of its calls, a made up one if it has none.  An entry keeps the *)
(* number of its text blocks that are not empty.                           *)
NoReply == "none"
Entry(role, texts, calls, reply) ==
    [role |-> role, texts |-> texts, calls |-> calls, reply |-> reply]
UserEntry == Entry("user", 1, <<>>, NoReply)
ToolEntry(id) == Entry("tool", 1, <<>>, id)
Texts(m) ==
    Cardinality({ i \in DOMAIN m.content : m.content[i].type = "text" /\ m.content[i].size > 0 })
Ids(calls) == [i \in DOMAIN calls |-> calls[i].id]

(* Wrong variant: a call without a result gets no reply.                   *)
TranscriptOfAnswered(m) ==
    IF m.role = "user" THEN <<UserEntry>>
    ELSE LET answered == SelectSeq(m.calls, LAMBDA c : c.result # NoResult) IN
         <<Entry("assistant", Texts(m), Ids(m.calls), NoReply)>>
         \o [i \in DOMAIN answered |-> ToolEntry(answered[i].id)]

TranscriptOf(m) ==
    IF m.role = "user" THEN <<UserEntry>>
    ELSE IF Texts(m) = 0 /\ m.calls = <<>> THEN <<>>
    ELSE <<Entry("assistant", Texts(m), Ids(m.calls), NoReply)>>
         \o [i \in DOMAIN m.calls |-> ToolEntry(m.calls[i].id)]

Transcript(messages) == FlattenSeq([i \in DOMAIN messages |-> TranscriptOf(messages[i])])

(* The three protocols, as far as they tell who speaks, what is called and *)
(* what is replied to.                                                     *)
Said(kind, id) == [kind |-> kind, id |-> id]
Calls(entry) == [i \in DOMAIN entry.calls |-> Said("call", entry.calls[i])]
TextOf(entry) == IF entry.texts > 0 THEN <<Said(entry.role, NoReply)>> ELSE <<>>

(* llmBuildResponseInput(): the texts are one message, and every call is   *)
(* an item of its own.                                                     *)
ResponseInput(entries) ==
    FlattenSeq([i \in DOMAIN entries |->
        IF entries[i].role = "tool" THEN <<Said("reply", entries[i].reply)>>
        ELSE TextOf(entries[i]) \o Calls(entries[i])])

(* llmBuildAnthropicMessages(): texts and calls are blocks of a message,   *)
(* which is never without one, and each reply is a message of the user.    *)
AnthropicBlocks(entry) ==
    IF entry.role = "tool" THEN <<Said("reply", entry.reply)>>
    ELSE IF entry.texts = 0 /\ entry.calls = <<>> THEN <<Said(entry.role, NoReply)>>
    ELSE [i \in 1..entry.texts |-> Said(entry.role, NoReply)] \o Calls(entry)

AnthropicMessages(entries) ==
    [i \in DOMAIN entries |->
        [role |-> IF entries[i].role = "tool" THEN "user" ELSE entries[i].role,
         blocks |-> AnthropicBlocks(entries[i])]]

(* llmBuildChatMessages(): after the system message; a reply is a message  *)
(* of its own role, and names its call.                                    *)
ChatMessages(entries) ==
    <<[role |-> "system", tool_calls |-> <<>>, tool_call_id |-> NoReply]>>
    \o [i \in DOMAIN entries |->
          [role |-> entries[i].role, tool_calls |-> entries[i].calls,
           tool_call_id |-> entries[i].reply]]
=============================================================================
