--------------------------- MODULE MCConversation ---------------------------
(* Conversation with answers that have every kind of item, two calls whose *)
(* events mix, arguments that come in pieces, as a whole or not at all,    *)
(* reasoning items below and above what is sent again whole, and a budget  *)
(* that a conversation of a few messages exceeds.  The events of later     *)
(* answers are fewer, to keep the instance small.                          *)
EXTENDS Conversation

Id(turn, k) == ToString(10 * turn + k)
MCAnswersOf(n) ==
    IF n = 1
    THEN { <<>>,
           <<Text(<<"a", "b">>)>>,
           <<Reasoning(<<"r", "s", "t">>),
             ToolCall(Id(n, 1), <<"x", "y">>, TRUE), ToolCall(Id(n, 2), <<"z">>, FALSE)>>,
           <<Reasoning(<<"r">>), Reasoning(<<"s", "t", "u">>),
             Text(<<"a">>), ToolCall(Id(n, 1), <<>>, TRUE)>>,
           <<ToolCall(Id(n, 1), <<"v", "w">>, TRUE), ToolCall(Id(n, 2), <<"x", "y", "z">>, TRUE)>> }
    ELSE { <<Text(<<"a">>)>>,
           <<ToolCall(Id(n, 1), <<"x", "y", "z">>, FALSE)>> }
MCWorkspaceContext == <<User(1), User(2)>>
=============================================================================
