----------------------------- MODULE MCRunLoop ------------------------------
(* RunLoop with two children, another run of the process and limiters of   *)
(* one place, so that they stand in each other's way.                      *)
EXTENDS RunLoop

MCAnswers ==
    [a \in Agents |->
        IF a = Parent
        THEN {<<>>, <<"subagents", "bad">>, <<"paid">>}
        ELSE {<<>>, <<"plain">>}]

MCErrors ==
    { [status |-> 503, lost |-> FALSE, exceeds |-> FALSE],
      [status |-> 429, lost |-> FALSE, exceeds |-> TRUE],
      [status |-> 403, lost |-> FALSE, exceeds |-> FALSE] }

MCMaxTurns == [a \in Agents |-> IF a = Parent THEN 3 ELSE 1]
MCMaxKind == [k \in CountedKinds |-> 1]
=============================================================================
