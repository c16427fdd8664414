------------------------- MODULE MCExpressionParser -------------------------
(* Inputs for TLC: any two operators next to each other; operators of       *)
(* several precedences and brackets; function types with parameters,        *)
(* results and tags; literals in curly brackets; array types, indices and   *)
(* lists of values.                                                         *)
EXTENDS ExpressionGrammar

Inputs(statements, tokens, length) ==
    [statements |-> statements, tokens |-> tokens, length |-> length]

MCAlphabets ==
    {Inputs({"using"}, {"a", ".", "@", "!"} \cup DOMAIN Precedence, 5),
     Inputs({"constant"}, {"a", "-", "*", "==", "(", ")"}, 7),
     Inputs({"using"}, {"a", "(", ")", "->", ",", ":", "$", "#"}, 8),
     Inputs({"constant"}, {"a", "(", ")", ":", ",", "+", "."}, 6),
     Inputs({"using"}, {"a", "1", "{", "}", ",", "="}, 7),
     Inputs({"return"}, {"a", "1", "[", "]", "@", ".", ","}, 6),
     Inputs({"using"}, {"a", "bake", "#", "(", ")", "@", "."}, 6)}

MCMiddles ==
    {<<>>, <<"a">>, <<":", "a">>, <<"a", ":", "a">>, <<"=", "a">>, <<"a", "=", "a">>,
     <<"bake", "a", "(">>}
=============================================================================
