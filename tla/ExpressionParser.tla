-------------------------- MODULE ExpressionParser --------------------------
(***************************************************************************)
(* The expressions of the language, as parser.cpp parses them: a climb     *)
(* over precedences, with a copy of the same lines for every operator, in  *)
(* three statements that are little more than an expression.  The parser   *)
(* calls itself: stack holds the calls of parse_expression and             *)
(* parse_expression_continuation, innermost last.                          *)
(*                                                                         *)
(* A token is chosen when it is looked at.  Texts and ranges are left out: *)
(* a leaf of the tree is the position of its token.                        *)
(***************************************************************************)
EXTENDS Naturals, SequencesExt

CONSTANT Alphabets  \* what inputs are made of: a statement, tokens, and how many

Beginnings == {"using", "return", "constant"}

ASSUME AlphabetsAssumption ==
    \A of \in Alphabets :
        /\ of.statements \subseteq Beginnings
        /\ of.length \in Nat

VARIABLES
    alphabet,   \* what this input is made of
    statement,  \* the statement the expression stands in
    input,      \* the tokens consumed
    next,       \* the token that peek_token returns
    stack,      \* the calls under way
    outcome,    \* whether the parser is still going, or what it returned
    reported,   \* whether an error was printed
    skipped     \* what the parser went on without: closing brackets

vars == <<alphabet, statement, input, next, stack, outcome, reported, skipped>>

(* OperatorPrecedence.                                                     *)
None == 0
BooleanOr == 1
BooleanAnd == 2
BitwiseOr == 3
BitwiseAnd == 4
Comparison == 5
BitwiseShift == 6
Additive == 7
Multiplicitive == 8
Cast == 9
PrefixUnary == 10
PostfixUnary == 11

(* The precedence written at each case of parse_expression_continuation    *)
(* for an operator between two expressions, and at the call for its right  *)
(* operand.                                                                *)
Precedence ==
    [operator \in {"+", "-", "*", "/", "%", "&", "&&", "|", "||", "==", "!=",
                   "<", ">", "<<", ">>", "as"} |->
        CASE operator \in {"+", "-"} -> Additive
          [] operator \in {"*", "/", "%"} -> Multiplicitive
          [] operator = "&" -> BitwiseAnd
          [] operator = "&&" -> BooleanAnd
          [] operator = "|" -> BitwiseOr
          [] operator = "||" -> BooleanOr
          [] operator \in {"==", "!=", "<", ">"} -> Comparison
          [] operator \in {"<<", ">>"} -> BitwiseShift
          [] operator = "as" -> Cast]

(* Mutants: a right operand is parsed as if it stood in brackets, or takes *)
(* the operators of its own precedence.                                    *)
RightMinimum_None(operator) == None

RightMinimum_Right(operator) == Precedence[operator] - 1

RightMinimum(operator) == Precedence[operator]

PrefixOperators == {"*", "@", "!", "-"}

Identifiers == {"a", "as", "bake"}

Literals == {"1"}

(* Expressions; parts are the expressions an expression is made of.        *)
Node(kind, parts) == [kind |-> kind, token |-> 0, parts |-> parts]

Leaf(position) == [kind |-> "Leaf", token |-> position, parts |-> <<>>]

(* A call: where it is, the minimum_precedence it was given, the kind of   *)
(* expression it is making, and what it has of it.                         *)
Call(at, minimum) ==
    [at |-> at, minimum |-> minimum, kind |-> "", parts |-> <<>>]

Continuation(minimum, expression) ==
    [Call("Continuation", minimum) EXCEPT !.parts = <<expression>>]

Init ==
    /\ alphabet \in Alphabets
    /\ statement \in alphabet.statements
    /\ input = <<>>
    /\ next \in alphabet.tokens \cup {";"}
    /\ stack = <<Call(statement, None)>>
    /\ outcome = "parsing"
    /\ reported = FALSE
    /\ skipped = {}

Top == Last(stack)

At(place) == outcome = "parsing" /\ Top.at = place

consume_token ==
    /\ input' = Append(input, next)
    /\ next' \in {";"} \cup (IF Len(input') < alphabet.length
                              THEN alphabet.tokens ELSE {})

Peek == UNCHANGED <<input, next>>

(* The innermost call goes on as call, calls parse_expression, or calls    *)
(* parse_expression_continuation for an expression.                        *)
GoOn(call) ==
    /\ stack' = Append(Front(stack), call)
    /\ UNCHANGED <<alphabet, statement, outcome, reported, skipped>>

ParseWithin(call, minimum) ==
    /\ stack' = Front(stack) \o <<call, Call("Expression", minimum)>>
    /\ UNCHANGED <<alphabet, statement, outcome, skipped>>

Parse(call, minimum) == ParseWithin(call, minimum) /\ UNCHANGED reported

Continue(call, expression) ==
    /\ stack' = Front(stack) \o <<call, Continuation(None, expression)>>
    /\ UNCHANGED <<alphabet, statement, outcome, reported, skipped>>

End(with) ==
    /\ outcome' = with
    /\ UNCHANGED <<alphabet, statement, stack, skipped>>

error == Peek /\ End("rejected") /\ reported' = TRUE

Goes(place) == [Top EXCEPT !.at = place]

Making(place, kind) == [Goes(place) EXCEPT !.kind = kind]

With(place, part) == [Goes(place) EXCEPT !.parts = Append(@, part)]

(* The end of the switch of parse_expression: left_expression is known.    *)
Left(expression) == Continuation(Top.minimum, expression)

Expect(place, tokens, Then) ==
    /\ At(place)
    /\ \/ next \in tokens /\ consume_token /\ Then
       \/ next \notin tokens /\ error

-----------------------------------------------------------------------------
(* parse_expression: what begins an expression.                            *)

Atom ==
    /\ At("Expression")
    /\ next \in Identifiers \cup Literals
    /\ consume_token
    /\ GoOn(Left(Leaf(Len(input'))))

Prefix ==
    /\ At("Expression")
    /\ next \in PrefixOperators
    /\ consume_token
    /\ Parse(Making("Operand", next), PrefixUnary)

Begins ==
    [token \in {"#", "(", "{", "["} |->
        CASE token = "#" -> "Hash"
          [] token = "(" -> "Round"
          [] token = "{" -> "Curly"
          [] token = "[" -> "Square"]

Bracket ==
    /\ At("Expression")
    /\ next \in DOMAIN Begins
    /\ consume_token
    /\ GoOn(Goes(Begins[next]))

NoExpression ==
    /\ At("Expression")
    /\ next \notin Identifiers \cup Literals \cup PrefixOperators \cup DOMAIN Begins
    /\ error

Hash == Expect("Hash", {"bake"}, Parse(Goes("Baked"), PrefixUnary))

-----------------------------------------------------------------------------
(* Round brackets: an expression, or the parameters of a function type.    *)

Round ==
    /\ At("Round")
    /\ \/ next = "$" /\ Peek /\ GoOn(Goes("Parameter"))
       \/ next = ")" /\ consume_token /\ GoOn(Goes("NoParameters"))
       \/ /\ next \in Identifiers
          /\ consume_token
          /\ GoOn(With("RoundIdentifier", Leaf(Len(input'))))
       \/ /\ next \notin {"$", ")"} \cup Identifiers
          /\ Peek
          /\ Parse(Goes("Grouped"), None)

(* Mutant: a name that begins a bracket is all there is in it.             *)
RoundIdentifier_Alone ==
    /\ At("RoundIdentifier")
    /\ Peek
    /\ \/ next = ":" /\ GoOn([Making("ParameterColon", "Parameter") EXCEPT !.parts = <<>>])
       \/ next # ":" /\ GoOn(Goes("Grouped"))

RoundIdentifier ==
    /\ At("RoundIdentifier")
    /\ Peek
    /\ \/ next = ":" /\ GoOn([Making("ParameterColon", "Parameter") EXCEPT !.parts = <<>>])
       \/ next # ":" /\ Continue([Goes("Grouped") EXCEPT !.parts = <<>>], Last(Top.parts))

Grouped == Expect("Grouped", {")"}, GoOn(Left(Last(Top.parts))))

(* parse_function_parameter_second_half, and the parameters after it.      *)
Parameter ==
    /\ At("Parameter")
    /\ \/ next = "$" /\ consume_token /\ GoOn(Making("ParameterName", "ConstantParameter"))
       \/ next # "$" /\ Peek /\ GoOn(Making("ParameterName", "Parameter"))

ParameterName == Expect("ParameterName", Identifiers, GoOn(Goes("ParameterColon")))

ParameterColon == Expect("ParameterColon", {":"}, GoOn(Goes("ParameterType")))

ParameterType ==
    /\ At("ParameterType")
    /\ \/ next = "$" /\ consume_token /\ GoOn(Goes("Determiner"))
       \/ next # "$" /\ Peek /\ Parse(Goes("Parameters"), None)

Determiner ==
    Expect("Determiner", Identifiers, GoOn(With("Parameters", Node(Top.kind, <<>>))))

Parameters ==
    /\ At("Parameters")
    /\ \/ next = "," /\ consume_token /\ GoOn(Goes("Parameter"))
       \/ next = ")" /\ consume_token /\ GoOn(Goes("AfterParameters"))
       \/ next \notin {",", ")"} /\ error

AfterParameters ==
    \E place \in {"AfterParameters", "NoParameters"} :
        /\ At(place)
        /\ \/ /\ next = "->"
              /\ consume_token
              /\ GoOn(Making("Returns",
                             IF place = "NoParameters" THEN "LastReturn" ELSE "Return"))
           \/ next # "->" /\ Peek /\ GoOn(Goes("Tags"))

Returns ==
    /\ At("Returns")
    /\ \/ next = "(" /\ consume_token /\ Parse(Goes("ReturnTypes"), None)
       \/ next # "(" /\ Peek /\ Parse(Goes("ReturnType"), None)

(* Of a function type without parameters the bracket is not consumed; and  *)
(* after the error the loop goes on with the next return type.             *)
ReturnTypes ==
    /\ At("ReturnTypes")
    /\ \/ next = "," /\ consume_token /\ Parse(Top, None)
       \/ next = ")" /\ Top.kind = "Return" /\ consume_token /\ GoOn(Goes("Tags"))
       \/ /\ next = ")" /\ Top.kind = "LastReturn"
          /\ Peek
          /\ stack' = Append(Front(stack), Goes("Tags"))
          /\ skipped' = skipped \cup {next}
          /\ UNCHANGED <<alphabet, statement, outcome, reported>>
       \/ /\ next \notin {",", ")"}
          /\ Peek
          /\ ParseWithin(Top, None)
          /\ reported' = TRUE

(* parse_tags, and the function type it belongs to.                        *)
Tags ==
    /\ At("Tags")
    /\ \/ next = "#" /\ consume_token /\ GoOn(Goes("TagName"))
       \/ next # "#" /\ Peek /\ GoOn(Left(Node("FunctionType", Top.parts)))

TagName ==
    Expect("TagName", Identifiers, GoOn([With("Tag", Node("Tag", <<>>)) EXCEPT !.kind = "Tag"]))

Tag ==
    /\ At("Tag")
    /\ \/ next = "(" /\ consume_token /\ GoOn(Goes("TagBegins"))
       \/ next # "(" /\ Peek /\ GoOn(Goes("Tags"))

TagBegins ==
    /\ At("TagBegins")
    /\ \/ next = ")" /\ consume_token /\ GoOn(Goes("Tags"))
       \/ next # ")" /\ Peek /\ Parse(Goes("TagParameters"), None)

-----------------------------------------------------------------------------
(* Curly and square brackets at the beginning of an expression.            *)

Curly ==
    /\ At("Curly")
    /\ \/ next = "}" /\ consume_token /\ GoOn(Left(Node("ArrayLiteral", <<>>)))
       \/ /\ next \in Identifiers
          /\ consume_token
          /\ GoOn(With("CurlyIdentifier", Leaf(Len(input'))))
       \/ /\ next \notin {"}"} \cup Identifiers
          /\ Peek
          /\ Parse(Making("FirstElement", "ArrayLiteral"), None)

CurlyIdentifier ==
    LET struct == [Making("Members", "StructLiteral") EXCEPT !.parts = <<>>]
        array == [Making("Elements", "ArrayLiteral") EXCEPT !.parts = <<>>]
    IN  /\ At("CurlyIdentifier")
        /\ \/ next = "=" /\ consume_token /\ Parse(struct, None)
           \/ next = "}" /\ consume_token /\ GoOn(Left(Node("ArrayLiteral", Top.parts)))
           \/ next \notin {"=", "}"} /\ Peek /\ Continue(array, Last(Top.parts))

(* This copy of the switch has no default: whatever follows the first      *)
(* element, if not a comma, is left to the caller.                         *)
FirstElement ==
    /\ At("FirstElement")
    /\ \/ next = "," /\ consume_token /\ Parse(Goes("Elements"), None)
       \/ next = "}" /\ consume_token /\ GoOn(Left(Node("ArrayLiteral", Top.parts)))
       \/ /\ next \notin {",", "}"}
          /\ Peek
          /\ stack' = Append(Front(stack), Left(Node("ArrayLiteral", Top.parts)))
          /\ skipped' = skipped \cup {"}"}
          /\ UNCHANGED <<alphabet, statement, outcome, reported>>

(* The loops over expressions between commas, and what they end in.        *)
Closing ==
    [place \in {"Elements", "Members", "Arguments", "TagParameters"} |->
        IF place \in {"Elements", "Members"} THEN "}" ELSE ")"]

ListGoesOn ==
    /\ outcome = "parsing"
    /\ Top.at \in DOMAIN Closing
    /\ next = ","
    /\ consume_token
    /\ IF Top.at = "Members" THEN GoOn(Goes("MemberName")) ELSE Parse(Top, None)

ListEnds ==
    /\ outcome = "parsing"
    /\ Top.at \in DOMAIN Closing
    /\ next = Closing[Top.at]
    /\ consume_token
    /\ GoOn(IF Top.at = "TagParameters" THEN Goes("Tags")
            ELSE Left(Node(Top.kind, Top.parts)))

ListFails ==
    /\ outcome = "parsing"
    /\ Top.at \in DOMAIN Closing
    /\ next \notin {",", Closing[Top.at]}
    /\ error

MemberName == Expect("MemberName", Identifiers, GoOn(Goes("MemberEquals")))

MemberEquals == Expect("MemberEquals", {"="}, Parse(Goes("Members"), None))

Square ==
    /\ At("Square")
    /\ \/ next = "]" /\ consume_token /\ Parse(Making("Element", "ArrayType"), PrefixUnary)
       \/ next # "]" /\ Peek /\ Parse(Goes("ArrayLength"), None)

ArrayLength ==
    Expect("ArrayLength", {"]"}, Parse(Making("Element", "ArrayType"), PrefixUnary))

-----------------------------------------------------------------------------
(* parse_expression_continuation: what may follow the expression so far.   *)

Infix ==
    /\ At("Continuation")
    /\ next \in DOMAIN Precedence
    /\ Precedence[next] > Top.minimum
    /\ consume_token
    /\ Parse(Making("Right", next), RightMinimum(next))

Follows ==
    [token \in {".", "(", "["} |->
        CASE token = "." -> [Goes("MemberReference") EXCEPT !.kind = "MemberReference"]
          [] token = "(" -> [Goes("ArgumentsBegin") EXCEPT !.kind = "FunctionCall"]
          [] token = "[" -> [Goes("Index") EXCEPT !.kind = "IndexReference"]]

Postfix ==
    /\ At("Continuation")
    /\ next \in DOMAIN Follows
    /\ PostfixUnary > Top.minimum
    /\ consume_token
    /\ IF next = "[" THEN Parse(Follows[next], None) ELSE GoOn(Follows[next])

MemberReference ==
    Expect("MemberReference", Identifiers, GoOn(Left(Node("MemberReference", Top.parts))))

ArgumentsBegin ==
    /\ At("ArgumentsBegin")
    /\ \/ next = ")" /\ consume_token /\ GoOn(Left(Node("FunctionCall", Top.parts)))
       \/ next # ")" /\ Peek /\ Parse(Goes("Arguments"), None)

Index == Expect("Index", {"]"}, GoOn(Left(Node("IndexReference", Top.parts))))

(* Nothing that binds tighter than the minimum follows: the call returns   *)
(* the expression to the one below it.                                     *)
Done ==
    /\ At("Continuation")
    /\ next \in DOMAIN Precedence => Precedence[next] <= Top.minimum
    /\ next \in DOMAIN Follows => PostfixUnary <= Top.minimum
    /\ Peek

Caller == stack[Len(stack) - 1]

Answer == Last(Top.parts)

Returned(call) ==
    /\ stack' = Append(SubSeq(stack, 1, Len(stack) - 2), call)
    /\ UNCHANGED <<alphabet, statement, outcome, reported, skipped>>

ReturnOperand ==
    /\ Done
    /\ Caller.at \in {"Operand", "Right", "Element"}
    /\ Returned(Continuation(Caller.minimum,
                             Node(Caller.kind, Append(Caller.parts, Answer))))

(* #bake is for calls only.                                                *)
ReturnBaked ==
    /\ Done
    /\ Caller.at = "Baked"
    /\ \/ /\ Answer.kind = "FunctionCall"
          /\ Returned(Continuation(Caller.minimum, Node("Bake", <<Answer>>)))
       \/ Answer.kind # "FunctionCall" /\ End("rejected") /\ reported' = TRUE

ReturnType ==
    /\ Done
    /\ Caller.at = "ReturnType"
    /\ Returned([Caller EXCEPT !.at = "Tags", !.parts = Append(@, Node("Return", <<Answer>>))])

(* A parameter of a tag belongs to the last of the parts, the tag.         *)
ToTheTag(parts) == [parts EXCEPT ![Len(parts)].parts = Append(@, Answer)]

ReturnItem ==
    /\ Done
    /\ \/ /\ Caller.at = "Parameters"
          /\ Returned([Caller EXCEPT !.parts = Append(@, Node(Caller.kind, <<Answer>>))])
       \/ /\ Caller.at = "ReturnTypes"
          /\ Returned([Caller EXCEPT !.parts = Append(@, Node("Return", <<Answer>>))])
       \/ /\ Caller.at = "TagParameters"
          /\ Returned([Caller EXCEPT !.parts = ToTheTag(@)])

ReturnPart ==
    /\ Done
    /\ Caller.at \in {"Grouped", "ArrayLength", "FirstElement", "Elements", "Members",
                      "Arguments", "Index", "Statement", "Values", "ConstantGrouped"}
    /\ Returned([Caller EXCEPT !.parts = Append(@, Answer)])

-----------------------------------------------------------------------------
(* The statements: using, return and the definition of a constant.         *)

Using == At("using") /\ Peek /\ Parse(Goes("Statement"), None)

(* What follows the semicolon is another statement's.                      *)
Accept ==
    /\ input' = Append(input, next)
    /\ End("accepted")
    /\ UNCHANGED <<next, reported>>

Statement ==
    /\ At("Statement")
    /\ \/ next = ";" /\ Accept
       \/ next # ";" /\ error

Return ==
    /\ At("return")
    /\ \/ next = ";" /\ Accept
       \/ next # ";" /\ Peek /\ Parse(Goes("Values"), None)

(* Mutant: the loop goes on after the error without parsing.               *)
Values_Stuck ==
    /\ At("Values")
    /\ \/ next = "," /\ consume_token /\ Parse(Top, None)
       \/ next = ";" /\ Accept
       \/ next \notin {",", ";"} /\ Peek /\ GoOn(Top)

(* As for return types, the loop goes on after the error.                  *)
Values ==
    /\ At("Values")
    /\ \/ next = "," /\ consume_token /\ Parse(Top, None)
       \/ next = ";" /\ Accept
       \/ next \notin {",", ";"} /\ Peek /\ ParseWithin(Top, None) /\ reported' = TRUE

(* A definition that begins with a bracket may turn out to declare a       *)
(* function, which is where the model stops.                               *)
Constant ==
    /\ At("constant")
    /\ \/ next = "(" /\ consume_token /\ GoOn(Goes("ConstantRound"))
       \/ /\ next \in Identifiers
          /\ consume_token
          /\ Continue(Goes("Statement"), Leaf(Len(input')))
       \/ /\ next \notin {"("} \cup Identifiers
          /\ Peek
          /\ Parse(Goes("Statement"), None)

Declares == Peek /\ End("declaration") /\ UNCHANGED reported

ConstantRound ==
    /\ At("ConstantRound")
    /\ \/ next \in {"$", ")"} /\ Declares
       \/ /\ next \in Identifiers
          /\ consume_token
          /\ GoOn(With("ConstantIdentifier", Leaf(Len(input'))))
       \/ /\ next \notin {"$", ")"} \cup Identifiers
          /\ Peek
          /\ Parse(Goes("ConstantGrouped"), None)

ConstantIdentifier ==
    /\ At("ConstantIdentifier")
    /\ \/ next = ":" /\ Declares
       \/ /\ next # ":"
          /\ Peek
          /\ Continue([Goes("ConstantGrouped") EXCEPT !.parts = <<>>], Last(Top.parts))

ConstantGrouped ==
    Expect("ConstantGrouped", {")"},
           Continue([Goes("Statement") EXCEPT !.parts = <<>>], Last(Top.parts)))

-----------------------------------------------------------------------------
Begin == Atom \/ Prefix \/ Bracket \/ NoExpression \/ Hash

FunctionType ==
    \/ Parameter \/ ParameterName \/ ParameterColon \/ ParameterType \/ Determiner
    \/ Parameters \/ AfterParameters \/ Returns \/ ReturnTypes
    \/ Tags \/ TagName \/ Tag \/ TagBegins

Brackets ==
    \/ Round \/ RoundIdentifier \/ Grouped
    \/ Curly \/ CurlyIdentifier \/ FirstElement
    \/ ListGoesOn \/ ListEnds \/ ListFails \/ MemberName \/ MemberEquals
    \/ Square \/ ArrayLength

Follow == Infix \/ Postfix \/ MemberReference \/ ArgumentsBegin \/ Index

ReturnExpression ==
    ReturnOperand \/ ReturnBaked \/ ReturnType \/ ReturnItem \/ ReturnPart

Statements ==
    \/ Using \/ Statement \/ Return \/ Values
    \/ Constant \/ ConstantRound \/ ConstantIdentifier \/ ConstantGrouped

Ended == outcome # "parsing" /\ UNCHANGED vars

Next ==
    \/ Begin \/ FunctionType \/ Brackets \/ Follow \/ ReturnExpression \/ Statements
    \/ Ended

Spec == Init /\ [][Next]_vars

(* One thread parses a file.                                               *)
FairSpec == Spec /\ WF_vars(Next)

(* The expressions that the statement was found to hold.                   *)
Result == Last(stack).parts

(* An operator that waits for its right operand binds tighter than what    *)
(* the call it is in was asked for, and what it asks for in turn is its    *)
(* own precedence: between two brackets or prefixes each precedence waits  *)
(* at most once, so the recursion is as deep as the brackets.  Nothing     *)
(* asks for more than a prefix operator: what follows an operand directly  *)
(* always belongs to it.                                                   *)
MinimumsRise ==
    /\ \A k \in DOMAIN stack : stack[k].minimum \in None .. PrefixUnary
    /\ \A k \in 1 .. Len(stack) - 1 :
          /\ stack[k].at = "Right" => stack[k].minimum < stack[k + 1].minimum
          /\ stack[k].at \in {"Operand", "Baked", "Element"} =>
                stack[k + 1].minimum = PrefixUnary

(* Every input is accepted or refused, also after an error from which the  *)
(* loops over return types and values do not return.                       *)
Finishes == <>(outcome # "parsing")
=============================================================================
