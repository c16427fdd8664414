------------------------- MODULE ExpressionGrammar -------------------------
(***************************************************************************)
(* What the expressions of the language are, without a parser: the ways to *)
(* read a sequence of tokens, given by the order of OperatorPrecedence.    *)
(* Operators between expressions group to the left.                        *)
(***************************************************************************)
EXTENDS ExpressionParser

CONSTANT Middles   \* tokens tried in between, to complete an input

(* The classes of operators between expressions, loosest first.            *)
Classes ==
    <<{"||"}, {"&&"}, {"|"}, {"&"}, {"==", "!=", "<", ">"}, {"<<", ">>"},
      {"+", "-"}, {"*", "/", "%"}, {"as"}>>

Class(operator) == CHOOSE class \in DOMAIN Classes : operator \in Classes[class]

Operators == UNION ToSet(Classes)

PrefixClass == Len(Classes) + 1

PostfixClass == Len(Classes) + 2

(* Readings(s, i, j, class, after): the expressions that the tokens i to j *)
(* of s are, if no operator in them may be looser than class.  after says  *)
(* what could follow: a return type without brackets takes an operator, a  *)
(* function type takes a tag.  Items are readings with commas in between.  *)
RECURSIVE Readings(_, _, _, _, _), Items(_, _, _, _), TagLists(_, _, _)

Members(s, i, j) ==
    IF i + 1 < j /\ s[i] \in Identifiers /\ s[i + 1] = "="
    THEN Readings(s, i + 2, j, None, "nothing") ELSE {}

ParameterTypes(s, i, j, kind) ==
    IF ~(i + 1 < j /\ s[i] \in Identifiers /\ s[i + 1] = ":") THEN {}
    ELSE IF s[i + 2] # "$"
         THEN {Node(kind, <<type>>) : type \in Readings(s, i + 2, j, None, "nothing")}
         ELSE IF j = i + 3 /\ s[j] \in Identifiers THEN {Node(kind, <<>>)} ELSE {}

Item(s, i, j, sort) ==
    CASE sort = "expression" -> Readings(s, i, j, None, "nothing")
      [] sort = "member" -> Members(s, i, j)
      [] sort = "parameter" ->
            IF i <= j /\ s[i] = "$" THEN ParameterTypes(s, i + 1, j, "ConstantParameter")
            ELSE ParameterTypes(s, i, j, "Parameter")

Items(s, i, j, sort) ==
    {<<item>> : item \in Item(s, i, j, sort)}
    \cup UNION {{<<item>> \o items : item \in Item(s, i, k - 1, sort),
                                     items \in Items(s, k + 1, j, sort)} :
                k \in {k \in i + 1 .. j - 1 : s[k] = ","}}

(* Possibly none.                                                          *)
ItemsOrNone(s, i, j) ==
    IF i > j THEN {<<>>} ELSE Items(s, i, j, "expression")

(* Tags, one after the other: a name, and expressions in brackets.         *)
TagLists(s, i, j) ==
    IF i > j THEN {<<>>}
    ELSE IF ~(i < j /\ s[i] = "#" /\ s[i + 1] \in Identifiers) THEN {}
    ELSE {<<Node("Tag", <<>>)>> \o tags : tags \in TagLists(s, i + 2, j)}
         \cup UNION {{<<Node("Tag", parameters)>> \o tags :
                        parameters \in ItemsOrNone(s, i + 3, k - 1),
                        tags \in TagLists(s, k + 1, j)} :
                     k \in {k \in i + 3 .. j : s[i + 2] = "(" /\ s[k] = ")"}}

Prefixed(s, i, j, after) ==
    IF s[i] \in PrefixOperators
    THEN {Node(s[i], <<operand>>) :
            operand \in Readings(s, i + 1, j, PrefixClass, after)}
    ELSE IF s[i] = "#" /\ s[i + 1] = "bake"
    THEN {Node("Bake", <<call>>) :
            call \in {call \in Readings(s, i + 2, j, PrefixClass, after) :
                        call.kind = "FunctionCall"}}
    ELSE IF s[i] = "["
    THEN UNION {{Node("ArrayType", length \o <<element>>) :
                    length \in IF k = i + 1 THEN {<<>>}
                               ELSE {<<e>> : e \in Readings(s, i + 1, k - 1, None, "nothing")},
                    element \in Readings(s, k + 1, j, PrefixClass, after)} :
                k \in {k \in i + 1 .. j - 1 : s[k] = "]"}}
    ELSE {}

Infixed(s, i, j, class, after) ==
    UNION {{Node(s[k], <<left, right>>) :
                left \in Readings(s, i, k - 1, Class(s[k]), "operator"),
                right \in Readings(s, k + 1, j, Class(s[k]) + 1, after)} :
           k \in {k \in i + 1 .. j - 1 : s[k] \in Operators /\ Class(s[k]) >= class}}

(* A bracket after the name of a tag is the tag's.                         *)
Postfixed(s, i, j) ==
    LET Before(k) == Readings(s, i, k - 1, PostfixClass, "operator")
        Opens(bracket) ==
            {k \in i + 1 .. j - 1 : s[k] = bracket /\ ~(k > i + 2 /\ s[k - 2] = "#")}
    IN  CASE s[j - 1] = "." /\ s[j] \in Identifiers ->
                {Node("MemberReference", <<left>>) : left \in Before(j - 1)}
          [] s[j] = ")" ->
                UNION {{Node("FunctionCall", <<left>> \o arguments) :
                            left \in Before(k),
                            arguments \in ItemsOrNone(s, k + 1, j - 1)} : k \in Opens("(")}
          [] s[j] = "]" ->
                UNION {{Node("IndexReference", <<left, index>>) :
                            left \in Before(k),
                            index \in Readings(s, k + 1, j - 1, None, "nothing")} :
                       k \in Opens("[")}
          [] OTHER -> {}

(* What follows the parameters of a function type: return types in         *)
(* brackets, or one without, which does not begin with a bracket; tags.    *)
ReturnNodes(types) == [k \in DOMAIN types |-> Node("Return", <<types[k]>>)]

Results(s, i, j, after) ==
    TagLists(s, i, j)
    \cup (IF ~(i < j /\ s[i] = "->") THEN {}
          ELSE IF s[i + 1] = "("
          THEN UNION {{ReturnNodes(types) \o tags :
                            types \in Items(s, i + 2, k - 1, "expression"),
                            tags \in TagLists(s, k + 1, j)} :
                      k \in {k \in i + 2 .. j : s[k] = ")"}}
          ELSE UNION {{<<Node("Return", <<type>>)>> \o tags :
                            type \in Readings(s, i + 1, k, None, IF k = j THEN after ELSE "tag"),
                            tags \in TagLists(s, k + 1, j)} :
                      k \in {k \in i + 1 .. j : k = j => after = "nothing"}})

FunctionTypes(s, i, j, after) ==
    UNION {{Node("FunctionType", parameters \o results) :
                parameters \in IF k = i + 1 THEN {<<>>} ELSE Items(s, i + 1, k - 1, "parameter"),
                results \in Results(s, k + 1, j, after)} :
           k \in {k \in i + 1 .. j : s[k] = ")"}}

Bracketed(s, i, j, after) ==
    CASE s[i] = "(" ->
            (IF s[j] = ")" THEN Readings(s, i + 1, j - 1, None, "nothing") ELSE {})
            \cup (IF after = "tag" THEN {} ELSE FunctionTypes(s, i, j, after))
      [] s[i] = "{" /\ s[j] = "}" ->
            {Node("ArrayLiteral", elements) : elements \in ItemsOrNone(s, i + 1, j - 1)}
            \cup {Node("StructLiteral", members) :
                    members \in Items(s, i + 1, j - 1, "member")}
      [] OTHER -> {}

Readings(s, i, j, class, after) ==
    IF i > j THEN {}
    ELSE IF i = j THEN IF s[i] \in Identifiers \cup Literals THEN {Leaf(i)} ELSE {}
    ELSE (IF class <= PrefixClass THEN Prefixed(s, i, j, after) ELSE {})
         \cup Infixed(s, i, j, class, after)
         \cup Postfixed(s, i, j)
         \cup Bracketed(s, i, j, after)

(* What a statement of these tokens says.                                  *)
Meanings(s) ==
    CASE statement = "return" -> ItemsOrNone(s, 1, Len(s))
      [] OTHER -> {<<reading>> : reading \in Readings(s, 1, Len(s), None, "nothing")}

(* An input goes on with some tokens and the brackets that are then open.  *)
Matching ==
    [bracket \in {"(", "{", "["} |->
        CASE bracket = "(" -> ")" [] bracket = "{" -> "}" [] bracket = "[" -> "]"]

Closers(s) ==
    FoldLeft(LAMBDA open, token :
                IF token \in DOMAIN Matching THEN <<Matching[token]>> \o open
                ELSE IF open # <<>> /\ token = Head(open) THEN Tail(open)
                ELSE open,
             <<>>, s)

Completions(s) == {s \o middle \o Closers(s \o middle) : middle \in Middles}

-----------------------------------------------------------------------------
(* A statement that is accepted without an error has one meaning, and the  *)
(* parser's tree is that: each operator has the operands that precedence   *)
(* and brackets give it.  The exceptions are the two places where a        *)
(* closing bracket is not looked at.                                       *)
ReadsAsWritten ==
    outcome = "accepted" /\ ~reported /\ skipped = {} =>
        Meanings(Front(input)) = {Result}

(* A statement is refused, or an error printed, only if no expression      *)
(* begins like it: a branch that decides too early on what a bracket means *)
(* would refuse a legal program.                                           *)
RefusalsAreRight ==
    reported /\ skipped = {} =>
        /\ outcome = "accepted" => Meanings(Front(input)) = {}
        /\ outcome = "rejected" =>
              IF next = ";" THEN Meanings(input) = {}
              ELSE \A s \in Completions(Append(input, next)) : Meanings(s) = {}
=============================================================================
