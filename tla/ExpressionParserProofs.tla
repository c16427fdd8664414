----------------------- MODULE ExpressionParserProofs -----------------------
(* Theorems about ExpressionParser, for every input.                       *)
EXTENDS ExpressionParser, SequenceTheorems, TLAPS

(* What a call is, and where the statement's own call may be.              *)
IsCall(c) ==
    /\ c = [at |-> c.at, minimum |-> c.minimum, kind |-> c.kind, parts |-> c.parts]
    /\ c.minimum \in None .. PrefixUnary

OfStatement ==
    {"using", "return", "constant", "Statement", "Values",
     "ConstantRound", "ConstantIdentifier", "ConstantGrouped"}

(* d may be called by c.                                                   *)
Rises(c, d) ==
    /\ c.at = "Right" => c.minimum < d.minimum
    /\ c.at \in {"Operand", "Baked", "Element"} => d.minimum = PrefixUnary

(* The invariant: MinimumsRise, and that the lowest call is the            *)
(* statement's, so that an expression always has a caller to return to.    *)
StackOK(s) ==
    /\ \E S : s \in Seq(S)
    /\ Len(s) > 0
    /\ \A k \in 1 .. Len(s) : IsCall(s[k])
    /\ \A k \in 1 .. Len(s) - 1 : Rises(s[k], s[k + 1])
    /\ s[1].at \in OfStatement

IInv == StackOK(stack)

(* c stands where d stood: it was given the same minimum.                  *)
Replaces(c, d) ==
    /\ IsCall(c)
    /\ c.minimum = d.minimum
    /\ d.at \in OfStatement => c.at \in OfStatement

-----------------------------------------------------------------------------
(* What happens to the stack.                                              *)

LEMMA FrontOfStack ==
    ASSUME NEW s, StackOK(s), NEW n \in Nat, n < Len(s)
    PROVE  LET front == SubSeq(s, 1, n) IN
           /\ \E S : front \in Seq(S)
           /\ Len(front) = n
           /\ \A k \in 1 .. n : front[k] = s[k]
  <1>1. PICK S : s \in Seq(S)
    BY DEF StackOK
  <1> QED
    BY <1>1, SubSeqProperties

LEMMA AppendToStack ==
    ASSUME NEW S, NEW s \in Seq(S), NEW c
    PROVE  /\ Append(s, c) \in Seq(S \cup {c})
           /\ Len(Append(s, c)) = Len(s) + 1
           /\ Len(s) \in Nat
           /\ \A k \in 1 .. Len(s) : Append(s, c)[k] = s[k]
           /\ Append(s, c)[Len(s) + 1] = c
  <1> DEFINE T == S \cup {c}
  <1>1. s \in Seq(T) /\ c \in T
    OBVIOUS
  <1> HIDE DEF T
  <1>2. /\ Append(s, c) \in Seq(T)
        /\ Len(Append(s, c)) = Len(s) + 1
        /\ Len(s) \in Nat
        /\ \A k \in 1 .. Len(s) : Append(s, c)[k] = s[k]
        /\ Append(s, c)[Len(s) + 1] = c
    BY <1>1, AppendProperties, LenProperties
  <1> QED
    BY <1>2 DEF T

(* The call at position n + 1 goes on as c, and those above it are gone.   *)
LEMMA Replaced ==
    ASSUME NEW s, StackOK(s), NEW n \in Nat, n < Len(s),
           NEW c, Replaces(c, s[n + 1])
    PROVE  StackOK(Append(SubSeq(s, 1, n), c))
  <1> DEFINE front == SubSeq(s, 1, n)
             t == Append(front, c)
  <1>1. /\ \E S : front \in Seq(S)
        /\ Len(front) = n
        /\ \A k \in 1 .. n : front[k] = s[k]
    BY FrontOfStack
  <1> HIDE DEF front
  <1>2. /\ \E S : t \in Seq(S)
        /\ Len(t) = n + 1
        /\ \A k \in 1 .. n : t[k] = s[k]
        /\ t[n + 1] = c
    <2>1. PICK S : front \in Seq(S)
      BY <1>1
    <2>2. /\ t \in Seq(S \cup {c})
          /\ Len(t) = Len(front) + 1
          /\ \A k \in 1 .. Len(front) : t[k] = front[k]
          /\ t[Len(front) + 1] = c
      BY <2>1, AppendToStack
    <2> QED
      BY <1>1, <2>2
  <1> HIDE DEF t
  <1>3. Len(s) \in Nat
    BY LenProperties DEF StackOK
  <1>4. ASSUME NEW k \in 1 .. n + 1
        PROVE  IsCall(t[k])
    BY <1>2, <1>3, <1>4 DEF StackOK, Replaces
  <1>5. ASSUME NEW k \in 1 .. n
        PROVE  Rises(t[k], t[k + 1])
    <2>1. Rises(s[k], s[k + 1]) /\ t[k] = s[k]
      BY <1>2, <1>3 DEF StackOK
    <2>2. t[k + 1].minimum = s[k + 1].minimum
      BY <1>2 DEF Replaces
    <2> QED
      BY <2>1, <2>2 DEF Rises
  <1>6. t[1].at \in OfStatement
    BY <1>2 DEF StackOK, Replaces
  <1>7. StackOK(t)
    BY <1>2, <1>4, <1>5, <1>6 DEF StackOK
  <1> QED
    BY <1>7 DEF t, front

(* A call is made.                                                         *)
LEMMA Pushed ==
    ASSUME NEW s, StackOK(s), NEW d, IsCall(d), Rises(s[Len(s)], d)
    PROVE  StackOK(Append(s, d))
  <1> DEFINE t == Append(s, d)
             n == Len(s)
  <1>1. /\ \E S : t \in Seq(S)
        /\ n \in Nat
        /\ Len(t) = n + 1
        /\ \A k \in 1 .. n : t[k] = s[k]
        /\ t[n + 1] = d
    <2>1. PICK S : s \in Seq(S)
      BY DEF StackOK
    <2>2. /\ t \in Seq(S \cup {d})
          /\ n \in Nat
          /\ Len(t) = n + 1
          /\ \A k \in 1 .. n : t[k] = s[k]
          /\ t[n + 1] = d
      BY <2>1, AppendToStack
    <2> QED
      BY <2>2
  <1> HIDE DEF t
  <1>2. /\ n > 0
        /\ \A k \in 1 .. n : IsCall(s[k])
        /\ \A k \in 1 .. n - 1 : Rises(s[k], s[k + 1])
        /\ s[1].at \in OfStatement
        /\ Rises(s[n], d)
    BY DEF StackOK
  <1> HIDE DEF n
  <1>3. ASSUME NEW k \in 1 .. n + 1
        PROVE  IsCall(t[k])
    BY <1>1, <1>2
  <1>4. ASSUME NEW k \in 1 .. n
        PROVE  Rises(t[k], t[k + 1])
    <2>1. CASE k = n
      BY <2>1, <1>1, <1>2
    <2>2. CASE k # n
      <3>1. k \in 1 .. n - 1 /\ k + 1 \in 1 .. n
        BY <2>2, <1>1
      <3> QED
        BY <3>1, <1>1, <1>2
    <2> QED
      BY <2>1, <2>2
  <1> QED
    BY <1>1, <1>2, <1>3, <1>4 DEF StackOK, t

-----------------------------------------------------------------------------
(* What the operators of the model do to it.                               *)

LEMMA TopOfStack ==
    ASSUME IInv
    PROVE  /\ Len(stack) \in Nat
           /\ Len(stack) > 0
           /\ Top = stack[Len(stack)]
           /\ Front(stack) = SubSeq(stack, 1, Len(stack) - 1)
           /\ IsCall(Top)
  <1>1. Len(stack) \in Nat /\ Len(stack) > 0
    BY LenProperties DEF IInv, StackOK
  <1> QED
    BY <1>1 DEF IInv, StackOK, Top, Last, Front

LEMMA CallIsCall ==
    ASSUME NEW at, NEW minimum \in None .. PrefixUnary
    PROVE  /\ IsCall(Call(at, minimum))
           /\ Call(at, minimum).at = at
           /\ Call(at, minimum).minimum = minimum
  BY DEF IsCall, Call

(* Another place, another kind or other parts.                             *)
LEMMA ChangeAt ==
    ASSUME NEW c, IsCall(c), NEW at
    PROVE  /\ IsCall([c EXCEPT !.at = at])
           /\ [c EXCEPT !.at = at].at = at
           /\ [c EXCEPT !.at = at].minimum = c.minimum
  <1> DEFINE d == [at |-> at, minimum |-> c.minimum, kind |-> c.kind, parts |-> c.parts]
  <1>1. [c EXCEPT !.at = at] = d
    BY DEF IsCall
  <1>2. IsCall(d) /\ d.at = at /\ d.minimum = c.minimum
    BY DEF IsCall
  <1> QED
    BY <1>1, <1>2

LEMMA ChangeKind ==
    ASSUME NEW c, IsCall(c), NEW kind
    PROVE  /\ IsCall([c EXCEPT !.kind = kind])
           /\ [c EXCEPT !.kind = kind].at = c.at
           /\ [c EXCEPT !.kind = kind].minimum = c.minimum
  <1> DEFINE d == [at |-> c.at, minimum |-> c.minimum, kind |-> kind, parts |-> c.parts]
  <1>1. [c EXCEPT !.kind = kind] = d
    BY DEF IsCall
  <1>2. IsCall(d) /\ d.at = c.at /\ d.minimum = c.minimum
    BY DEF IsCall
  <1> QED
    BY <1>1, <1>2

LEMMA ChangeParts ==
    ASSUME NEW c, IsCall(c), NEW parts
    PROVE  /\ IsCall([c EXCEPT !.parts = parts])
           /\ [c EXCEPT !.parts = parts].at = c.at
           /\ [c EXCEPT !.parts = parts].minimum = c.minimum
  <1> DEFINE d == [at |-> c.at, minimum |-> c.minimum, kind |-> c.kind, parts |-> parts]
  <1>1. [c EXCEPT !.parts = parts] = d
    BY DEF IsCall
  <1>2. IsCall(d) /\ d.at = c.at /\ d.minimum = c.minimum
    BY DEF IsCall
  <1> QED
    BY <1>1, <1>2

LEMMA ChangeAtAndParts ==
    ASSUME NEW c, IsCall(c), NEW at, NEW parts
    PROVE  /\ IsCall([c EXCEPT !.at = at, !.parts = parts])
           /\ [c EXCEPT !.at = at, !.parts = parts].at = at
           /\ [c EXCEPT !.at = at, !.parts = parts].minimum = c.minimum
  <1> DEFINE d == [c EXCEPT !.at = at]
  <1>1. [c EXCEPT !.at = at, !.parts = parts] = [d EXCEPT !.parts = parts]
    OBVIOUS
  <1>2. IsCall(d) /\ d.at = at /\ d.minimum = c.minimum
    BY ChangeAt
  <1> HIDE DEF d
  <1>3. /\ IsCall([d EXCEPT !.parts = parts])
        /\ [d EXCEPT !.parts = parts].at = d.at
        /\ [d EXCEPT !.parts = parts].minimum = d.minimum
    BY <1>2, ChangeParts
  <1> QED
    BY <1>1, <1>2, <1>3

LEMMA ContinuationIsCall ==
    ASSUME NEW expression, NEW minimum \in None .. PrefixUnary
    PROVE  /\ IsCall(Continuation(minimum, expression))
           /\ Continuation(minimum, expression).at = "Continuation"
           /\ Continuation(minimum, expression).minimum = minimum
  <1> DEFINE c == Call("Continuation", minimum)
             parts == <<expression>>
  <1>1. IsCall(c) /\ c.at = "Continuation" /\ c.minimum = minimum
    BY CallIsCall
  <1>2. Continuation(minimum, expression) = [c EXCEPT !.parts = parts]
    BY DEF Continuation
  <1> HIDE DEF c, parts
  <1>3. /\ IsCall([c EXCEPT !.parts = parts])
        /\ [c EXCEPT !.parts = parts].at = c.at
        /\ [c EXCEPT !.parts = parts].minimum = c.minimum
    BY <1>1, ChangeParts
  <1> QED
    BY <1>1, <1>2, <1>3

LEMMA GoesOn ==
    ASSUME IInv, NEW c, Replaces(c, Top), GoOn(c)
    PROVE  IInv'
  <1> DEFINE n == Len(stack) - 1
  <1>1. n \in Nat /\ n < Len(stack) /\ Replaces(c, stack[n + 1])
    BY TopOfStack
  <1>2. stack' = Append(SubSeq(stack, 1, n), c)
    BY TopOfStack DEF GoOn
  <1> QED
    BY <1>1, <1>2, Replaced DEF IInv

LEMMA TwoAppended ==
    ASSUME NEW S, NEW s \in Seq(S), NEW c, NEW d
    PROVE  s \o <<c, d>> = Append(Append(s, c), d)
  OBVIOUS

(* The call c goes on above what is below the innermost, and calls d.      *)
LEMMA Calls ==
    ASSUME IInv, NEW c, Replaces(c, Top), NEW d, IsCall(d), Rises(c, d),
           stack' = Front(stack) \o <<c, d>>
    PROVE  IInv'
  <1> DEFINE n == Len(stack) - 1
             front == SubSeq(stack, 1, n)
             t == Append(front, c)
  <1>1. n \in Nat /\ n < Len(stack) /\ Replaces(c, stack[n + 1])
    BY TopOfStack
  <1>2. StackOK(t)
    BY <1>1, Replaced DEF IInv
  <1>3. PICK S : front \in Seq(S)
    BY <1>1, FrontOfStack DEF IInv
  <1>4. Len(front) = n
    BY <1>1, FrontOfStack DEF IInv
  <1>5. front = Front(stack)
    BY TopOfStack
  <1> HIDE DEF front
  <1>6. t[Len(t)] = c
    BY <1>3, AppendToStack
  <1>7. stack' = Append(t, d)
    BY <1>3, <1>5, TwoAppended
  <1> HIDE DEF t
  <1> QED
    BY <1>2, <1>6, <1>7, Pushed DEF IInv

LEMMA Parses ==
    ASSUME IInv, NEW c, Replaces(c, Top), NEW minimum \in None .. PrefixUnary,
           Rises(c, Call("Expression", minimum)), ParseWithin(c, minimum)
    PROVE  IInv'
  BY CallIsCall, Calls DEF ParseWithin

LEMMA Continues ==
    ASSUME IInv, NEW c, Replaces(c, Top), NEW expression,
           c.at \notin {"Right", "Operand", "Baked", "Element"},
           Continue(c, expression)
    PROVE  IInv'
  <1>1. IsCall(Continuation(None, expression))
    BY ContinuationIsCall DEF None, PrefixUnary
  <1>2. Rises(c, Continuation(None, expression))
    BY DEF Rises
  <1> QED
    BY <1>1, <1>2, Calls DEF Continue

(* An expression is returned to a call below it.                           *)
LEMMA HasCaller ==
    ASSUME IInv, Done
    PROVE  /\ Len(stack) \in Nat
           /\ Len(stack) > 1
           /\ IsCall(Caller)
  <1>1. Len(stack) \in Nat /\ Len(stack) > 0 /\ Top = stack[Len(stack)]
    BY TopOfStack
  <1>2. Top.at = "Continuation"
    BY DEF Done, At
  <1>3. Len(stack) # 1
    BY <1>1, <1>2 DEF IInv, StackOK, OfStatement
  <1>4. Len(stack) - 1 \in 1 .. Len(stack)
    BY <1>1, <1>3
  <1>5. IsCall(stack[Len(stack) - 1])
    BY <1>4 DEF IInv, StackOK
  <1>6. IsCall(Caller)
    BY <1>5, Zenon DEF Caller
  <1>7. Len(stack) > 1
    <2>1. PICK n \in Nat : n = Len(stack)
      BY <1>1
    <2>2. n > 0 /\ n # 1
      BY <2>1, <1>1, <1>3
    <2>3. n > 1
      BY <2>2
    <2> QED
      BY <2>1, <2>3
  <1> QED
    BY <1>1, <1>6, <1>7

LEMMA GivenBack ==
    ASSUME IInv, Done, NEW c, Replaces(c, Caller), Returned(c)
    PROVE  IInv'
  <1> DEFINE n == Len(stack) - 2
  <1>1. n \in Nat /\ n < Len(stack) /\ Replaces(c, stack[n + 1])
    BY HasCaller DEF Caller
  <1>2. stack' = Append(SubSeq(stack, 1, n), c)
    BY DEF Returned
  <1> QED
    BY <1>1, <1>2, Replaced DEF IInv

-----------------------------------------------------------------------------
(* What a call goes on as: another place of the same call.                 *)
LEMMA GoesReplaces ==
    ASSUME IInv, NEW at, Top.at \in OfStatement => at \in OfStatement
    PROVE  /\ IsCall(Goes(at)) /\ Goes(at).at = at
           /\ Replaces(Goes(at), Top)
  <1>1. IsCall(Top)
    BY TopOfStack
  <1>2. IsCall(Goes(at)) /\ Goes(at).at = at /\ Goes(at).minimum = Top.minimum
    BY <1>1, ChangeAt, Zenon DEF Goes
  <1> QED
    BY <1>2 DEF Replaces

(* And of what another call goes on as.                                    *)
LEMMA KindReplaces ==
    ASSUME NEW c, NEW d, Replaces(c, d), NEW kind
    PROVE  /\ Replaces([c EXCEPT !.kind = kind], d)
           /\ [c EXCEPT !.kind = kind].at = c.at
  <1>1. /\ IsCall([c EXCEPT !.kind = kind])
        /\ [c EXCEPT !.kind = kind].at = c.at
        /\ [c EXCEPT !.kind = kind].minimum = c.minimum
    BY ChangeKind, Zenon DEF Replaces
  <1> QED
    BY <1>1, Zenon DEF Replaces

LEMMA PartsReplace ==
    ASSUME NEW c, NEW d, Replaces(c, d), NEW parts
    PROVE  /\ Replaces([c EXCEPT !.parts = parts], d)
           /\ [c EXCEPT !.parts = parts].at = c.at
  <1>1. /\ IsCall([c EXCEPT !.parts = parts])
        /\ [c EXCEPT !.parts = parts].at = c.at
        /\ [c EXCEPT !.parts = parts].minimum = c.minimum
    BY ChangeParts, Zenon DEF Replaces
  <1> QED
    BY <1>1, Zenon DEF Replaces

LEMMA MakingReplaces ==
    ASSUME IInv, NEW at, NEW kind, Top.at \in OfStatement => at \in OfStatement
    PROVE  Replaces(Making(at, kind), Top) /\ Making(at, kind).at = at
  BY GoesReplaces, KindReplaces, Zenon DEF Making

LEMMA WithReplaces ==
    ASSUME IInv, NEW at, NEW part, Top.at \in OfStatement => at \in OfStatement
    PROVE  Replaces(With(at, part), Top) /\ With(at, part).at = at
  <1> DEFINE longer == Append(Goes(at).parts, part)
  <1>1. With(at, part) = [Goes(at) EXCEPT !.parts = longer]
    BY Zenon DEF With
  <1>2. Replaces(Goes(at), Top) /\ Goes(at).at = at
    BY GoesReplaces, Zenon
  <1> HIDE DEF longer
  <1> DEFINE c == Goes(at)
  <1>3. Replaces(c, Top)
    BY <1>2
  <1> HIDE DEF c
  <1>4. Replaces([c EXCEPT !.parts = longer], Top) /\ [c EXCEPT !.parts = longer].at = c.at
    BY <1>3, PartsReplace
  <1> QED
    BY <1>1, <1>2, <1>4 DEF c

LEMMA Lefts ==
    ASSUME IInv, Top.at \notin OfStatement, NEW expression
    PROVE  Replaces(Left(expression), Top)
  <1>1. IsCall(Top)
    BY TopOfStack
  <1> QED
    BY <1>1, ContinuationIsCall DEF Replaces, Left, IsCall

LEMMA SameStack ==
    ASSUME IInv, stack' = stack
    PROVE  IInv'
  BY DEF IInv

-----------------------------------------------------------------------------
(* What a step of the parser does with what is made of the innermost call. *)
May(at) == Top.at \in OfStatement => at \in OfStatement

MayParse(at, minimum) ==
    /\ minimum \in None .. PrefixUnary
    /\ at = "Right" => Top.minimum < minimum
    /\ at \in {"Operand", "Baked", "Element"} => minimum = PrefixUnary

LEMMA GoingTo ==
    ASSUME IInv, NEW at, May(at), GoOn(Goes(at))
    PROVE  IInv'
  BY GoesReplaces, GoesOn DEF May

LEMMA GoingToMake ==
    ASSUME IInv, NEW at, NEW kind, May(at), GoOn(Making(at, kind))
    PROVE  IInv'
  BY MakingReplaces, GoesOn DEF May

LEMMA GoingWith ==
    ASSUME IInv, NEW at, NEW part, May(at), GoOn(With(at, part))
    PROVE  IInv'
  BY WithReplaces, GoesOn DEF May

LEMMA GoingLeft ==
    ASSUME IInv, NEW expression, Top.at \notin OfStatement, GoOn(Left(expression))
    PROVE  IInv'
  BY Lefts, GoesOn

(* The call for an expression stands above one with the minimum of Top.    *)
LEMMA ExpressionRises ==
    ASSUME NEW c, Replaces(c, Top), NEW minimum, MayParse(c.at, minimum)
    PROVE  Rises(c, Call("Expression", minimum))
  <1>1. minimum \in None .. PrefixUnary
    BY DEF MayParse
  <1>2. Call("Expression", minimum).minimum = minimum
    BY <1>1, CallIsCall
  <1> QED
    BY <1>2 DEF Rises, MayParse, Replaces

LEMMA ParsingFor ==
    ASSUME IInv, NEW c, Replaces(c, Top), NEW minimum, MayParse(c.at, minimum),
           ParseWithin(c, minimum)
    PROVE  IInv'
  <1>1. Rises(c, Call("Expression", minimum))
    BY ExpressionRises
  <1>2. minimum \in None .. PrefixUnary
    BY DEF MayParse
  <1> QED
    BY <1>1, <1>2, Parses

LEMMA ParsingTo ==
    ASSUME IInv, NEW at, May(at), NEW minimum, MayParse(at, minimum),
           Parse(Goes(at), minimum)
    PROVE  IInv'
  <1>1. Replaces(Goes(at), Top) /\ Goes(at).at = at
    BY GoesReplaces DEF May
  <1> QED
    BY <1>1, ParsingFor DEF Parse

LEMMA ParsingToMake ==
    ASSUME IInv, NEW at, NEW kind, May(at), NEW minimum, MayParse(at, minimum),
           Parse(Making(at, kind), minimum)
    PROVE  IInv'
  <1>1. Replaces(Making(at, kind), Top) /\ Making(at, kind).at = at
    BY MakingReplaces DEF May
  <1> QED
    BY <1>1, ParsingFor DEF Parse

LEMMA TopReplaces ==
    ASSUME IInv
    PROVE  Replaces(Top, Top)
  BY TopOfStack DEF Replaces

LEMMA ErrorKeeps ==
    ASSUME IInv, error
    PROVE  IInv'
  BY SameStack DEF error, End

LEMMA PrecedenceRange ==
    ASSUME NEW operator \in DOMAIN Precedence
    PROVE  Precedence[operator] \in BooleanOr .. Cast
  BY DEF Precedence, BooleanOr, BooleanAnd, BitwiseOr, BitwiseAnd, Comparison,
         BitwiseShift, Additive, Multiplicitive, Cast

-----------------------------------------------------------------------------
(* One lemma for each part of the next-state relation.                     *)
LEMMA BeginKeeps ==
    ASSUME IInv, Begin
    PROVE  IInv'
  <1> USE DEF At, OfStatement
  <1>1. CASE Atom
    BY <1>1, GoingLeft DEF Atom
  <1>2. CASE Prefix
    <2>1. May("Operand") /\ MayParse("Operand", PrefixUnary)
      BY <1>2 DEF Prefix, May, MayParse, None, PrefixUnary
    <2> QED
      BY <1>2, <2>1, ParsingToMake DEF Prefix
  <1>3. CASE Bracket
    <2>1. May(Begins[next])
      BY <1>3 DEF Bracket, May
    <2> QED
      BY <1>3, <2>1, GoingTo DEF Bracket
  <1>4. CASE NoExpression
    BY <1>4, ErrorKeeps DEF NoExpression
  <1>5. CASE Hash
    <2>1. May("Baked") /\ MayParse("Baked", PrefixUnary)
      BY <1>5 DEF Hash, Expect, May, MayParse, None, PrefixUnary
    <2> QED
      BY <1>5, <2>1, ParsingTo, ErrorKeeps DEF Hash, Expect
  <1> QED
    BY <1>1, <1>2, <1>3, <1>4, <1>5 DEF Begin

LEMMA FunctionTypeKeeps ==
    ASSUME IInv, FunctionType
    PROVE  IInv'
  <1> USE DEF At, OfStatement
  <1>1. CASE Parameter
    <2>1. May("ParameterName")
      BY <1>1 DEF Parameter, May
    <2> QED
      BY <1>1, <2>1, GoingToMake DEF Parameter
  <1>2. CASE ParameterName
    <2>1. May("ParameterColon")
      BY <1>2 DEF ParameterName, Expect, May
    <2> QED
      BY <1>2, <2>1, GoingTo, ErrorKeeps DEF ParameterName, Expect
  <1>3. CASE ParameterColon
    <2>1. May("ParameterType")
      BY <1>3 DEF ParameterColon, Expect, May
    <2> QED
      BY <1>3, <2>1, GoingTo, ErrorKeeps DEF ParameterColon, Expect
  <1>4. CASE ParameterType
    <2>1. May("Determiner") /\ May("Parameters") /\ MayParse("Parameters", None)
      BY <1>4 DEF ParameterType, May, MayParse, None, PrefixUnary
    <2> QED
      BY <1>4, <2>1, GoingTo, ParsingTo DEF ParameterType
  <1>5. CASE Determiner
    <2>1. May("Parameters")
      BY <1>5 DEF Determiner, Expect, May
    <2> QED
      BY <1>5, <2>1, GoingWith, ErrorKeeps DEF Determiner, Expect
  <1>6. CASE Parameters
    <2>1. May("Parameter") /\ May("AfterParameters")
      BY <1>6 DEF Parameters, May
    <2> QED
      BY <1>6, <2>1, GoingTo, ErrorKeeps DEF Parameters
  <1>7. CASE AfterParameters
    <2>1. May("Returns") /\ May("Tags")
      BY <1>7 DEF AfterParameters, May
    <2> QED
      BY <1>7, <2>1, GoingTo, GoingToMake DEF AfterParameters
  <1>8. CASE Returns
    <2>1. /\ May("ReturnTypes") /\ MayParse("ReturnTypes", None)
          /\ May("ReturnType") /\ MayParse("ReturnType", None)
      BY <1>8 DEF Returns, May, MayParse, None, PrefixUnary
    <2> QED
      BY <1>8, <2>1, ParsingTo DEF Returns
  <1>9. CASE ReturnTypes
    <2>0. Top.at = "ReturnTypes" /\ Replaces(Top, Top)
      BY <1>9, TopReplaces DEF ReturnTypes
    <2>1. Replaces(Top, Top) /\ MayParse(Top.at, None) /\ May("Tags")
      BY <2>0 DEF May, MayParse, None, PrefixUnary
    <2>2. CASE ParseWithin(Top, None)
      BY <2>1, <2>2, ParsingFor
    <2>3. CASE GoOn(Goes("Tags"))
      BY <2>1, <2>3, GoingTo
    <2>4. CASE stack' = Append(Front(stack), Goes("Tags"))
      <3>1. /\ IInv
            /\ Len(stack) - 1 \in Nat
            /\ Len(stack) - 1 < Len(stack)
            /\ Front(stack) = SubSeq(stack, 1, Len(stack) - 1)
            /\ Replaces(Goes("Tags"), stack[(Len(stack) - 1) + 1])
        BY <2>1, TopOfStack, GoesReplaces DEF May
      <3> QED
        BY <2>4, <3>1, Replaced DEF IInv
    <2> QED
      BY <1>9, <2>2, <2>3, <2>4 DEF ReturnTypes, Parse
  <1>10. CASE Tags
    <2>1. May("TagName") /\ Top.at \notin OfStatement
      BY <1>10 DEF Tags, May
    <2> QED
      BY <1>10, <2>1, GoingTo, GoingLeft DEF Tags
  <1>11. CASE TagName
    <2>1. May("Tag")
      BY <1>11 DEF TagName, Expect, May
    <2>2. Replaces([With("Tag", Node("Tag", <<>>)) EXCEPT !.kind = "Tag"], Top)
      BY <2>1, WithReplaces, KindReplaces DEF May
    <2> QED
      BY <1>11, <2>2, GoesOn, ErrorKeeps DEF TagName, Expect
  <1>12. CASE Tag
    <2>1. May("TagBegins") /\ May("Tags")
      BY <1>12 DEF Tag, May
    <2> QED
      BY <1>12, <2>1, GoingTo DEF Tag
  <1>13. CASE TagBegins
    <2>1. May("Tags") /\ May("TagParameters") /\ MayParse("TagParameters", None)
      BY <1>13 DEF TagBegins, May, MayParse, None, PrefixUnary
    <2> QED
      BY <1>13, <2>1, GoingTo, ParsingTo DEF TagBegins
  <1> QED
    BY <1>1, <1>2, <1>3, <1>4, <1>5, <1>6, <1>7, <1>8, <1>9, <1>10, <1>11, <1>12, <1>13
    DEF FunctionType

LEMMA BracketsKeep ==
    ASSUME IInv, Brackets
    PROVE  IInv'
  <1> USE DEF At, OfStatement
  <1>1. CASE Round
    <2>1. Top.at = "Round"
      BY <1>1 DEF Round
    <2>2. /\ May("Parameter") /\ May("NoParameters") /\ May("RoundIdentifier")
          /\ May("Grouped") /\ MayParse("Grouped", None)
      BY <2>1 DEF May, MayParse, None, PrefixUnary
    <2> QED
      BY <1>1, <2>2, GoingTo, GoingWith, ParsingTo DEF Round
  <1>2. CASE RoundIdentifier
    <2>1. May("ParameterColon") /\ May("Grouped")
      BY <1>2 DEF RoundIdentifier, May
    <2>2. Replaces([Making("ParameterColon", "Parameter") EXCEPT !.parts = <<>>], Top)
      BY <2>1, MakingReplaces, PartsReplace DEF May
    <2>3. /\ Replaces([Goes("Grouped") EXCEPT !.parts = <<>>], Top)
          /\ [Goes("Grouped") EXCEPT !.parts = <<>>].at = "Grouped"
      BY <2>1, GoesReplaces, PartsReplace DEF May
    <2> QED
      BY <1>2, <2>2, <2>3, GoesOn, Continues DEF RoundIdentifier
  <1>3. CASE Grouped
    <2>1. Top.at \notin OfStatement
      BY <1>3 DEF Grouped, Expect
    <2> QED
      BY <1>3, <2>1, GoingLeft, ErrorKeeps DEF Grouped, Expect
  <1>4. CASE Curly
    <2>1. Top.at = "Curly"
      BY <1>4 DEF Curly
    <2>2. /\ Top.at \notin OfStatement
          /\ May("CurlyIdentifier")
          /\ May("FirstElement") /\ MayParse("FirstElement", None)
      BY <2>1 DEF May, MayParse, None, PrefixUnary
    <2> QED
      BY <1>4, <2>2, GoingLeft, GoingWith, ParsingToMake DEF Curly
  <1>5. CASE CurlyIdentifier
    <2> DEFINE struct == [Making("Members", "StructLiteral") EXCEPT !.parts = <<>>]
               array == [Making("Elements", "ArrayLiteral") EXCEPT !.parts = <<>>]
    <2>1. Top.at = "CurlyIdentifier"
      BY <1>5 DEF CurlyIdentifier
    <2>2. May("Members") /\ May("Elements") /\ Top.at \notin OfStatement
      BY <2>1 DEF May
    <2>3. Replaces(struct, Top) /\ struct.at = "Members"
      BY <2>2, MakingReplaces, PartsReplace DEF May
    <2>4. Replaces(array, Top) /\ array.at = "Elements"
      BY <2>2, MakingReplaces, PartsReplace DEF May
    <2>5. \/ Parse(struct, None)
          \/ GoOn(Left(Node("ArrayLiteral", Top.parts)))
          \/ Continue(array, Last(Top.parts))
      BY <1>5 DEF CurlyIdentifier
    <2> HIDE DEF struct, array
    <2>6. CASE Parse(struct, None)
      <3>1. MayParse(struct.at, None)
        BY <2>3 DEF MayParse, None, PrefixUnary
      <3> QED
        BY <2>3, <2>6, <3>1, ParsingFor DEF Parse
    <2> QED
      BY <2>2, <2>4, <2>5, <2>6, GoingLeft, Continues
  <1>6. CASE FirstElement
    <2>1. Top.at = "FirstElement"
      BY <1>6 DEF FirstElement
    <2>2. May("Elements") /\ MayParse("Elements", None) /\ Top.at \notin OfStatement
      BY <2>1 DEF May, MayParse, None, PrefixUnary
    <2>3. CASE stack' = Append(Front(stack), Left(Node("ArrayLiteral", Top.parts)))
      <3>1. /\ IInv
            /\ Len(stack) - 1 \in Nat
            /\ Len(stack) - 1 < Len(stack)
            /\ Front(stack) = SubSeq(stack, 1, Len(stack) - 1)
            /\ Replaces(Left(Node("ArrayLiteral", Top.parts)), stack[(Len(stack) - 1) + 1])
        BY <2>2, TopOfStack, Lefts
      <3> QED
        BY <2>3, <3>1, Replaced DEF IInv
    <2> QED
      BY <1>6, <2>2, <2>3, ParsingTo, GoingLeft DEF FirstElement
  <1>7. CASE ListGoesOn
    <2>1. Top.at \in {"Elements", "Members", "Arguments", "TagParameters"}
      BY <1>7 DEF ListGoesOn, Closing
    <2>2. May("MemberName") /\ MayParse(Top.at, None) /\ Replaces(Top, Top)
      BY <2>1, TopReplaces DEF May, MayParse, None, PrefixUnary
    <2> QED
      BY <1>7, <2>2, GoingTo, ParsingFor DEF ListGoesOn, Parse
  <1>8. CASE ListEnds
    <2>1. Top.at \in {"Elements", "Members", "Arguments", "TagParameters"}
      BY <1>8 DEF ListEnds, Closing
    <2>2. May("Tags") /\ Top.at \notin OfStatement
      BY <2>1 DEF May
    <2>3. GoOn(Goes("Tags")) \/ GoOn(Left(Node(Top.kind, Top.parts)))
      BY <1>8 DEF ListEnds
    <2> QED
      BY <2>2, <2>3, GoingTo, GoingLeft
  <1>9. CASE ListFails
    BY <1>9, ErrorKeeps DEF ListFails
  <1>10. CASE MemberName
    <2>1. May("MemberEquals")
      BY <1>10 DEF MemberName, Expect, May
    <2> QED
      BY <1>10, <2>1, GoingTo, ErrorKeeps DEF MemberName, Expect
  <1>11. CASE MemberEquals
    <2>1. May("Members") /\ MayParse("Members", None)
      BY <1>11 DEF MemberEquals, Expect, May, MayParse, None, PrefixUnary
    <2> QED
      BY <1>11, <2>1, ParsingTo, ErrorKeeps DEF MemberEquals, Expect
  <1>12. CASE Square
    <2>1. /\ May("Element") /\ MayParse("Element", PrefixUnary)
          /\ May("ArrayLength") /\ MayParse("ArrayLength", None)
      BY <1>12 DEF Square, May, MayParse, None, PrefixUnary
    <2> QED
      BY <1>12, <2>1, ParsingTo, ParsingToMake DEF Square
  <1>13. CASE ArrayLength
    <2>1. May("Element") /\ MayParse("Element", PrefixUnary)
      BY <1>13 DEF ArrayLength, Expect, May, MayParse, None, PrefixUnary
    <2> QED
      BY <1>13, <2>1, ParsingToMake, ErrorKeeps DEF ArrayLength, Expect
  <1> QED
    BY <1>1, <1>2, <1>3, <1>4, <1>5, <1>6, <1>7, <1>8, <1>9, <1>10, <1>11, <1>12, <1>13
    DEF Brackets

LEMMA FollowKeeps ==
    ASSUME IInv, Follow
    PROVE  IInv'
  <1> USE DEF At, OfStatement
  <1>1. CASE Infix
    <2>1. /\ Top.at = "Continuation"
          /\ next \in DOMAIN Precedence
          /\ Precedence[next] > Top.minimum
      BY <1>1 DEF Infix
    <2>2. Precedence[next] \in BooleanOr .. Cast
      BY <2>1, PrecedenceRange
    <2>3. IsCall(Top)
      BY TopOfStack
    <2>4. Top.minimum \in None .. PrefixUnary
      BY <2>3 DEF IsCall
    <2>5. May("Right") /\ MayParse("Right", RightMinimum(next))
      BY <2>1, <2>2, <2>4
      DEF May, MayParse, RightMinimum, None, PrefixUnary, BooleanOr, Cast
    <2> QED
      BY <1>1, <2>5, ParsingToMake DEF Infix
  <1>2. CASE Postfix
    <2>1. Top.at = "Continuation" /\ next \in {".", "(", "["}
      BY <1>2 DEF Postfix, Follows
    <2>2. /\ May("MemberReference") /\ May("ArgumentsBegin")
          /\ May("Index") /\ MayParse("Index", None)
      BY <2>1 DEF May, MayParse, None, PrefixUnary
    <2>3. /\ Replaces([Goes("MemberReference") EXCEPT !.kind = "MemberReference"], Top)
          /\ Replaces([Goes("ArgumentsBegin") EXCEPT !.kind = "FunctionCall"], Top)
      BY <2>2, GoesReplaces, KindReplaces DEF May
    <2>4. /\ Replaces([Goes("Index") EXCEPT !.kind = "IndexReference"], Top)
          /\ [Goes("Index") EXCEPT !.kind = "IndexReference"].at = "Index"
      BY <2>2, GoesReplaces, KindReplaces DEF May
    <2>5. \/ GoOn([Goes("MemberReference") EXCEPT !.kind = "MemberReference"])
          \/ GoOn([Goes("ArgumentsBegin") EXCEPT !.kind = "FunctionCall"])
          \/ Parse([Goes("Index") EXCEPT !.kind = "IndexReference"], None)
      BY <1>2, <2>1 DEF Postfix, Follows
    <2> QED
      BY <2>2, <2>3, <2>4, <2>5, GoesOn, ParsingFor DEF Parse
  <1>3. CASE MemberReference
    <2>1. Top.at \notin OfStatement
      BY <1>3 DEF MemberReference, Expect
    <2> QED
      BY <1>3, <2>1, GoingLeft, ErrorKeeps DEF MemberReference, Expect
  <1>4. CASE ArgumentsBegin
    <2>1. Top.at = "ArgumentsBegin"
      BY <1>4 DEF ArgumentsBegin
    <2>2. /\ Top.at \notin OfStatement
          /\ May("Arguments") /\ MayParse("Arguments", None)
      BY <2>1 DEF May, MayParse, None, PrefixUnary
    <2> QED
      BY <1>4, <2>2, GoingLeft, ParsingTo DEF ArgumentsBegin
  <1>5. CASE Index
    <2>1. Top.at \notin OfStatement
      BY <1>5 DEF Index, Expect
    <2> QED
      BY <1>5, <2>1, GoingLeft, ErrorKeeps DEF Index, Expect
  <1> QED
    BY <1>1, <1>2, <1>3, <1>4, <1>5 DEF Follow

LEMMA ReturnExpressionKeeps ==
    ASSUME IInv, ReturnExpression
    PROVE  IInv'
  <1>0. Done
    BY DEF ReturnExpression, ReturnOperand, ReturnBaked, ReturnType, ReturnItem, ReturnPart
  <1>1. IsCall(Caller) /\ Caller.minimum \in None .. PrefixUnary
    BY <1>0, HasCaller DEF IsCall
  <1>2. ASSUME NEW expression, Caller.at \notin OfStatement
        PROVE  Replaces(Continuation(Caller.minimum, expression), Caller)
    BY <1>1, <1>2, ContinuationIsCall DEF Replaces
  <1>3. ASSUME NEW parts
        PROVE  Replaces([Caller EXCEPT !.parts = parts], Caller)
    BY <1>1, ChangeParts DEF Replaces
  <1>4. CASE ReturnOperand
    <2>1. Caller.at \notin OfStatement
      BY <1>4 DEF ReturnOperand, OfStatement
    <2> QED
      BY <1>0, <1>2, <1>4, <2>1, GivenBack DEF ReturnOperand
  <1>5. CASE ReturnBaked
    <2>1. Caller.at \notin OfStatement
      BY <1>5 DEF ReturnBaked, OfStatement
    <2>2. \/ Returned(Continuation(Caller.minimum, Node("Bake", <<Answer>>)))
          \/ stack' = stack
      BY <1>5 DEF ReturnBaked, End
    <2> QED
      BY <1>0, <1>2, <2>1, <2>2, GivenBack, SameStack
  <1>6. CASE ReturnType
    <2> DEFINE parts == Append(Caller.parts, Node("Return", <<Answer>>))
    <2>1. Caller.at \notin OfStatement
      BY <1>6 DEF ReturnType, OfStatement
    <2>2. Returned([Caller EXCEPT !.at = "Tags", !.parts = parts])
      BY <1>6 DEF ReturnType
    <2> HIDE DEF parts
    <2>3. Replaces([Caller EXCEPT !.at = "Tags", !.parts = parts], Caller)
      BY <1>1, <2>1, ChangeAtAndParts DEF Replaces
    <2> QED
      BY <1>0, <2>2, <2>3, GivenBack
  <1>7. CASE ReturnItem
    <2> DEFINE item == Append(Caller.parts, Node(Caller.kind, <<Answer>>))
               return == Append(Caller.parts, Node("Return", <<Answer>>))
               tag == ToTheTag(Caller.parts)
    <2>1. \/ Returned([Caller EXCEPT !.parts = item])
          \/ Returned([Caller EXCEPT !.parts = return])
          \/ Returned([Caller EXCEPT !.parts = tag])
      BY <1>7 DEF ReturnItem
    <2> HIDE DEF item, return, tag
    <2> QED
      BY <1>0, <1>3, <2>1, GivenBack
  <1>8. CASE ReturnPart
    <2> DEFINE parts == Append(Caller.parts, Answer)
    <2>1. Returned([Caller EXCEPT !.parts = parts])
      BY <1>8 DEF ReturnPart
    <2> HIDE DEF parts
    <2> QED
      BY <1>0, <1>3, <2>1, GivenBack
  <1> QED
    BY <1>4, <1>5, <1>6, <1>7, <1>8 DEF ReturnExpression

LEMMA StatementsKeep ==
    ASSUME IInv, Statements
    PROVE  IInv'
  <1> USE DEF At
  <1>a. ASSUME NEW at \in OfStatement
        PROVE  /\ May(at) /\ MayParse(at, None)
               /\ Replaces([Goes(at) EXCEPT !.parts = <<>>], Top)
               /\ [Goes(at) EXCEPT !.parts = <<>>].at = at
               /\ Replaces(Goes(at), Top) /\ Goes(at).at = at
    <2>1. May(at) /\ MayParse(at, None)
      BY <1>a DEF May, MayParse, OfStatement, None, PrefixUnary
    <2> QED
      BY <2>1, GoesReplaces, PartsReplace DEF May
  <1>b. /\ {"Statement", "Values", "ConstantRound", "ConstantIdentifier",
             "ConstantGrouped"} \subseteq OfStatement
        /\ \A at \in OfStatement :
              at \notin {"Right", "Operand", "Baked", "Element"}
    BY DEF OfStatement
  <1>1. CASE Using
    BY <1>1, <1>a, <1>b, ParsingTo DEF Using
  <1>2. CASE Statement
    BY <1>2, ErrorKeeps, SameStack DEF Statement, Accept, End
  <1>3. CASE Return
    <2>1. stack' = stack \/ Parse(Goes("Values"), None)
      BY <1>3 DEF Return, Accept, End
    <2> QED
      BY <2>1, <1>a, <1>b, ParsingTo, SameStack
  <1>4. CASE Values
    <2>1. stack' = stack \/ ParseWithin(Top, None)
      BY <1>4 DEF Values, Accept, End, Parse
    <2>2. Top.at = "Values" /\ Replaces(Top, Top)
      BY <1>4, TopReplaces DEF Values
    <2>3. MayParse(Top.at, None)
      BY <1>a, <1>b, <2>2
    <2> QED
      BY <2>1, <2>2, <2>3, ParsingFor, SameStack
  <1>5. CASE Constant
    BY <1>5, <1>a, <1>b, GoingTo, ParsingTo, Continues DEF Constant
  <1>6. CASE ConstantRound
    <2>1. \/ stack' = stack
          \/ GoOn(With("ConstantIdentifier", Leaf(Len(input'))))
          \/ Parse(Goes("ConstantGrouped"), None)
      BY <1>6 DEF ConstantRound, Declares, End
    <2> QED
      BY <2>1, <1>a, <1>b, SameStack, GoingWith, ParsingTo
  <1>7. CASE ConstantIdentifier
    <2>1. \/ stack' = stack
          \/ Continue([Goes("ConstantGrouped") EXCEPT !.parts = <<>>], Last(Top.parts))
      BY <1>7 DEF ConstantIdentifier, Declares, End
    <2> QED
      BY <2>1, <1>a, <1>b, SameStack, Continues
  <1>8. CASE ConstantGrouped
    <2>1. \/ error
          \/ Continue([Goes("Statement") EXCEPT !.parts = <<>>], Last(Top.parts))
      BY <1>8 DEF ConstantGrouped, Expect
    <2> QED
      BY <2>1, <1>a, <1>b, ErrorKeeps, Continues
  <1> QED
    BY <1>1, <1>2, <1>3, <1>4, <1>5, <1>6, <1>7, <1>8 DEF Statements

-----------------------------------------------------------------------------
LEMMA InitOK == Init => IInv
  <1> SUFFICES ASSUME Init
               PROVE  IInv
    OBVIOUS
  <1> DEFINE c == Call(statement, None)
  <1>1. statement \in Beginnings
    BY AlphabetsAssumption DEF Init
  <1>2. IsCall(c) /\ c.at = statement
    BY CallIsCall DEF None, PrefixUnary
  <1>3. stack = <<c>>
    BY DEF Init
  <1> HIDE DEF c
  <1>4. /\ stack \in Seq({c}) /\ Len(stack) = 1 /\ stack[1] = c
    BY <1>3
  <1>5. c.at \in OfStatement
    BY <1>1, <1>2 DEF Beginnings, OfStatement
  <1> QED
    BY <1>2, <1>4, <1>5 DEF IInv, StackOK

LEMMA NextOK == IInv /\ [Next]_vars => IInv'
  <1> SUFFICES ASSUME IInv, [Next]_vars
               PROVE  IInv'
    OBVIOUS
  <1>1. CASE Ended \/ UNCHANGED vars
    BY <1>1, SameStack DEF Ended, vars
  <1> QED
    BY <1>1, BeginKeeps, FunctionTypeKeeps, BracketsKeep, FollowKeeps,
       ReturnExpressionKeeps, StatementsKeep DEF Next

LEMMA Rising == IInv => MinimumsRise
  <1> SUFFICES ASSUME IInv
               PROVE  MinimumsRise
    OBVIOUS
  <1>1. DOMAIN stack = 1 .. Len(stack)
    <2>1. PICK S : stack \in Seq(S)
      BY DEF IInv, StackOK
    <2> QED
      BY <2>1
  <1>2. \A k \in DOMAIN stack : stack[k].minimum \in None .. PrefixUnary
    BY <1>1 DEF IInv, StackOK, IsCall
  <1>3. \A k \in 1 .. Len(stack) - 1 : Rises(stack[k], stack[k + 1])
    BY DEF IInv, StackOK
  <1> QED
    BY <1>2, <1>3 DEF MinimumsRise, Rises

(* However an input goes on, what waits for an operand asks for more than  *)
(* it was asked for, and for no more than a prefix operator does           *)
(* (parse_expression, parse_expression_continuation).                      *)
THEOREM MinimaRise == Spec => []MinimumsRise
  <1>1. Spec => []IInv
    BY InitOK, NextOK, PTL DEF Spec
  <1> QED
    BY <1>1, Rising, PTL

=============================================================================
