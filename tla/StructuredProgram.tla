-------------------------- MODULE StructuredProgram --------------------------
(***************************************************************************)
(* What a function body means, with no blocks and no instructions: the     *)
(* order in which its effects, conditions and returns happen.  A condition *)
(* may come out either way.                                                *)
(***************************************************************************)
EXTENDS StatementTree

VARIABLES
    body,   \* the statements of the function
    point   \* what is about to happen

svars == <<body, point>>

NotStarted == Point(<<>>, 0, 1)
Returned == Point(<<>>, 0, 2)
Meaningless == Point(<<>>, 0, 3)   \* a break outside of every loop

(* A place is a list and a number: the n-th statement of the list, or the  *)
(* end of the list.                                                        *)
Places == Seq(Nat \X Nat) \X Nat

After(place) == <<place[1], place[2] + 1>>

(* The statement on the way of the path that holds its n-th list.          *)
Holder(path, n) == <<SubSeq(path, 1, n - 1), path[n][1]>>

StatementOn(b, place) == StatementsAt(b, place[1])[place[2]]

Loops(b, path) ==
    {n \in 1 .. Len(path) : IsLoop(StatementOn(b, Holder(path, n)))}

InnermostLoop(b, path) ==
    Holder(path, CHOOSE k \in Loops(b, path) : \A l \in Loops(b, path) : l <= k)

AtEndOfList(b, place) == place[2] > Len(StatementsAt(b, place[1]))

(* The statement that holds the list of the place.                         *)
Outer(place) == Holder(place[1], Len(place[1]))

(* Nothing happens at the place: control goes on to another one.  Past the *)
(* end of a list of an if that is the one after the if, and after a break  *)
(* the one after the innermost loop.                                       *)
IsSilent(b, place) ==
    IF AtEndOfList(b, place)
    THEN place[1] # <<>> /\ StatementOn(b, Outer(place)).kind = "if"
    ELSE LET kind == StatementOn(b, place).kind
         IN  \/ kind \in {"nothing", "declaration", "directive"}
             \/ kind = "break" /\ Loops(b, place[1]) # {}

Onwards(b, place) ==
    After(IF AtEndOfList(b, place) THEN Outer(place)
          ELSE IF StatementOn(b, place).kind = "break" THEN InnermostLoop(b, place[1])
          ELSE place)

(* What happens at any other place.  The end of the list of a loop is the  *)
(* next round of it.                                                       *)
Happening(b, place) ==
    IF AtEndOfList(b, place)
    THEN IF place[1] = <<>> THEN End
         ELSE Point(Outer(place)[1], Outer(place)[2],
                    IF StatementOn(b, Outer(place)).kind = "while" THEN 1 ELSE Increment)
    ELSE CASE StatementOn(b, place).kind = "break" -> Meaningless
           [] StatementOn(b, place).kind \in {"if", "while"} -> Point(place[1], place[2], 1)
           [] OTHER -> Point(place[1], place[2], 0)

(* The first thing that happens from a place onwards.                      *)
Upcoming(b) ==
    LET from[place \in Places] ==
          IF IsSilent(b, place) THEN from[Onwards(b, place)] ELSE Happening(b, place)
    IN  from

Init == point = NotStarted

Start == point = NotStarted /\ point' = Upcoming(body)[<< <<>>, 1 >>]

Current == StatementsAt(body, point[1])[point[2]]

Happens(kind) ==
    point \notin {NotStarted, End, Returned, Meaningless} /\ Current.kind = kind

Beyond == Upcoming(body)[<<point[1], point[2] + 1>>]

Inside(k) == Upcoming(body)[<<Within(point[1], point[2], k), 1>>]

Effect == Happens("effect") /\ point' = Beyond

Return == (point = End \/ Happens("return")) /\ point' = Returned

IfCondition ==
    /\ Happens("if")
    /\ LET k == point[3]
       IN  \/ point' = Inside(k)
           \/ point' = IF k < Conditions(Current)
                         THEN Point(point[1], point[2], k + 1)
                       ELSE IF HasElse(Current) THEN Inside(k + 1)
                       ELSE Beyond

WhileCondition == Happens("while") /\ point' \in {Inside(1), Beyond}

ForLoop ==
    /\ Happens("for")
    /\ IF point[3] = 1 THEN point' \in {Inside(1), Beyond}
                       ELSE point' = Point(point[1], point[2], 1)

Next ==
    /\ Start \/ Effect \/ Return \/ IfCondition \/ WhileCondition \/ ForLoop
    /\ UNCHANGED body

Spec == Init /\ [][Next]_svars
=============================================================================
