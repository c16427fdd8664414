---------------------------- MODULE StatementTree ----------------------------
(***************************************************************************)
(* The statements of a function body, as the parser leaves them (ast.h).   *)
(* A statement is a record                                                 *)
(*    [kind, bodies, else_statements]                                      *)
(* where bodies are the nested lists of statements: one for a loop, and    *)
(* for an if the list of the if and of each else-if.                       *)
(*                                                                         *)
(*   effect       generates instructions: a call, a variable, an           *)
(*                assignment, inline assembly                              *)
(*   nothing      a runtime statement that generates none: an expression   *)
(*                whose value is a constant                                *)
(*   declaration  not a runtime statement                                  *)
(*   directive    using or #import, which no code is generated for         *)
(*                                                                         *)
(* A list of statements is named by its path from the body of the          *)
(* function: the sequence of pairs <<statement, body>> that lead to it.    *)
(***************************************************************************)
EXTENDS Integers, Sequences

Kinds == {"effect", "nothing", "declaration", "directive",
          "return", "break", "if", "while", "for"}

Statement(kind, bodies, else_statements) ==
    [kind |-> kind, bodies |-> bodies, else_statements |-> else_statements]

(* The statements with nested lists among these.                           *)
Statements(lists) ==
    [kind : Kinds, bodies : Seq(lists), else_statements : lists]

IsWellFormed(statement) ==
    CASE statement.kind = "if" -> statement.bodies # <<>>
      [] statement.kind \in {"while", "for"} ->
            Len(statement.bodies) = 1 /\ statement.else_statements = <<>>
      [] OTHER -> statement.bodies = <<>> /\ statement.else_statements = <<>>

HasElse(statement) == statement.else_statements # <<>>

Conditions(statement) == Len(statement.bodies)

BodyCount(statement) ==
    Conditions(statement) + IF HasElse(statement) THEN 1 ELSE 0

BodyOf(statement, n) ==
    IF n <= Conditions(statement) THEN statement.bodies[n]
                                  ELSE statement.else_statements

StatementsAt(body, path) ==
    LET list[n \in 0 .. Len(path)] ==
          IF n = 0 THEN body
                   ELSE BodyOf(list[n - 1][path[n][1]], path[n][2])
    IN  list[Len(path)]

Within(path, statement, n) == Append(path, <<statement, n>>)

Enclosing(path) == SubSeq(path, 1, Len(path) - 1)

(* The parts of a statement that happen when the function runs: its n-th   *)
(* condition; 0 for the statement itself and for the initialisation of a   *)
(* for-loop, and Increment for the end of each round of it.                *)
Increment == -1
Point(path, n, part) == <<path, n, part>>

(* The return added to a body that does not end with one.                  *)
End == Point(<<>>, 0, 0)

IsLoop(statement) == statement.kind \in {"while", "for"}
=============================================================================
