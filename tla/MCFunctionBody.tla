--------------------------- MODULE MCFunctionBody ---------------------------
(* Function bodies for TLC: a list of simple statements, inside every      *)
(* statement, inside every statement again, and what may follow.  The      *)
(* lists inside of a body are bodies too.                                  *)
EXTENDS FunctionBody

Simple(kind) == Statement(kind, <<>>, <<>>)

SimpleLists(kinds) == {<<>>} \cup {<<Simple(kind)>> : kind \in kinds}

(* Every statement over some lists; an if may have an else-if and an else, *)
(* with other lists.                                                       *)
Compound(lists, others) ==
    {Statement(kind, <<list>>, <<>>) : kind \in {"while", "for"}, list \in lists}
    \cup {Statement("if", <<list>>, other) : list \in lists, other \in others}
    \cup {Statement("if", <<list, other>>, other) : list \in lists, other \in others}

Followed(statements, kinds) ==
    {<<statement>> : statement \in statements}
    \cup {<<statement, Simple(kind)>> : statement \in statements, kind \in kinds}

Innermost ==
    SimpleLists({"effect", "nothing", "declaration", "directive",
                 "return", "break"})
    \cup {<<Simple("effect"), Simple("break")>>,
          <<Simple("return"), Simple("declaration")>>,
          <<Simple("break"), Simple("effect")>>}

Once == Compound(Innermost, SimpleLists({"effect", "return"}))

Twice == Compound(Followed(Once, {"effect", "break"}), SimpleLists({"return"}))

(* Three levels, of loops that are left by break.                          *)
Inside(lists) == Followed(Compound(lists, {<<>>}), {"break"})

InsideTwice == Inside(Inside({<<>>, <<Simple("break")>>}))

MCBodies ==
    Innermost
    \cup Followed(Once, {"effect", "declaration", "return", "break"})
    \cup Followed(Twice, {"declaration", "return"})
    \cup InsideTwice
    \cup Inside(InsideTwice)
=============================================================================
