--------------------------- MODULE MCElaboration ---------------------------
(* Small programs of one or two files for Elaboration.                     *)
EXTENDS Elaboration

CONSTANTS MaxMain, MaxOther

(* A statement with those in it.                                           *)
Tree(statement, body) == [statement |-> statement, body |-> body]
Leaf(statement) == Tree(statement, <<>>)

(* a and b are constants, m names the other file, E is an enum.            *)
Literal(name) == Leaf(ConstantDefinition(name, <<>>))
Name(name, other) == Leaf(ConstantDefinition(name, <<other>>))
Member(name, other) == Leaf(ConstantDefinition(name, <<"m", other>>))
ImportOf(file) == Leaf(Import("m", file))
Opening(name, export) == Leaf(UsingStatement(<<name>>, export))
Function(name, ref) == Leaf(FunctionDeclaration(name, ref))
Variable(name) == Leaf(VariableDeclaration(name))
Enum(variant, ref) == Leaf(EnumDefinition("E", variant, ref))
If(ref, body) == Tree(StaticIf(ref), body)

MCNames == {"", "a", "b", "m", "h", "E", "true", "false"}

(* Statements of the main file.                                            *)
MainPool ==
  {Literal("a"), Name("b", "a"), Member("a", "b"), Name("b", "false"),
   ImportOf("f2"), Opening("m", FALSE), Opening("E", FALSE),
   If(<<"true">>, <<Literal("b")>>),
   If(<<"false">>, <<Literal("b"), Variable("a")>>),
   If(<<"a">>, <<ImportOf("f2"), Opening("m", FALSE)>>),
   If(<<"m", "b">>, <<If(<<"b">>, <<Literal("a")>>)>>),
   If(<<"m", "b">>, <<Variable("a")>>),
   Function("h", <<"a">>), Function("b", <<"m", "a">>), Variable("a"),
   Enum("a", <<>>)}

(* Statements of the file it imports.                                      *)
OtherPool ==
  {Literal("a"), Name("b", "a"), If(<<"b">>, <<Name("a", "true")>>),
   If(<<"true">>, <<Name("b", "true"), Literal("a")>>),
   If(<<"a">>, <<Name("b", "true"), ImportOf("f1"), Opening("m", FALSE)>>),
   ImportOf("f1"), Opening("m", TRUE),
   Enum("b", <<"a">>), Variable("a")}

(* The statements of a file: those of the list from number n on, in the    *)
(* static ifs within.                                                      *)
RECURSIVE Placed(_, _, _, _)
Placed(file, list, within, n) ==
  IF list = <<>> THEN <<>>
  ELSE LET inner == Placed(file, list[1].body, within \cup {n}, n + 1)
       IN  <<[list[1].statement EXCEPT !.within = within, !.at = <<file, n>>]>> \o inner
             \o Placed(file, Tail(list), within, n + 1 + Len(inner))

FileOfList(file, list) == Placed(file, list, {0}, 1)

(* The other file is opened between two other statements.                  *)
MainOpening ==
  {<<ImportOf("f2"), first, Opening("m", FALSE), last>> : first, last \in MainPool}

MainFiles == {FileOfList("f1", list) : list \in SeqOf(MainPool, MaxMain) \cup MainOpening}
OtherFiles == {FileOfList("f2", list) : list \in SeqOf(OtherPool, MaxOther)}

ImportsOther(list) == \E n \in DOMAIN list : list[n].kind = "import"

MCPrograms == {p \in [f1 : MainFiles, f2 : OtherFiles] : ImportsOther(p.f1) \/ p.f2 = <<>>}
=============================================================================
