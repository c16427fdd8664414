----------------------------- MODULE MCJobQueue -----------------------------
(***************************************************************************)
(* Small instances of JobQueue for TLC: two files, and either a            *)
(* polymorphic function, with function and constant declarations, or a     *)
(* polymorphic struct and union, with every kind of declaration.           *)
(***************************************************************************)
EXTENDS JobQueue

CONSTANTS f1, f2, inst1, inst2

MCFiles == {f1, f2}
OneFile == {f1}

FunctionInstances == {inst1}
FunctionInstanceKind == [inst \in {inst1} |-> "ResolvePolymorphicFunction"]
FunctionScopes == {"ResolveFunctionDeclaration", "ResolveConstantDefinition"}

TypeInstances == {inst1, inst2}
TypeInstanceKind ==
    [inst \in {inst1, inst2} |->
        IF inst = inst1 THEN "ResolvePolymorphicStruct"
                        ELSE "ResolvePolymorphicUnion"]
AllScopes == DeclarationKinds
=============================================================================
