---------------------------- MODULE Elaboration ----------------------------
(***************************************************************************)
(* How names are given a meaning: the searches of constant.cpp and         *)
(* hl_generator.cpp, over scopes whose declarations come to be known while *)
(* the job queue runs.  A file declares names, imports files, opens files  *)
(* and enums (using), and declares more when a condition holds (static     *)
(* if).  A search that needs what is not known yet waits for its job, and  *)
(* the job that asked starts over.                                         *)
(*                                                                         *)
(* Jobs run in the order of main.cpp.  All scopes are those of files; an   *)
(* expression is a name, a member of a name, or a literal.                 *)
(*                                                                         *)
(* Nothing here is a RECURSIVE operator: a file is the list of all its     *)
(* statements, those in static ifs among them, and a search that searches  *)
(* is a function of how deep such calls may still nest.                    *)
(***************************************************************************)
EXTENDS Naturals, SequencesExt

CONSTANTS
  Files,      (* Paths of source files.                                    *)
  MainFile,   (* The one that is compiled.                                 *)
  Names,      (* Names in programs; "" is the one of a statement without.  *)
  Programs,   (* The programs to go through: the statements of each file.  *)
  MaxDepth    (* So deep may searches nest: the end of the stack.          *)

VARIABLES
  program,    (* The program that is compiled.                             *)
  jobs,       (* The list of jobs.                                         *)
  outcome,    (* "running", "done", or how the compiler ended.             *)
  missing     (* The search that ended in "Cannot find named reference".   *)

vars == <<program, jobs, outcome, missing>>

(***************************************************************************)
(* Statements                                                              *)
(***************************************************************************)

(* ref is what the expression of the statement names: nothing (a literal), *)
(* a name, or a name and a member; member is the variant of an enum.  The  *)
(* statements of a file are numbered in the order of the text; at is the   *)
(* file and the number, within the numbers of the static ifs that the      *)
(* statement is in, and 0 for the file.                                    *)
Statement(kind, name, ref, file, export, member) ==
  [kind |-> kind, name |-> name, ref |-> ref, file |-> file, export |-> export,
   member |-> member, within |-> {}, at |-> <<MainFile, 0>>]

ConstantDefinition(name, ref) == Statement("constant", name, ref, MainFile, FALSE, "")
Import(name, file) == Statement("import", name, <<>>, file, FALSE, "")
UsingStatement(ref, export) == Statement("using", "", ref, MainFile, export, "")
StaticIf(ref) == Statement("static_if", "", ref, MainFile, FALSE, "")
EnumDefinition(name, variant, ref) == Statement("enum", name, ref, MainFile, FALSE, variant)
FunctionDeclaration(name, ref) == Statement("function", name, ref, MainFile, FALSE, "")
VariableDeclaration(name) == Statement("variable", name, <<>>, MainFile, FALSE, "")

StatementKinds == {"constant", "import", "using", "static_if", "enum", "function", "variable"}
Places == Files \X Nat
Statements ==
  [kind : StatementKinds, name : Names, ref : Seq(Names), file : Files, export : BOOLEAN,
   member : Names, within : SUBSET Nat, at : Places]

(* What the parser can have made of the files: the static ifs that hold a  *)
(* statement come before it, with nothing in between that they do not hold,*)
(* and are within each other.                                              *)
IsStatementOf(p, f, n) ==
  LET s == p[f][n]
  IN  /\ s.at = <<f, n>>
      /\ 0 \in s.within /\ s.within \subseteq 0 .. n - 1
      /\ \A m \in s.within \ {0} :
           /\ p[f][m].kind = "static_if"
           /\ p[f][m].within = s.within \cap 0 .. m - 1
           /\ \A k \in m + 1 .. n - 1 : m \in p[f][k].within
      /\ s.kind \in {"using", "static_if"} => s.ref # <<>>

IsProgram(p) ==
  /\ p \in [Files -> Seq(Statements)]
  /\ \A f \in Files : \A n \in DOMAIN p[f] : IsStatementOf(p, f, n)

ASSUME ProgramsAssumption ==
  /\ MainFile \in Files
  /\ {"", "true", "false"} \subseteq Names
  /\ MaxDepth \in Nat
  /\ \A p \in Programs : IsProgram(p)

(* A file and a static if stand for the list of statements in them.        *)
None == Statement("none", "", <<>>, MainFile, FALSE, "")
Top(file) == [Statement("file", "", <<>>, file, FALSE, "") EXCEPT !.at = <<file, 0>>]
FileOf(s) == s.at[1]

IsWithin(s, list) == FileOf(s) = FileOf(list) /\ list.at[2] \in s.within
IsIn(s, list) == FileOf(s) = FileOf(list) /\ s.within = list.within \cup {list.at[2]}

(* The statements that a hash table of declarations holds.                 *)
Declares(s) == s.kind \in {"constant", "import", "enum", "function"}

is_declaration_public(s) == s.kind # "import"

(* The first declaration of the name in a list.                            *)
Declaration(list, name) ==
  LET statements == program[FileOf(list)]
      n == SelectInSeq(statements, LAMBDA s : IsIn(s, list) /\ Declares(s) /\ s.name = name)
  IN  IF n = 0 THEN None ELSE statements[n]

(* Mutant: a using may declare nothing.                                    *)
CouldHave_NoUsing(list, name) ==
  \E s \in ToSet(program[FileOf(list)]) : IsWithin(s, list) /\ Declares(s) /\ s.name = name

(* Of a static if, how deep the statement may be in it.  Of the statements *)
(* in it the same is asked in a search from outside the file and in one    *)
(* from inside.  A variable has no name here.                              *)
does_or_could_have_name(list, name) ==
  \E s \in ToSet(program[FileOf(list)]) :
    IsWithin(s, list) /\ (s.kind = "using" \/ (Declares(s) /\ s.name = name))

(***************************************************************************)
(* Jobs                                                                    *)
(***************************************************************************)

(* declaration is what the expression of the statement turned out to name, *)
(* and value the declaration that this comes down to: for a constant that  *)
(* is another name for an import, the import.                              *)
NewJob(kind, s) ==
  [kind |-> kind, statement |-> s, state |-> "Working", waiting_for |-> 0,
   declaration |-> None, value |-> None]

JobKind ==
  [constant |-> "ResolveConstantDefinition", static_if |-> "ResolveStaticIf",
   enum |-> "ResolveEnumDefinition", function |-> "ResolveFunctionDeclaration",
   variable |-> "GenerateStaticVariable"]

JobFor(kind, s) == SelectInSeq(jobs, LAMBDA job : job.kind = kind /\ job.statement = s)

IsDone(i) == jobs[i].state = "Done"

(* Mutant: the jobs of a file are those of its declarations.               *)
WithJob_NoStaticIf(s, before) ==
  CASE s.kind \in {"using", "static_if"} -> before
    [] s.kind = "import" ->
         IF \E i \in DOMAIN before : before[i].statement = Top(s.file)
         THEN before ELSE Append(before, NewJob("ParseFile", Top(s.file)))
    [] OTHER -> Append(before, NewJob(JobKind[s.kind], s))

(* Mutant: a file is parsed for each import of it.                         *)
WithJob_EachImport(s, before) ==
  CASE s.kind = "using" -> before
    [] s.kind = "import" -> Append(before, NewJob("ParseFile", Top(s.file)))
    [] OTHER -> Append(before, NewJob(JobKind[s.kind], s))

(* A file is parsed once.                                                  *)
WithJob(s, before) ==
  CASE s.kind = "using" -> before
    [] s.kind = "import" ->
         IF \E i \in DOMAIN before : before[i].statement = Top(s.file)
         THEN before ELSE Append(before, NewJob("ParseFile", Top(s.file)))
    [] OTHER -> Append(before, NewJob(JobKind[s.kind], s))

(* The jobs of a list of statements are appended, in order.                *)
process_scope(list, to) ==
  LET statements == program[FileOf(list)]
      after[n \in 0 .. Len(statements)] ==
        CASE n = 0 -> to
          [] n > 0 /\ IsIn(statements[n], list) -> WithJob(statements[n], after[n - 1])
          [] OTHER -> after[n - 1]
  IN  after[Len(statements)]

(***************************************************************************)
(* Searches                                                                *)
(***************************************************************************)

(* What a search comes to: a declaration with its value, a job to wait     *)
(* for, nothing, or the end of the compiler.                               *)
Result(tag, declaration, value, job) ==
  [tag |-> tag, declaration |-> declaration, value |-> value, job |-> job]

Found(s, value) == Result("found", s, value, 0)
Wait(i) == Result("wait", None, None, i)
Nothing == Result("nothing", None, None, 0)
Stopped == Result("stopped", None, None, 0)     (* Nothing, and no further: *)
                       (* has_reached_ignore_in_scope, or what is private.  *)
Error == Result("error", None, None, 0)
Aborted == Result("aborted", None, None, 0)     (* abort(), or assert(found) *)
Diverges == Result("diverges", None, None, 0)   (* The stack is used up.    *)

(* The result of the job of a declaration.                                 *)
get_simple_resolved_declaration(s) ==
  LET i == IF s.kind = "import" THEN JobFor("ParseFile", Top(s.file))
           ELSE JobFor(JobKind[s.kind], s)
  IN  CASE i = 0 -> Aborted
        [] i # 0 /\ IsDone(i) -> Found(s, IF s.kind = "import" THEN s ELSE jobs[i].value)
        [] OTHER -> Wait(i)

GlobalConstants == {"true", "false"}
GlobalConstant(name) == Statement("global", name, <<>>, MainFile, FALSE, "")

(* The variant of an enum, which is a value of its own.                    *)
Variant(s) == [s EXCEPT !.kind = "variant", !.name = s.member]

Type(value) ==
  [global |-> "Boolean", constant |-> "Boolean", import |-> "FileModule", enum |-> "Enum",
   variant |-> "Integer", function |-> "Function", variable |-> "Variable"][value.kind]

IsTrue(value) == Type(value) = "Boolean" /\ value # GlobalConstant("false")

(* The static if is decided, and its condition true: its statements count. *)
ComesTrue(s) ==
  LET i == JobFor("ResolveStaticIf", s)
  IN  i # 0 /\ IsDone(i) /\ IsTrue(jobs[i].value)

IsReached(s) == \A m \in s.within \ {0} : ComesTrue(program[FileOf(s)][m])

(* A search: the name, the file whose scope it is in, whether it comes     *)
(* from outside of that file, whether it is that of hl_generator.cpp,      *)
(* which sees variables, and where the statement is that is left out.      *)
Query(name, file, external, runtime, ignore) ==
  [name |-> name, file |-> file, external |-> external, runtime |-> runtime, ignore |-> ignore]

Queries == [name : Names, file : Files, external : BOOLEAN, runtime : BOOLEAN, ignore : Places]

NoPlace == <<MainFile, 0>>

(* A declaration of the list comes first, and ends the search if it is not *)
(* public.  What is in a static if is searched as if from inside the file. *)
SearchDeclarations(q, list) ==
  LET s == Declaration(list, q.name)
  IN  CASE s = None \/ s.at = q.ignore -> Nothing
        [] s # None /\ s.at # q.ignore /\ q.external /\ list.kind = "file" /\ ~is_declaration_public(s) -> Stopped
        [] OTHER -> get_simple_resolved_declaration(s)

(* In the operators that follow, search is what the calls of               *)
(* search_for_name that they make come to.                                 *)

(* From outside: the scope of a file, without anything left out.           *)
SearchModule(q, file, search) ==
  LET result == search[Query(q.name, file, TRUE, q.runtime, NoPlace)]
  IN  IF result = Stopped THEN Nothing ELSE result

(* In what has been found to be opened: a file or an enum.                 *)
SearchIn(q, object, search) ==
  CASE object.tag # "found" -> object
    [] object.tag = "found" /\ Type(object.value) = "FileModule" ->
         SearchModule(q, object.value.file, search)
    [] object.tag = "found" /\ Type(object.value) = "Enum" ->
         IF object.value.member = q.name
         THEN Found(Variant(object.value), Variant(object.value)) ELSE Nothing
    [] OTHER -> Error

(* A name in the scope of its file, and then among the global constants.   *)
OrGlobalConstant(q, result) ==
  CASE result.tag \notin {"nothing", "stopped"} -> result
    [] result.tag \in {"nothing", "stopped"} /\ q.name \in GlobalConstants ->
         Found(GlobalConstant(q.name), GlobalConstant(q.name))
    [] OTHER -> [tag |-> "missing", query |-> q]

EvaluateName(q, search) == OrGlobalConstant(q, search[q])

OrError(result) == IF result = Nothing THEN Error ELSE result

(* A name, or a member of what it names.                                   *)
Evaluate(q, ref, search) ==
  IF Len(ref) = 1 THEN EvaluateName([q EXCEPT !.name = ref[1]], search)
  ELSE OrError(SearchIn([q EXCEPT !.name = ref[2]],
                        EvaluateName([q EXCEPT !.name = ref[1]], search), search))

(* Mutant: the using is not left out of the search for its own operand.    *)
Open_Itself(q, s, search) ==
  SearchIn(q, Evaluate(Query("", FileOf(s), FALSE, FALSE, NoPlace), s.ref, search), search)

(* A using: its operand is evaluated without it, and only it; in a body    *)
(* with it.                                                                *)
Open(q, s, search) ==
  LET ignore == IF q.runtime THEN NoPlace ELSE s.at
  IN  SearchIn(q, Evaluate(Query("", FileOf(s), FALSE, FALSE, ignore), s.ref, search), search)

(* Mutant: a search from outside does not wait.                            *)
SearchStaticIf_Impatient(q, s, i) ==
  CASE i = 0 -> Aborted
    [] i # 0 /\ IsDone(i) -> IF IsTrue(jobs[i].value) THEN SearchDeclarations(q, s) ELSE Nothing
    [] OTHER -> IF ~q.external /\ does_or_could_have_name(s, q.name) THEN Wait(i) ELSE Nothing

(* A static if with the job i: its declarations if it is true, and then    *)
(* its statements are next.                                                *)
SearchStaticIf(q, s, i) ==
  CASE i = 0 -> Aborted
    [] i # 0 /\ IsDone(i) -> IF IsTrue(jobs[i].value) THEN SearchDeclarations(q, s) ELSE Nothing
    [] OTHER -> IF does_or_could_have_name(s, q.name) THEN Wait(i) ELSE Nothing

SearchVariable(s, i) ==
  CASE i = 0 -> Aborted
    [] i # 0 /\ IsDone(i) -> Found(s, s)
    [] OTHER -> Wait(i)

(* One statement.  A static if that is left out ends the search of the     *)
(* whole scope.                                                            *)
SearchStatement(q, s, search) ==
  CASE s.at = q.ignore -> IF s.kind = "static_if" THEN Stopped ELSE Nothing
    [] s.at # q.ignore /\ s.kind = "using" /\ (q.external /\ s.within = {0} => s.export) ->
         Open(q, s, search)
    [] s.at # q.ignore /\ s.kind = "static_if" ->
         SearchStaticIf(q, s, JobFor("ResolveStaticIf", s))
    [] s.at # q.ignore /\ s.kind = "variable" /\ q.runtime /\ s.name = q.name ->
         SearchVariable(s, JobFor("GenerateStaticVariable", s))
    [] OTHER -> Nothing

(* Mutant: a job is waited for when nothing later has the name.            *)
FirstOf_Known(earlier, later) ==
  IF earlier = Nothing \/ (earlier.tag = "wait" /\ later.tag = "found") THEN later ELSE earlier

(* What is found first counts; a job that is met first is waited for.      *)
FirstOf(earlier, later) == IF earlier = Nothing THEN later ELSE earlier

(* The n-th statement of the file, if it counts; at first (n = 0) the      *)
(* declarations of the file.                                               *)
SearchAt(q, n, search) ==
  LET s == program[q.file][n]
  IN  CASE n = 0 -> SearchDeclarations(q, Top(q.file))
        [] n > 0 /\ IsReached(s) -> SearchStatement(q, s, search)
        [] OTHER -> Nothing

(* search_for_name_internal: the declarations of the file, and then its    *)
(* statements in order, with those of the static ifs that are true.        *)
Scan(q, search) ==
  LET found[n \in 0 .. Len(program[q.file])] ==
        IF n = 0 THEN SearchAt(q, 0, search)
        ELSE FirstOf(found[n - 1], SearchAt(q, n, search))
  IN  found[Len(program[q.file])]

(* search_for_name, as far as it gets with calls nested so deep.           *)
Search[depth \in 0 .. MaxDepth] ==
  [q \in Queries |-> IF depth = 0 THEN Diverges ELSE Scan(q, Search[depth - 1])]

(***************************************************************************)
(* The handlers                                                            *)
(***************************************************************************)

(* What the expression of a job's statement means now.  Of these only a    *)
(* static if is left out of the search for its own expression.             *)
Meaning(i) ==
  LET job == jobs[i]
      s == job.statement
      ignore == IF job.kind = "ResolveStaticIf" THEN s.at ELSE NoPlace
      q == Query("", FileOf(s), FALSE, job.kind = "GenerateFunction", ignore)
  IN  IF s.ref = <<>> THEN Found(s, s) ELSE Evaluate(q, s.ref, Search[MaxDepth])

(* The first job that can run.                                             *)
Runnable(i) ==
  \/ jobs[i].state = "Working"
  \/ jobs[i].state = "Waiting" /\ IsDone(jobs[i].waiting_for)

Selected(i, kind) ==
  /\ outcome = "running"
  /\ jobs[i].kind = kind
  /\ Runnable(i)
  /\ \A j \in 1..i - 1 : ~Runnable(j)

Completed(i, declaration, value) ==
  [jobs EXCEPT ![i] = [@ EXCEPT !.state = "Done", !.declaration = declaration, !.value = value]]

(* The handler waits, or the compiler ends.                                *)
Suspend(i, result) ==
  /\ result.tag = "wait"
  /\ jobs' = [jobs EXCEPT ![i].state = "Waiting", ![i].waiting_for = result.job]
  /\ UNCHANGED <<program, outcome, missing>>

Fail(result) ==
  /\ result.tag \in {"error", "missing", "aborted", "diverges"}
  /\ outcome' = result.tag
  /\ missing' = IF result.tag = "missing" THEN {result.query} ELSE {}
  /\ UNCHANGED <<program, jobs>>

ParseFile(i) ==
  /\ Selected(i, "ParseFile")
  /\ jobs' = process_scope(jobs[i].statement, Completed(i, None, None))
  /\ UNCHANGED <<program, outcome, missing>>

(* A handler of which the result is all there is to it.                    *)
Evaluated(i, result) ==
  \/ Suspend(i, result)
  \/ Fail(result)
  \/ /\ result.tag = "found"
     /\ jobs' = Completed(i, result.declaration, result.value)
     /\ UNCHANGED <<program, outcome, missing>>

ResolveConstantDefinition(i) ==
  /\ Selected(i, "ResolveConstantDefinition")
  /\ Evaluated(i, Meaning(i))

OfType(type, result) == IF result.tag = "found" /\ Type(result.value) # type THEN Error ELSE result

(* The condition must be a boolean; the statements come to life when it is *)
(* true.                                                                   *)
Decided(i, result) ==
  \/ Suspend(i, result)
  \/ Fail(result)
  \/ /\ result.tag = "found"
     /\ jobs' = LET completed == Completed(i, result.declaration, result.value)
                IN  IF IsTrue(result.value) THEN process_scope(jobs[i].statement, completed) ELSE completed
     /\ UNCHANGED <<program, outcome, missing>>

ResolveStaticIf(i) ==
  /\ Selected(i, "ResolveStaticIf")
  /\ Decided(i, OfType("Boolean", Meaning(i)))

(* The value of the variant, if it has one, must be an integer.            *)
Defined(i, result) ==
  \/ Suspend(i, result)
  \/ Fail(result)
  \/ /\ result.tag = "found"
     /\ jobs' = Completed(i, result.declaration, jobs[i].statement)
     /\ UNCHANGED <<program, outcome, missing>>

ResolveEnumDefinition(i) ==
  /\ Selected(i, "ResolveEnumDefinition")
  /\ IF jobs[i].statement.ref = <<>> THEN Defined(i, Found(jobs[i].statement, jobs[i].statement))
     ELSE Defined(i, OfType("Integer", Meaning(i)))

(* The type of a function names nothing; its body is generated next.       *)
ResolveFunctionDeclaration(i) ==
  /\ Selected(i, "ResolveFunctionDeclaration")
  /\ jobs' = Append(Completed(i, None, jobs[i].statement), NewJob("GenerateFunction", jobs[i].statement))
  /\ UNCHANGED <<program, outcome, missing>>

GenerateFunction(i) ==
  /\ Selected(i, "GenerateFunction")
  /\ Evaluated(i, Meaning(i))

(* The initializer of a variable is a literal.                             *)
GenerateStaticVariable(i) ==
  /\ Selected(i, "GenerateStaticVariable")
  /\ jobs' = Completed(i, None, jobs[i].statement)
  /\ UNCHANGED <<program, outcome, missing>>

(* Nothing can run any more.                                               *)
Report ==
  /\ outcome = "running"
  /\ \A i \in DOMAIN jobs : ~Runnable(i)
  /\ outcome' = IF \A i \in DOMAIN jobs : IsDone(i) THEN "done" ELSE "circular"
  /\ UNCHANGED <<program, jobs, missing>>

Ended == outcome # "running" /\ UNCHANGED vars

Init ==
  /\ program \in Programs
  /\ jobs = <<NewJob("ParseFile", Top(MainFile))>>
  /\ outcome = "running"
  /\ missing = {}

Next ==
  \/ \E i \in DOMAIN jobs :
       \/ ParseFile(i)
       \/ ResolveConstantDefinition(i)
       \/ ResolveStaticIf(i)
       \/ ResolveEnumDefinition(i)
       \/ ResolveFunctionDeclaration(i)
       \/ GenerateFunction(i)
       \/ GenerateStaticVariable(i)
  \/ Report
  \/ Ended

Spec == Init /\ [][Next]_vars

(***************************************************************************)
(* Properties                                                              *)
(***************************************************************************)

(* The statements of a file, and which of them count or never will.        *)
StatementsOf(f) == ToSet(program[f])

Parents(s) == {program[FileOf(s)][m].at : m \in s.within \ {0}}
IsLive(s) == \A p \in Parents(s) : \E i \in DOMAIN jobs : jobs[i].statement.at = p /\ IsDone(i) /\ IsTrue(jobs[i].value)
IsDead(s) == \E p \in Parents(s) : \E i \in DOMAIN jobs : jobs[i].statement.at = p /\ IsDone(i) /\ ~IsTrue(jobs[i].value)

(* s is before the place, or there is no such place.                       *)
IsBefore(s, place) == place = NoPlace \/ s.at[2] < place[2]

(* The variables are well typed, and a statement has one job of a kind:    *)
(* however files import each other, each is parsed once (process_scope).   *)
TypeOK ==
  /\ outcome \in {"running", "done", "circular", "error", "missing", "aborted", "diverges"}
  /\ \A i \in DOMAIN jobs :
       /\ jobs[i].state \in {"Working", "Waiting", "Done"}
       /\ jobs[i].waiting_for \in 0..Len(jobs)
       /\ \A j \in 1..i - 1 : <<jobs[i].kind, jobs[i].statement>> # <<jobs[j].kind, jobs[j].statement>>

(* The searches take for granted that whatever they meet has a job: the    *)
(* assertions that a static if was found, and the aborts of                *)
(* get_simple_resolved_declaration and of the search for a variable.       *)
AssertionsHold == outcome # "aborted"

(* What a name was found to mean stays so: a result is kept in its job     *)
(* while more files are parsed and more static ifs come true, and a search *)
(* made later must not find another declaration.  This is why a search     *)
(* waits for a static if that could declare the name.  It does not wait    *)
(* for a variable in one, which makes the exception.                       *)
IsConditionalVariable(name) ==
  \E f \in Files : \E s \in StatementsOf(f) : s.kind = "variable" /\ s.name = name /\ s.within # {0}

OverlooksVariables(i) ==
  LET ref == jobs[i].statement.ref
  IN  jobs[i].kind = "GenerateFunction" /\ \E n \in DOMAIN ref : IsConditionalVariable(ref[n])

ResultsAreStable ==
  \A i \in DOMAIN jobs :
    /\ IsDone(i) /\ ~OverlooksVariables(i)
    /\ jobs[i].kind \notin {"ParseFile", "ResolveFunctionDeclaration", "GenerateStaticVariable"}
    => LET meaning == Meaning(i)
       IN  meaning.tag = "found" /\ meaning.declaration = jobs[i].declaration

(* A job waits for one other, the first that its search did not know of,   *)
(* and is not tried again before that is done.  It misses nothing: as long *)
(* as the other is not done, a search made anew would wait for it as well, *)
(* whatever came to be known meanwhile.  So a job that is left waiting     *)
(* when nothing can run is part of a circular dependency.  The exception   *)
(* is the same: a body may wait for a declaration that is meant no longer, *)
(* once a static if before it has declared a variable.                     *)
WaitsAreNeeded ==
  \A i \in DOMAIN jobs :
    jobs[i].state = "Waiting" /\ ~IsDone(jobs[i].waiting_for) /\ ~OverlooksVariables(i)
    => Meaning(i) = Wait(jobs[i].waiting_for)

(* "Cannot find named reference" is final: what could still declare the    *)
(* name, a declaration or a using in a static if whose condition is not    *)
(* known yet, is waited for, and what is known to declare it is found, in  *)
(* the file and in those that its usings open.  Out of reach are the rest  *)
(* of a file from a static if on, for its own condition, what an import    *)
(* hides in a file that is opened, and variables in a static if.           *)
IsSettled(s) == IsDead(s) \/ (s.kind \in {"using", "static_if"} /\ IsLive(s))

CouldHave(s, name) ==
  s.kind = "using" \/ (Declares(s) /\ s.name = name) \/ does_or_could_have_name(s, name)

Opened(s) ==
  LET import == Declaration(Top(FileOf(s)), s.ref[1])
  IN  IF import # None /\ import.kind = "import" /\ Len(s.ref) = 1 THEN {import.file} ELSE {}

MissingIsMissing ==
  \A q \in missing : LET statements == StatementsOf(q.file) IN
    /\ \A s \in statements :
         CouldHave(s, q.name) /\ IsBefore(s, q.ignore) => IsSettled(s)
    /\ \A s \in statements :
         s.kind = "variable" /\ s.name = q.name => ~q.runtime \/ s.within # {0}
    /\ \A s \in statements :
         s.kind = "using" /\ IsLive(s) /\ s.at # q.ignore /\ IsBefore(s, q.ignore) =>
           \A f \in Opened(s) : \A d \in StatementsOf(f) :
             /\ Declares(d) /\ d.name = q.name
             /\ \A e \in StatementsOf(f) : e.kind = "import" => e.name # q.name
             => IsDead(d)

(* A search may call itself without end in two ways only: two usings of    *)
(* one file whose operands are found by neither of their lists, each       *)
(* searched in the other, or files that import each other, one of which    *)
(* opens the next for those that open it.                                  *)
Usings(f) == {s \in StatementsOf(f) : s.kind = "using"}
IsDeclaredIn(f, name) == Declaration(Top(f), name) # None
ImportsOf(f) == {s.file : s \in {s \in StatementsOf(f) : s.kind = "import"}}

SearchesEnd ==
  outcome = "diverges" =>
    \/ \E f \in Files : \E s, t \in Usings(f) :
         s # t /\ ~IsDeclaredIn(f, s.ref[1]) /\ ~IsDeclaredIn(f, t.ref[1])
    \/ \E cycle \in SeqOf(Files, Cardinality(Files)) \ {<<>>} :
         /\ \A k \in DOMAIN cycle : cycle[(k % Len(cycle)) + 1] \in ImportsOf(cycle[k])
         /\ \E k \in DOMAIN cycle : \E s \in Usings(cycle[k]) : s.export \/ s.within # {0}

=============================================================================
