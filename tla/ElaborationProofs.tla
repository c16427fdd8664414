------------------------- MODULE ElaborationProofs -------------------------
(***************************************************************************)
(* Proofs about Elaboration, for any files, names and programs, and however*)
(* deep searches may nest: each statement has its jobs once, no assertion  *)
(* of the searches fails, what a name was found to mean stays so, a wait   *)
(* is for what is still needed, and a name that is reported missing is     *)
(* declared by nothing.                                                    *)
(*                                                                         *)
(* The jobs are those of the statements that count (Structure).  From this *)
(* every search that is made has a result that is not an abort (IsResult), *)
(* by induction over the depth of nested searches, and over the statements *)
(* of the file that is scanned.  Between two states of which the second    *)
(* only has more jobs, and more of them done (Later), a search persists:   *)
(* it comes to the same, unless it waited for a job that is done now.      *)
(* Every step of a job is of this kind (Advances), and so the last two     *)
(* properties are kept; the search that fails is taken apart at the end.   *)
(***************************************************************************)
EXTENDS Elaboration, SetInduction, SequenceTheorems, TLAPS

(***************************************************************************)
(* The invariant                                                           *)
(***************************************************************************)

(* What stands for a statement: those of files, the lists that hold them,  *)
(* and what names come down to.                                            *)
AnyStatement ==
  [kind : StatementKinds \cup {"none", "file", "global", "variant"}, name : Names, ref : Seq(Names),
   file : Files, export : BOOLEAN, member : Names, within : SUBSET Nat, at : Places]

Kinds ==
  {"ParseFile", "ResolveConstantDefinition", "ResolveStaticIf", "ResolveEnumDefinition",
   "ResolveFunctionDeclaration", "GenerateFunction", "GenerateStaticVariable"}

Job ==
  [kind : Kinds, statement : AnyStatement, state : {"Working", "Waiting", "Done"},
   waiting_for : Nat, declaration : AnyStatement, value : AnyStatement]

IsStatement(s) == \E f \in Files : s \in StatementsOf(f)

(* There is a job of the kind for the statement in the list.               *)
Has(list, kind, s) == \E i \in DOMAIN list : list[i].kind = kind /\ list[i].statement = s

Parsed(f) == \E i \in DOMAIN jobs : jobs[i].kind = "ParseFile" /\ jobs[i].statement = Top(f) /\ IsDone(i)

(* The jobs of a statement that counts.                                    *)
HasJob(list, s) ==
  /\ s.kind = "import" => Has(list, "ParseFile", Top(s.file))
  /\ s.kind \in DOMAIN JobKind => Has(list, JobKind[s.kind], s)

(* The variables are of the types that the proofs need.                    *)
TypesOK ==
  /\ program \in Programs
  /\ jobs \in Seq(Job)
  /\ outcome \in {"running", "done", "circular", "error", "missing", "aborted", "diverges"}
  /\ \A i \in DOMAIN jobs : jobs[i].waiting_for \in 0 .. Len(jobs)

(* A statement has one job of a kind.                                      *)
JobsAreUnique ==
  \A i, j \in DOMAIN jobs :
    jobs[i].kind = jobs[j].kind /\ jobs[i].statement = jobs[j].statement => i = j

(* What a job is about.                                                    *)
IsJobOf(kind, s) ==
  \/ kind = "ParseFile" /\ \E f \in Files : s = Top(f)
  \/ IsStatement(s) /\ s.kind \in DOMAIN JobKind /\ kind = JobKind[s.kind]
  \/ IsStatement(s) /\ s.kind = "function" /\ kind = "GenerateFunction"

(* Every job is about a file or about a statement of one.                  *)
JobsAreOfStatements ==
  \A i \in DOMAIN jobs : IsJobOf(jobs[i].kind, jobs[i].statement)

(* Only what counts has jobs, and a body only when its function has a type.*)
JobsCount ==
  \A i \in DOMAIN jobs :
    LET s == jobs[i].statement
    IN  /\ jobs[i].kind # "ParseFile" => Parsed(FileOf(s)) /\ IsReached(s)
        /\ jobs[i].kind = "GenerateFunction" =>
             \E j \in DOMAIN jobs :
               jobs[j].kind = "ResolveFunctionDeclaration" /\ jobs[j].statement = s /\ IsDone(j)

(* All that counts has jobs.                                               *)
WhatCountsHasJobs ==
  \A f \in Files : Parsed(f) => \A s \in StatementsOf(f) : IsReached(s) => HasJob(jobs, s)

(* What a name comes down to; a file has been parsed by then.              *)
ValueKinds == {"global", "constant", "import", "enum", "variant", "function", "variable"}

(* A value that a job or a search can come to.                             *)
IsValue(v) ==
  /\ v \in AnyStatement /\ v.kind \in ValueKinds
  /\ v.kind = "import" => Parsed(v.file)

(* Jobs that are done have values.                                         *)
ValuesAre ==
  \A i \in DOMAIN jobs : IsDone(i) /\ jobs[i].kind # "ParseFile" => IsValue(jobs[i].value)

(* What the jobs of every state have in common: the first part of the      *)
(* inductive invariant.                                                    *)
Structure ==
  /\ TypesOK
  /\ JobsAreUnique
  /\ JobsAreOfStatements
  /\ JobsCount
  /\ WhatCountsHasJobs
  /\ ValuesAre

(***************************************************************************)
(* Statements                                                              *)
(***************************************************************************)

(* The n-th statement of the file f, and the static ifs that hold it.      *)
IsNth(s, f, n) ==
  /\ n \in Nat /\ n >= 1 /\ n \in DOMAIN program[f] /\ n \in 1 .. Len(program[f])
  /\ s = program[f][n] /\ s \in Statements /\ s.at = <<f, n>> /\ FileOf(s) = f
  /\ 0 \in s.within /\ s.within \subseteq 0 .. n - 1
  /\ \A m \in s.within \ {0} :
       /\ m \in Nat /\ m >= 1 /\ m < n /\ m \in DOMAIN program[f]
       /\ program[f][m] \in StatementsOf(f)
       /\ program[f][m].kind = "static_if"
       /\ program[f][m].at = <<f, m>>
       /\ program[f][m].within = s.within \cap 0 .. m - 1
  /\ s.kind \in {"using", "static_if"} => s.ref # <<>>

(* The program is one that a parser can have made.                         *)
LEMMA ProgramIs ==
  ASSUME program \in Programs
  PROVE  IsProgram(program)
BY ProgramsAssumption

(* The n-th statement is one.                                              *)
LEMMA NthStatement ==
  ASSUME program \in Programs, NEW f \in Files, NEW n \in DOMAIN program[f]
  PROVE  program[f][n] \in StatementsOf(f) /\ IsNth(program[f][n], f, n)
<1>1. program \in [Files -> Seq(Statements)] /\ IsStatementOf(program, f, n)
  BY ProgramIs DEF IsProgram
<1> DEFINE list == program[f]
           s == list[n]
<1>2. list \in Seq(Statements)
  BY <1>1
<1>3. /\ n \in Nat /\ n >= 1 /\ n \in 1 .. Len(list) /\ s \in Statements
      /\ \A m \in 1 .. n - 1 : m \in DOMAIN list
  BY <1>2
<1>4. \A m \in DOMAIN list : list[m] \in StatementsOf(f)
  BY DEF StatementsOf, ToSet
<1>5. /\ s.at = <<f, n>>
      /\ 0 \in s.within /\ s.within \subseteq 0 .. n - 1
      /\ \A m \in s.within \ {0} : list[m].kind = "static_if" /\ list[m].within = s.within \cap 0 .. m - 1
      /\ s.kind \in {"using", "static_if"} => s.ref # <<>>
  BY <1>1 DEF IsStatementOf
<1>6. FileOf(s) = f
  BY <1>5 DEF FileOf
<1>7. ASSUME NEW m \in s.within \ {0}
      PROVE  /\ m \in Nat /\ m >= 1 /\ m < n /\ m \in DOMAIN list
             /\ list[m] \in StatementsOf(f)
             /\ list[m].at = <<f, m>>
  <2>1. m \in 0 .. n - 1 /\ m # 0
    BY <1>5
  <2>2. m \in Nat /\ m >= 1 /\ m < n /\ m \in 1 .. n - 1
    BY <1>3, <2>1
  <2>3. IsStatementOf(program, f, m)
    BY <1>3, <2>2, ProgramIs DEF IsProgram
  <2> QED
    BY <1>3, <1>4, <2>2, <2>3 DEF IsStatementOf
<1> QED
  BY <1>3, <1>4, <1>5, <1>6, <1>7 DEF IsNth

(* Every statement of a file is the n-th, for some n.                      *)
LEMMA StatementIs ==
  ASSUME program \in Programs, NEW f \in Files, NEW s \in StatementsOf(f)
  PROVE  \E n : IsNth(s, f, n)
<1>1. PICK n \in DOMAIN program[f] : s = program[f][n]
  BY DEF StatementsOf, ToSet
<1> QED
  BY <1>1, NthStatement

(* Where a statement is tells which it is.                                 *)
LEMMA StatementAt ==
  ASSUME program \in Programs, NEW f \in Files, NEW s \in StatementsOf(f),
         NEW g \in Files, NEW t \in StatementsOf(g), s.at = t.at
  PROVE  s = t /\ f = g
<1>1. PICK n : IsNth(s, f, n)
  BY StatementIs
<1>2. PICK m : IsNth(t, g, m)
  BY StatementIs
<1>3. f = g /\ n = m
  BY <1>1, <1>2 DEF IsNth
<1> QED
  BY <1>1, <1>2, <1>3 DEF IsNth

(* What is there in every program.                                         *)
LEMMA SomeNames ==
  MainFile \in Files /\ "" \in Names /\ "true" \in Names /\ "false" \in Names /\ <<>> \in Seq(Names) /\ FALSE \in BOOLEAN
<1>1. <<>> \in Seq(Names)
  OBVIOUS
<1>2. MainFile \in Files /\ "" \in Names /\ "true" \in Names /\ "false" \in Names
  BY ProgramsAssumption
<1> QED
  BY <1>1, <1>2

(* The operator that makes statements makes them.                          *)
LEMMA StatementType ==
  ASSUME NEW kind \in StatementKinds \cup {"none", "file", "global", "variant"}, NEW name \in Names,
         NEW ref \in Seq(Names), NEW f \in Files, NEW export \in BOOLEAN, NEW member \in Names
  PROVE  Statement(kind, name, ref, f, export, member) \in AnyStatement
BY SomeNames DEF Statement, AnyStatement, Places

(* And so does one that has been placed at the beginning of a file.        *)
LEMMA PlacedType ==
  ASSUME NEW s \in AnyStatement, NEW f \in Files
  PROVE  LET t == [s EXCEPT !.at = <<f, 0>>]
         IN  /\ t \in AnyStatement /\ t.kind = s.kind /\ t.at = <<f, 0>> /\ t.at[1] = f /\ t.at[2] = 0
             /\ t.within = s.within /\ t.ref = s.ref
BY DEF AnyStatement, Places

(* What stands for no declaration is not one.                              *)
LEMMA NoneType ==
  None \in AnyStatement /\ None.kind = "none"
<1>1. None \in AnyStatement
  BY SomeNames, StatementType DEF None
<1>2. None.kind = "none"
  BY DEF None, Statement
<1> QED
  BY <1>1, <1>2

(* The list of all statements of a file.                                   *)
LEMMA TopType ==
  ASSUME NEW f \in Files
  PROVE  /\ Top(f) \in AnyStatement /\ Top(f).kind = "file" /\ Top(f).ref = <<>> /\ Top(f).within = {}
         /\ Top(f).at = <<f, 0>> /\ Top(f).at[2] = 0 /\ FileOf(Top(f)) = f
<1> DEFINE s == Statement("file", "", <<>>, f, FALSE, "")
<1>1. s \in AnyStatement
  BY SomeNames, StatementType
<1>2. s.kind = "file" /\ s.within = {} /\ s.ref = <<>>
  BY DEF Statement
<1> HIDE DEF s
<1> QED
  BY <1>1, <1>2, PlacedType DEF Top, FileOf, s

(* true and false are statements of their own.                             *)
LEMMA GlobalConstantType ==
  ASSUME NEW name \in Names
  PROVE  GlobalConstant(name) \in AnyStatement /\ GlobalConstant(name).kind = "global"
<1>1. GlobalConstant(name) \in AnyStatement
  BY SomeNames, StatementType DEF GlobalConstant
<1>2. GlobalConstant(name).kind = "global"
  BY DEF GlobalConstant, Statement
<1> QED
  BY <1>1, <1>2

(* The variant of an enum is a statement of its own.                       *)
LEMMA VariantType ==
  ASSUME NEW s \in AnyStatement
  PROVE  Variant(s) \in AnyStatement /\ Variant(s).kind = "variant"
BY DEF Variant, AnyStatement

(* Statements of files are statements.                                     *)
LEMMA StatementsType ==
  \A s \in Statements : s \in AnyStatement /\ s.kind \in StatementKinds
BY DEF Statements, StatementKinds, AnyStatement

(* The first declaration is one, if there is any.                          *)
LEMMA DeclarationIs ==
  ASSUME program \in Programs, NEW list, FileOf(list) \in Files, NEW name
  PROVE  LET Ones == {s \in StatementsOf(FileOf(list)) : IsIn(s, list) /\ Declares(s) /\ s.name = name}
         IN  Declaration(list, name) \in Ones \/ (Ones = {} /\ Declaration(list, name) = None)
<1> DEFINE statements == program[FileOf(list)]
           I == {n \in 1 .. Len(statements) :
                   IsIn(statements[n], list) /\ Declares(statements[n]) /\ statements[n].name = name}
           n == IF I # {} THEN Min(I) ELSE 0
<1>1. Declaration(list, name) = IF n = 0 THEN None ELSE statements[n]
  BY DEF Declaration, SelectInSeq
<1>2. statements \in Seq(Statements) /\ DOMAIN statements = 1 .. Len(statements)
  BY ProgramIs DEF IsProgram
<1>3. CASE I = {}
  <2>1. \A m \in DOMAIN statements : ~(IsIn(statements[m], list) /\ Declares(statements[m]) /\ statements[m].name = name)
    BY <1>2, <1>3
  <2> QED
    BY <1>1, <1>3, <2>1 DEF StatementsOf, ToSet
<1>4. CASE I # {}
  <2>1. I \in SUBSET Nat
    OBVIOUS
  <2>2. n \in I
    <3> HIDE DEF I
    <3>1. n = CHOOSE x \in I : \A y \in I : x <= y
      BY <1>4 DEF Min
    <3>2. \E x \in I : \A y \in I : x <= y
      BY <1>4, <2>1, LeastNatural
    <3> QED
      BY <3>1, <3>2
  <2>3. n # 0 /\ n \in DOMAIN statements
    BY <1>2, <2>2
  <2> QED
    BY <1>1, <2>2, <2>3 DEF StatementsOf, ToSet
<1> QED
  BY <1>3, <1>4

(***************************************************************************)
(* Jobs                                                                    *)
(***************************************************************************)

(* JobFor finds a job if there is one.                                     *)
JobForFinds ==
  jobs \in Seq(Job) =>
    \A kind, s :
      /\ JobFor(kind, s) = 0 => ~Has(jobs, kind, s)
      /\ JobFor(kind, s) # 0 =>
           /\ JobFor(kind, s) \in DOMAIN jobs
           /\ jobs[JobFor(kind, s)].kind = kind /\ jobs[JobFor(kind, s)].statement = s

LEMMA JobForIs == JobForFinds
<1>1. SUFFICES ASSUME jobs \in Seq(Job), NEW kind, NEW s
               PROVE  /\ JobFor(kind, s) = 0 => ~Has(jobs, kind, s)
                      /\ JobFor(kind, s) # 0 =>
                           /\ JobFor(kind, s) \in DOMAIN jobs
                           /\ jobs[JobFor(kind, s)].kind = kind /\ jobs[JobFor(kind, s)].statement = s
  BY DEF JobForFinds
<1> DEFINE I == {i \in 1 .. Len(jobs) : jobs[i].kind = kind /\ jobs[i].statement = s}
<1>2. JobFor(kind, s) = IF I # {} THEN Min(I) ELSE 0
  BY DEF JobFor, SelectInSeq
<1>3. DOMAIN jobs = 1 .. Len(jobs) /\ I \in SUBSET Nat
  BY <1>1
<1>4. CASE I = {}
  BY <1>2, <1>3, <1>4 DEF Has
<1>5. CASE I # {}
  <2>1. Min(I) \in I
    <3> HIDE DEF I
    <3>1. \E x \in I : \A y \in I : x <= y
      BY <1>3, <1>5, LeastNatural
    <3> QED
      BY <3>1 DEF Min
  <2> QED
    BY <1>2, <1>3, <1>5, <2>1
<1> QED
  BY <1>4, <1>5

LEMMA JobForIsNext == JobForFinds'
BY JobForIs, PTL

(* With unique jobs it finds the job.                                      *)
LEMMA JobForUnique ==
  ASSUME jobs \in Seq(Job), JobsAreUnique, NEW i \in DOMAIN jobs
  PROVE  JobFor(jobs[i].kind, jobs[i].statement) = i /\ i # 0
<1>1. i # 0 /\ Has(jobs, jobs[i].kind, jobs[i].statement)
  BY DEF Has
<1> QED
  BY <1>1, JobForIs DEF JobForFinds, JobsAreUnique

(***************************************************************************)
(* What the recursive functions compute                                    *)
(***************************************************************************)

(* r is the first of the items that is something.                          *)
IsFirst(item, n, r) ==
  \/ \E k \in 0 .. n : item[k] # Nothing /\ (\A m \in 0 .. k - 1 : item[m] = Nothing) /\ r = item[k]
  \/ (\A m \in 0 .. n : item[m] = Nothing) /\ r = Nothing

(* There is but one first.                                                 *)
LEMMA FirstIsOne ==
  ASSUME NEW n \in Nat, NEW item, NEW r, NEW t, IsFirst(item, n, r), IsFirst(item, n, t)
  PROVE  r = t
<1>1. CASE \A m \in 0 .. n : item[m] = Nothing
  BY <1>1 DEF IsFirst
<1>2. CASE ~ \A m \in 0 .. n : item[m] = Nothing
  <2>1. PICK j \in 0 .. n : item[j] # Nothing /\ (\A m \in 0 .. j - 1 : item[m] = Nothing) /\ r = item[j]
    BY <1>2 DEF IsFirst
  <2>2. PICK k \in 0 .. n : item[k] # Nothing /\ (\A m \in 0 .. k - 1 : item[m] = Nothing) /\ t = item[k]
    BY <1>2 DEF IsFirst
  <2>3. j = k
    <3>1. ~(j < k)
      BY <2>1, <2>2
    <3>2. ~(k < j)
      BY <2>1, <2>2
    <3> QED
      BY <3>1, <3>2
  <2> QED
    BY <2>1, <2>2, <2>3
<1> QED
  BY <1>1, <1>2

(* There is a first.                                                       *)
LEMMA FirstExists ==
  ASSUME NEW n \in Nat, NEW item
  PROVE  \E r : IsFirst(item, n, r)
<1> DEFINE I == {k \in 0 .. n : item[k] # Nothing}
<1>1. CASE I = {}
  BY <1>1 DEF IsFirst
<1>2. CASE I # {}
  <2>1. PICK k \in I : \A m \in I : k <= m
    <3>1. I \in SUBSET Nat
      OBVIOUS
    <3> HIDE DEF I
    <3> QED
      BY <1>2, <3>1, LeastNatural
  <2>2. \A m \in 0 .. k - 1 : item[m] = Nothing
    BY <2>1
  <2> QED
    BY <2>1, <2>2 DEF IsFirst
<1> QED
  BY <1>1, <1>2

(* FirstOf takes the first of n items and the next to the first of n + 1.  *)
LEMMA FirstGoesOn ==
  ASSUME NEW n \in Nat, n # 0, NEW item, NEW r, IsFirst(item, n - 1, r)
  PROVE  IsFirst(item, n, FirstOf(r, item[n]))
<1>1. CASE \A m \in 0 .. n - 1 : item[m] = Nothing
  <2>1. r = Nothing
    BY <1>1 DEF IsFirst
  <2>2. FirstOf(r, item[n]) = item[n]
    BY <2>1 DEF FirstOf
  <2>3. CASE item[n] = Nothing
    <3>1. \A m \in 0 .. n : item[m] = Nothing
      BY <1>1, <2>3
    <3> QED
      BY <2>2, <2>3, <3>1 DEF IsFirst
  <2>4. CASE item[n] # Nothing
    <3>1. n \in 0 .. n
      OBVIOUS
    <3> QED
      BY <1>1, <2>2, <2>4, <3>1 DEF IsFirst
  <2> QED
    BY <2>3, <2>4
<1>2. CASE ~ \A m \in 0 .. n - 1 : item[m] = Nothing
  <2>1. PICK k \in 0 .. n - 1 : item[k] # Nothing /\ (\A m \in 0 .. k - 1 : item[m] = Nothing) /\ r = item[k]
    BY <1>2 DEF IsFirst
  <2>2. FirstOf(r, item[n]) = r /\ k \in 0 .. n
    BY <2>1 DEF FirstOf
  <2> QED
    BY <2>1, <2>2 DEF IsFirst
<1> QED
  BY <1>1, <1>2

(* Such a function exists, and its last value is the first of the items.   *)
LEMMA FirstFold ==
  ASSUME NEW N \in Nat, NEW item
  PROVE  /\ \E f : f = [n \in 0 .. N |-> IF n = 0 THEN item[0] ELSE FirstOf(f[n - 1], item[n])]
         /\ \A f : f = [n \in 0 .. N |-> IF n = 0 THEN item[0] ELSE FirstOf(f[n - 1], item[n])]
                   => IsFirst(item, N, f[N])
<1>0. IsFirst(item, 0, item[0])
  <2>1. 0 \in 0 .. 0 /\ \A m \in 0 .. 0 : m = 0
    OBVIOUS
  <2>2. \A m \in 0 .. 0 - 1 : FALSE
    OBVIOUS
  <2> QED
    BY <2>1, <2>2 DEF IsFirst
<1>1. ASSUME NEW f, f = [n \in 0 .. N |-> IF n = 0 THEN item[0] ELSE FirstOf(f[n - 1], item[n])]
      PROVE  IsFirst(item, N, f[N])
  <2> DEFINE U == {n \in 0 .. N : IsFirst(item, n, f[n])}
  <2>1. \A n \in 0 .. N : f[n] = IF n = 0 THEN item[0] ELSE FirstOf(f[n - 1], item[n])
    BY <1>1, Zenon
  <2>2. 0 \in U
    BY <1>0, <2>1
  <2>3. ASSUME NEW n \in 0 .. N - 1, n \in U
        PROVE  n + 1 \in U
    <3>1. n + 1 \in 0 .. N /\ n + 1 # 0 /\ (n + 1) - 1 = n /\ n + 1 \in Nat
      OBVIOUS
    <3>2. f[n + 1] = FirstOf(f[n], item[n + 1])
      BY <2>1, <3>1
    <3>3. IsFirst(item, n + 1, FirstOf(f[n], item[n + 1]))
      BY <2>3, <3>1, FirstGoesOn
    <3> QED
      BY <3>1, <3>2, <3>3
  <2>4. \A n \in 0 .. N : n \in U
    <3> HIDE DEF U
    <3> QED
      BY <2>2, <2>3, IntervalInduction
  <2> QED
    BY <2>4
<1>2. \E f : f = [n \in 0 .. N |-> IF n = 0 THEN item[0] ELSE FirstOf(f[n - 1], item[n])]
  <2> DEFINE R(n) == CHOOSE r : IsFirst(item, n, r)
             f == [n \in 0 .. N |-> R(n)]
  <2>1. \A n \in Nat : IsFirst(item, n, R(n))
    BY FirstExists
  <2> HIDE DEF R
  <2>2. ASSUME NEW n \in 0 .. N
        PROVE  f[n] = IF n = 0 THEN item[0] ELSE FirstOf(f[n - 1], item[n])
    <3>1. CASE n = 0
      <4>1. IsFirst(item, 0, R(0))
        BY <2>1
      <4>2. R(0) = item[0]
        BY <1>0, <4>1, FirstIsOne
      <4> QED
        BY <3>1, <4>2
    <3>2. CASE n # 0
      <4>1. n \in Nat /\ n - 1 \in Nat /\ n - 1 \in 0 .. N
        BY <3>2
      <4>2. IsFirst(item, n, FirstOf(R(n - 1), item[n]))
        BY <2>1, <3>2, <4>1, FirstGoesOn
      <4>3. R(n) = FirstOf(R(n - 1), item[n])
        BY <2>1, <4>1, <4>2, FirstIsOne
      <4> QED
        BY <3>2, <4>1, <4>3
    <3> QED
      BY <3>1, <3>2
  <2>3. f = [n \in 0 .. N |-> f[n]]
    OBVIOUS
  <2> HIDE DEF f
  <2>4. f = [n \in 0 .. N |-> IF n = 0 THEN item[0] ELSE FirstOf(f[n - 1], item[n])]
    BY <2>2, <2>3
  <2> QED
    BY <2>4
<1> QED
  BY <1>1, <1>2

(* A scan comes to the first of its steps that comes to something.         *)
Steps(q, search) == [n \in 0 .. Len(program[q.file]) |-> SearchAt(q, n, search)]

(* What a scan comes to, said without its recursive function.              *)
ScanFinds ==
  program \in Programs =>
    \A q, search : q.file \in Files =>
      IsFirst(Steps(q, search), Len(program[q.file]), Scan(q, search))

LEMMA ScanIs == ScanFinds
<1>1. SUFFICES ASSUME program \in Programs, NEW q, NEW search, q.file \in Files
               PROVE  IsFirst(Steps(q, search), Len(program[q.file]), Scan(q, search))
  BY DEF ScanFinds
<1> DEFINE N == Len(program[q.file])
           item == Steps(q, search)
           D(f) == [n \in 0 .. Len(program[q.file]) |->
                      IF n = 0 THEN SearchAt(q, 0, search)
                      ELSE FirstOf(f[n - 1], SearchAt(q, n, search))]
           G(f) == [n \in 0 .. N |-> IF n = 0 THEN item[0] ELSE FirstOf(f[n - 1], item[n])]
           found == CHOOSE f : f = D(f)
<1>2. N \in Nat
  BY ProgramIs DEF IsProgram
<1>3. \A n \in 0 .. N : item[n] = SearchAt(q, n, search)
  BY DEF Steps
<1>4. Scan(q, search) = found[N]
  BY DEF Scan
<1> HIDE DEF item
<1>5. \A f : D(f) = G(f)
  <2>1. 0 \in 0 .. N
    BY <1>2
  <2> QED
    BY <1>3, <2>1
<1> HIDE DEF N
<1>6. \E f : f = G(f)
  BY <1>2, FirstFold
<1>7. \E f : f = D(f)
  <2> HIDE DEF D, G
  <2> QED
    BY <1>5, <1>6
<1>8. found = D(found)
  <2> HIDE DEF D
  <2> QED
    BY <1>7
<1>9. found = G(found)
  <2> HIDE DEF D, G, found
  <2> QED
    BY <1>5, <1>8
<1> HIDE DEF found
<1>10. IsFirst(item, N, found[N])
  BY <1>2, <1>9, FirstFold
<1> QED
  BY <1>4, <1>10 DEF item, N

LEMMA ScanIsNext == ScanFinds'
BY ScanIs, PTL

(* Searches nested one call deeper.                                        *)
Deeper(f, n) == [q \in Queries |-> IF n = 0 THEN Diverges ELSE Scan(q, f[n - 1])]

(* What searches come to, said without the recursive function.             *)
SearchUnfolds ==
  \A n \in 0 .. MaxDepth : \A q \in Queries :
    Search[n][q] = IF n = 0 THEN Diverges ELSE Scan(q, Search[n - 1])

LEMMA SearchIs == SearchUnfolds
<1> DEFINE U == {n \in Nat : \E f : f = [m \in 0 .. n |-> Deeper(f, m)]}
           D(f) == [n \in 0 .. MaxDepth |->
                      [q \in Queries |-> IF n = 0 THEN Diverges ELSE Scan(q, f[n - 1])]]
           chosen == CHOOSE f : f = D(f)
<1>1. 0 \in U
  <2> DEFINE none == [m \in {} |-> m]
             first == [m \in 0 .. 0 |-> Deeper(none, 0)]
  <2>1. Deeper(first, 0) = Deeper(none, 0)
    BY DEF Deeper
  <2>2. first[0] = Deeper(none, 0)
    OBVIOUS
  <2>3. \A m \in 0 .. 0 : first[m] = Deeper(first, m)
    <3>1. \A m \in 0 .. 0 : m = 0
      OBVIOUS
    <3> HIDE DEF first, none
    <3> QED
      BY <2>1, <2>2, <3>1
  <2>4. first = [m \in 0 .. 0 |-> first[m]]
    OBVIOUS
  <2> HIDE DEF first
  <2>5. first = [m \in 0 .. 0 |-> Deeper(first, m)]
    BY <2>3, <2>4
  <2> QED
    BY <2>5
<1>2. ASSUME NEW n \in U
      PROVE  n + 1 \in U
  <2>1. PICK f : f = [m \in 0 .. n |-> Deeper(f, m)]
    OBVIOUS
  <2> DEFINE next == Deeper(f, n + 1)
             longer == [m \in 0 .. n + 1 |-> IF m <= n THEN f[m] ELSE next]
  <2>2. ASSUME NEW m \in 0 .. n + 1
        PROVE  longer[m] = Deeper(longer, m)
    <3>1. m > 0 => longer[m - 1] = f[m - 1]
      OBVIOUS
    <3> HIDE DEF longer
    <3>2. Deeper(longer, m) = Deeper(f, m)
      <4>1. CASE m > 0
        BY <3>1, <4>1 DEF Deeper
      <4>2. CASE ~ (m > 0)
        BY <4>2 DEF Deeper
      <4> QED
        BY <4>1, <4>2
    <3>3. CASE m <= n
      <4>1. m \in 0 .. n /\ longer[m] = f[m]
        BY <3>3 DEF longer
      <4>2. f[m] = Deeper(f, m)
        BY <2>1, <4>1, Zenon
      <4> QED
        BY <3>2, <4>1, <4>2
    <3>4. CASE m = n + 1
      <4>1. longer[m] = next
        BY <3>4 DEF longer
      <4> QED
        BY <3>2, <3>4, <4>1
    <3> QED
      BY <3>3, <3>4
  <2>3. longer = [m \in 0 .. n + 1 |-> longer[m]]
    OBVIOUS
  <2> HIDE DEF longer
  <2>4. longer = [m \in 0 .. n + 1 |-> Deeper(longer, m)]
    BY <2>2, <2>3
  <2> QED
    BY <2>4
<1>3. MaxDepth \in U
  <2>1. U \in SUBSET Nat /\ MaxDepth \in Nat
    BY ProgramsAssumption
  <2> HIDE DEF U
  <2> QED
    BY <1>1, <1>2, <2>1, NaturalInduction
<1>4. PICK f : f = [m \in 0 .. MaxDepth |-> Deeper(f, m)]
  BY <1>3
<1>5. f = D(f)
  BY <1>4 DEF Deeper
<1>6. chosen = D(chosen)
  <2> HIDE DEF D
  <2> QED
    BY <1>5
<1>7. Search = chosen
  BY DEF Search
<1>8. \A n \in 0 .. MaxDepth : Search[n] = [q \in Queries |-> IF n = 0 THEN Diverges ELSE Scan(q, Search[n - 1])]
  <2>1. Search = D(Search)
    <3> HIDE DEF D, chosen
    <3> QED
      BY <1>6, <1>7
  <2> QED
    BY <2>1, Zenon
<1> QED
  BY <1>8, Zenon DEF SearchUnfolds

LEMMA SearchIsNext == SearchUnfolds'
BY SearchIs, PTL

(***************************************************************************)
(* What searches come to                                                   *)
(***************************************************************************)

(* Searches that are made: in files that have been parsed, with a using or *)
(* a static if left out that counts, for what is not that of a body.       *)
Known ==
  {q \in Queries :
     /\ Parsed(q.file)
     /\ \A s \in StatementsOf(q.file) : s.at = q.ignore => IsReached(s) /\ s.kind \in {"using", "static_if"}
     /\ q.runtime \/ q.external => q.ignore = NoPlace}

(* Those that find nothing.                                                *)
Failed ==
  {q \in Known : ~q.external /\ \E n \in 0 .. MaxDepth : Search[n][q] \in {Nothing, Stopped}}

(* The result of a name that is found nowhere.                             *)
Missing(q) == [tag |-> "missing", query |-> q]

(* What the searches of a state can come to: an assertion that fails is    *)
(* not among it.                                                           *)
IsResult(r) ==
  \/ r \in {Nothing, Stopped, Error, Diverges}
  \/ \E i \in DOMAIN jobs : ~IsDone(i) /\ r = Wait(i)
  \/ \E s \in AnyStatement : \E v : IsValue(v) /\ r = Found(s, v)
  \/ \E q \in Failed : r = Missing(q)

(* Searches that make such calls.                                          *)
Good(search) ==
  \A q \in Known :
    /\ IsResult(search[q])
    /\ search[q] \in {Nothing, Stopped} /\ ~q.external => q \in Failed

(* Results of different kinds are different.                               *)
LEMMA Tags ==
  /\ Nothing.tag = "nothing" /\ Stopped.tag = "stopped" /\ Error.tag = "error"
  /\ Aborted.tag = "aborted" /\ Diverges.tag = "diverges"
  /\ \A i : Wait(i).tag = "wait" /\ Wait(i).job = i
  /\ \A s, v : Found(s, v).tag = "found" /\ Found(s, v).declaration = s /\ Found(s, v).value = v
  /\ \A q : Missing(q).tag = "missing" /\ Missing(q).query = q
BY DEF Nothing, Stopped, Error, Aborted, Diverges, Wait, Found, Missing, Result

(* A result is told by its tag.                                            *)
LEMMA ResultTags ==
  ASSUME NEW r, IsResult(r)
  PROVE  /\ r.tag \in {"nothing", "stopped", "error", "diverges", "wait", "found", "missing"}
         /\ r.tag = "nothing" <=> r = Nothing
         /\ r.tag = "stopped" <=> r = Stopped
         /\ r.tag = "wait" => r = Wait(r.job) /\ r.job \in DOMAIN jobs /\ ~IsDone(r.job)
         /\ r.tag = "found" => /\ r = Found(r.declaration, r.value)
                               /\ r.declaration \in AnyStatement /\ IsValue(r.value)
         /\ r.tag = "missing" => r = Missing(r.query) /\ r.query \in Failed
<1>1. CASE r \in {Nothing, Stopped, Error, Diverges}
  BY <1>1, Tags
<1>2. CASE \E i \in DOMAIN jobs : ~IsDone(i) /\ r = Wait(i)
  BY <1>2, Tags
<1>3. CASE \E s \in AnyStatement : \E v : IsValue(v) /\ r = Found(s, v)
  BY <1>3, Tags
<1>4. CASE \E q \in Failed : r = Missing(q)
  BY <1>4, Tags
<1> QED
  BY <1>1, <1>2, <1>3, <1>4 DEF IsResult

(* What is in a list that counts counts itself.                            *)
Counts(list, f) ==
  list = Top(f) \/ (list \in StatementsOf(f) /\ IsReached(list) /\ ComesTrue(list))

(* In a file or a static if that counts every statement counts.            *)
ChildrenReached ==
  program \in Programs =>
    \A f \in Files : \A list : Counts(list, f) =>
      \A s \in StatementsOf(f) : IsIn(s, list) => IsReached(s)

LEMMA ChildReached == ChildrenReached
<1>0. SUFFICES ASSUME program \in Programs, NEW f \in Files, NEW list, Counts(list, f),
                      NEW s \in StatementsOf(f), IsIn(s, list)
               PROVE  IsReached(s)
  BY DEF ChildrenReached
<1>1. PICK n : IsNth(s, f, n)
  BY <1>0, StatementIs
<1>2. CASE list = Top(f)
  <2>1. s.within = {0}
    BY <1>0, <1>2, TopType DEF IsIn
  <2> QED
    BY <2>1 DEF IsReached
<1>3. CASE list \in StatementsOf(f) /\ IsReached(list) /\ ComesTrue(list)
  <2>1. PICK m : IsNth(list, f, m)
    BY <1>0, <1>3, StatementIs
  <2>2. s.within = list.within \cup {m}
    BY <1>0, <2>1 DEF IsIn, IsNth
  <2>3. FileOf(s) = f /\ FileOf(list) = f /\ list = program[f][m]
    BY <1>1, <2>1 DEF IsNth
  <2> QED
    BY <1>3, <2>2, <2>3 DEF IsReached
<1> QED
  BY <1>0, <1>2, <1>3 DEF Counts

LEMMA ChildReachedNext == ChildrenReached'
BY ChildReached, PTL

(* The job of a declaration that counts is there.                          *)
LEMMA DeclarationResult ==
  ASSUME Structure, NEW f \in Files, Parsed(f), NEW s \in StatementsOf(f), IsReached(s), Declares(s)
  PROVE  LET r == get_simple_resolved_declaration(s)
         IN  IsResult(r) /\ r.tag \in {"found", "wait"}
<1> DEFINE r == get_simple_resolved_declaration(s)
           i == IF s.kind = "import" THEN JobFor("ParseFile", Top(s.file)) ELSE JobFor(JobKind[s.kind], s)
<1>1. jobs \in Seq(Job) /\ program \in Programs
  BY DEF Structure, TypesOK
<1>2. s \in AnyStatement
  <2>1. PICK n : IsNth(s, f, n)
    BY <1>1, StatementIs
  <2> QED
    BY <2>1, StatementsType DEF IsNth
<1>3. HasJob(jobs, s)
  BY DEF Structure, WhatCountsHasJobs
<1>4. s.kind # "import" => s.kind \in DOMAIN JobKind /\ JobKind[s.kind] # "ParseFile"
  BY DEF Declares, JobKind
<1>5. /\ i # 0 /\ i \in DOMAIN jobs
      /\ s.kind = "import" => jobs[i].kind = "ParseFile" /\ jobs[i].statement = Top(s.file)
      /\ s.kind # "import" => jobs[i].kind = JobKind[s.kind]
  BY <1>1, <1>3, <1>4, JobForIs DEF JobForFinds, HasJob
<1>6. CASE IsDone(i)
  <2> DEFINE v == IF s.kind = "import" THEN s ELSE jobs[i].value
  <2>1. r = Found(s, v)
    BY <1>5, <1>6 DEF get_simple_resolved_declaration
  <2>2. IsValue(v)
    <3>1. CASE s.kind = "import"
      <4>1. Parsed(s.file)
        BY <1>5, <1>6, <3>1 DEF Parsed
      <4>2. s.kind \in ValueKinds
        BY <3>1 DEF ValueKinds
      <4> QED
        BY <1>2, <3>1, <4>1, <4>2 DEF IsValue
    <3>2. CASE s.kind # "import"
      BY <1>4, <1>5, <1>6, <3>2 DEF Structure, ValuesAre
    <3> QED
      BY <3>1, <3>2
  <2> HIDE DEF v, r
  <2> QED
    BY <1>2, <2>1, <2>2, Tags DEF IsResult, r
<1>7. CASE ~IsDone(i)
  <2>1. r = Wait(i)
    BY <1>5, <1>7 DEF get_simple_resolved_declaration
  <2> HIDE DEF r, i
  <2> QED
    BY <1>5, <1>7, <2>1, Tags DEF IsResult, r
<1> QED
  BY <1>6, <1>7

(* The search of the declarations of a list that counts.                   *)
LEMMA DeclarationsResult ==
  ASSUME Structure, NEW q \in Known, NEW list, Counts(list, q.file)
  PROVE  IsResult(SearchDeclarations(q, list))
<1> DEFINE s == Declaration(list, q.name)
           f == q.file
<1>1. program \in Programs /\ f \in Files /\ Parsed(f)
  BY DEF Structure, TypesOK, Known, Queries
<1>2. FileOf(list) = f
  <2>1. CASE list = Top(f)
    BY <1>1, <2>1, TopType
  <2>2. CASE list \in StatementsOf(f)
    BY <1>1, <2>2, StatementIs DEF IsNth
  <2> QED
    BY <2>1, <2>2 DEF Counts
<1>3. s \in {t \in StatementsOf(f) : IsIn(t, list) /\ Declares(t) /\ t.name = q.name} \/ s = None
  BY <1>1, <1>2, DeclarationIs
<1>4. CASE s = None \/ s.at = q.ignore
  BY <1>4 DEF SearchDeclarations, IsResult
<1>5. CASE ~(s = None \/ s.at = q.ignore)
  <2>1. s \in StatementsOf(f) /\ IsIn(s, list) /\ Declares(s)
    BY <1>3, <1>5
  <2>2. IsResult(get_simple_resolved_declaration(s))
    BY <1>1, <2>1, ChildReached, DeclarationResult DEF ChildrenReached
  <2> HIDE DEF s
  <2>3. SearchDeclarations(q, list) \in {Stopped, get_simple_resolved_declaration(s)}
    BY <1>5 DEF SearchDeclarations, s
  <2> QED
    BY <2>2, <2>3 DEF IsResult
<1> QED
  BY <1>4, <1>5

(* Queries that searches make of each other.                               *)
LEMMA ModuleKnown ==
  ASSUME program \in Programs, NEW f \in Files, Parsed(f), NEW name \in Names, NEW runtime \in BOOLEAN
  PROVE  Query(name, f, TRUE, runtime, NoPlace) \in Known
<1> DEFINE q == Query(name, f, TRUE, runtime, NoPlace)
<1>1. q \in Queries /\ q.file = f /\ q.ignore = NoPlace
  BY SomeNames DEF Query, Queries, NoPlace, Places
<1>2. ASSUME NEW s \in StatementsOf(f)
      PROVE  s.at # NoPlace
  BY StatementIs DEF IsNth, NoPlace
<1> HIDE DEF q
<1> QED
  BY <1>1, <1>2 DEF Known, q

(* The query for an expression of a statement.                             *)
LEMMA OperandKnown ==
  ASSUME program \in Programs, NEW f \in Files, Parsed(f), NEW s, FileOf(s) = f, NEW runtime \in BOOLEAN,
         NEW ignore,
         \/ ignore = NoPlace
         \/ /\ s \in StatementsOf(f) /\ IsReached(s) /\ ignore = s.at
            /\ s.kind \in {"using", "static_if"} /\ ~runtime
  PROVE  LET q == Query("", FileOf(s), FALSE, runtime, ignore)
         IN  q \in Known /\ q.external = FALSE /\ q.runtime = runtime
<1> DEFINE q == Query("", FileOf(s), FALSE, runtime, ignore)
<1>1. ignore \in Places
  <2>1. CASE ignore = NoPlace
    BY <2>1, SomeNames DEF NoPlace, Places
  <2>2. CASE s \in StatementsOf(f) /\ ignore = s.at
    <3>1. PICK n : IsNth(s, f, n)
      BY <2>2, StatementIs
    <3> QED
      BY <2>2, <3>1 DEF IsNth, Places
  <2> QED
    BY <2>1, <2>2
<1>2. q \in Queries /\ q.file = f /\ q.ignore = ignore /\ q.external = FALSE /\ q.runtime = runtime
  BY <1>1, SomeNames DEF Query, Queries
<1>3. ASSUME NEW t \in StatementsOf(f), t.at = ignore
      PROVE  IsReached(t) /\ t.kind \in {"using", "static_if"}
  <2>1. ignore # NoPlace
    BY <1>3, StatementIs DEF IsNth, NoPlace
  <2> QED
    BY <1>3, <2>1, StatementAt
<1> HIDE DEF q
<1> QED
  BY <1>2, <1>3 DEF Known, q

(* The same query for another name.                                        *)
LEMMA RenamedKnown ==
  ASSUME NEW q \in Known, NEW name \in Names
  PROVE  LET r == [q EXCEPT !.name = name]
         IN  /\ r \in Known /\ r.name = name /\ r.external = q.external /\ r.runtime = q.runtime
             /\ r.file = q.file /\ r.ignore = q.ignore
<1> DEFINE r == [q EXCEPT !.name = name]
<1>1. /\ q \in Queries /\ Parsed(q.file)
      /\ \A s \in StatementsOf(q.file) : s.at = q.ignore => IsReached(s) /\ s.kind \in {"using", "static_if"}
      /\ q.runtime \/ q.external => q.ignore = NoPlace
  BY DEF Known
<1>2. /\ r \in Queries /\ r.name = name /\ r.external = q.external /\ r.runtime = q.runtime
      /\ r.file = q.file /\ r.ignore = q.ignore
  BY <1>1 DEF Queries
<1> HIDE DEF r
<1> QED
  BY <1>1, <1>2 DEF Known, r

(* Only imports have the type of a file, and only enums that of an enum.   *)
LEMMA ValueTypes ==
  \A v : IsValue(v) =>
    /\ v.kind = "import" <=> Type(v) = "FileModule"
    /\ v.kind = "enum" <=> Type(v) = "Enum"
BY DEF IsValue, ValueKinds, Type

(* A variant is a value.                                                   *)
LEMMA VariantIs ==
  ASSUME NEW v, IsValue(v)
  PROVE  IsValue(Variant(v))
BY VariantType DEF IsValue, ValueKinds

(* true and false are values.                                              *)
LEMMA GlobalConstantIs ==
  ASSUME NEW name \in Names
  PROVE  GlobalConstant(name) \in AnyStatement /\ IsValue(GlobalConstant(name))
<1>1. GlobalConstant(name) \in AnyStatement /\ GlobalConstant(name).kind = "global"
  BY GlobalConstantType
<1> QED
  BY <1>1 DEF IsValue, ValueKinds

(* The parts of a query.                                                   *)
LEMMA KnownIs ==
  ASSUME program \in Programs, NEW q \in Known
  PROVE  /\ q \in Queries /\ q.name \in Names /\ q.file \in Files /\ q.external \in BOOLEAN /\ q.runtime \in BOOLEAN
         /\ Parsed(q.file)
BY DEF Known, Queries

(* What is opened has been parsed.                                         *)
LEMMA SearchInResult ==
  ASSUME Structure, NEW search, Good(search), NEW q \in Known, NEW object, IsResult(object)
  PROVE  IsResult(SearchIn(q, object, search)) /\ (SearchIn(q, object, search) = Stopped => object = Stopped)
<1> DEFINE v == object.value
           sub == Query(q.name, v.file, TRUE, q.runtime, NoPlace)
<1>0. program \in Programs /\ q.name \in Names /\ q.runtime \in BOOLEAN
  BY KnownIs DEF Structure, TypesOK
<1>1. CASE object.tag # "found"
  BY <1>1 DEF SearchIn
<1>2. CASE object.tag = "found" /\ Type(v) = "FileModule"
  <2>1. IsValue(v) /\ v.kind = "import"
    BY <1>2, ResultTags, ValueTypes
  <2>2. Parsed(v.file) /\ v.file \in Files
    BY <2>1 DEF IsValue, AnyStatement
  <2>3. sub \in Known
    BY <1>0, <2>2, ModuleKnown
  <2>4. IsResult(search[sub])
    BY <2>3 DEF Good
  <2>5. SearchIn(q, object, search) = IF search[sub] = Stopped THEN Nothing ELSE search[sub]
    BY <1>2 DEF SearchIn, SearchModule
  <2> HIDE DEF sub
  <2> QED
    BY <2>4, <2>5, Tags DEF IsResult
<1>3. CASE object.tag = "found" /\ Type(v) # "FileModule" /\ Type(v) = "Enum"
  <2>1. IsValue(v)
    BY <1>3, ResultTags
  <2>2. IsValue(Variant(v)) /\ Variant(v) \in AnyStatement
    BY <2>1, VariantIs DEF IsValue
  <2>3. SearchIn(q, object, search) \in {Nothing, Found(Variant(v), Variant(v))}
    BY <1>3 DEF SearchIn
  <2> QED
    BY <2>2, <2>3, Tags DEF IsResult
<1>4. CASE object.tag = "found" /\ Type(v) # "FileModule" /\ Type(v) # "Enum"
  <2>1. SearchIn(q, object, search) = Error
    BY <1>4 DEF SearchIn
  <2> QED
    BY <2>1, Tags DEF IsResult
<1> QED
  BY <1>1, <1>2, <1>3, <1>4

(* A name that is not found is missing.                                    *)
LEMMA EvaluateNameResult ==
  ASSUME Structure, NEW search, Good(search), NEW q \in Known, ~q.external
  PROVE  /\ IsResult(EvaluateName(q, search))
         /\ EvaluateName(q, search).tag \notin {"nothing", "stopped"}
<1> DEFINE r == search[q]
<1>1. IsResult(r) /\ (r \in {Nothing, Stopped} => q \in Failed)
  BY DEF Good
<1>2. q.name \in Names
  BY KnownIs DEF Structure, TypesOK
<1> HIDE DEF r
<1>3. CASE r.tag \notin {"nothing", "stopped"}
  <2>1. EvaluateName(q, search) = r
    BY <1>3 DEF EvaluateName, OrGlobalConstant, r
  <2> QED
    BY <1>1, <1>3, <2>1
<1>4. CASE r.tag \in {"nothing", "stopped"}
  <2>1. q \in Failed
    BY <1>1, <1>4, ResultTags
  <2>2. EvaluateName(q, search) \in {Found(GlobalConstant(q.name), GlobalConstant(q.name)), Missing(q)}
    BY <1>4 DEF EvaluateName, OrGlobalConstant, r, Missing
  <2> QED
    BY <1>2, <2>1, <2>2, GlobalConstantIs, Tags DEF IsResult
<1> QED
  BY <1>3, <1>4

(* An expression is found, waited for, or wrong: it never comes to         *)
(* nothing.                                                                *)
LEMMA EvaluateResult ==
  ASSUME Structure, NEW search, Good(search), NEW q \in Known, ~q.external,
         NEW ref \in Seq(Names), ref # <<>>
  PROVE  /\ IsResult(Evaluate(q, ref, search))
         /\ Evaluate(q, ref, search) \notin {Nothing, Stopped}
<1> DEFINE first == [q EXCEPT !.name = ref[1]]
           object == EvaluateName(first, search)
<1>1. ref[1] \in Names /\ (Len(ref) # 1 => ref[2] \in Names)
  <2>1. /\ Len(ref) \in Nat /\ Len(ref) # 0
        /\ \A n \in 1 .. Len(ref) : ref[n] \in Names
    OBVIOUS
  <2>2. Len(ref) # 1 => 2 \in 1 .. Len(ref)
    <3>1. \A n \in Nat : n # 0 /\ n # 1 => 2 \in 1 .. n
      OBVIOUS
    <3> QED
      BY <2>1, <3>1
  <2>3. 1 \in 1 .. Len(ref)
    BY <2>1
  <2> QED
    BY <2>1, <2>2, <2>3
<1>2. first \in Known /\ ~first.external
  BY <1>1, RenamedKnown
<1>3. IsResult(object) /\ object.tag \notin {"nothing", "stopped"}
  BY <1>2, EvaluateNameResult
<1> HIDE DEF first, object
<1>4. CASE Len(ref) = 1
  <2>1. Evaluate(q, ref, search) = object
    BY <1>4 DEF Evaluate, object, first
  <2> QED
    BY <1>3, <2>1, Tags
<1>5. CASE Len(ref) # 1
  <2> DEFINE second == [q EXCEPT !.name = ref[2]]
             r == SearchIn(second, object, search)
  <2>1. second \in Known
    BY <1>1, <1>5, RenamedKnown
  <2>2. IsResult(r) /\ r # Stopped
    BY <1>3, <2>1, SearchInResult, Tags
  <2>3. Evaluate(q, ref, search) = OrError(r)
    BY <1>5 DEF Evaluate, object, first
  <2> HIDE DEF r
  <2>4. IsResult(Error) /\ Error \notin {Nothing, Stopped}
    BY Tags DEF IsResult
  <2> QED
    BY <2>2, <2>3, <2>4 DEF OrError
<1> QED
  BY <1>4, <1>5

(* The static if was found, for what is searched counts.                   *)
LEMMA OpenResult ==
  ASSUME Structure, NEW search, Good(search), NEW q \in Known, NEW s \in StatementsOf(q.file), IsReached(s),
         s.kind = "using"
  PROVE  IsResult(Open(q, s, search)) /\ Open(q, s, search) # Stopped
<1> DEFINE ignore == IF q.runtime THEN NoPlace ELSE s.at
           operand == Query("", FileOf(s), FALSE, FALSE, ignore)
<1>1. program \in Programs /\ q.file \in Files /\ Parsed(q.file)
  BY KnownIs DEF Structure, TypesOK
<1>2. PICK n : IsNth(s, q.file, n)
  BY <1>1, StatementIs
<1>3. s.ref \in Seq(Names) /\ s.ref # <<>> /\ FileOf(s) = q.file
  BY <1>2 DEF IsNth, Statements
<1>4. operand \in Known /\ operand.external = FALSE
  <2>1. ignore = NoPlace \/ ignore = s.at
    OBVIOUS
  <2> HIDE DEF ignore
  <2> QED
    BY <1>1, <1>3, <2>1, OperandKnown
<1> HIDE DEF operand
<1>5. IsResult(Evaluate(operand, s.ref, search)) /\ Evaluate(operand, s.ref, search) # Stopped
  BY <1>3, <1>4, EvaluateResult
<1> QED
  BY <1>5, SearchInResult DEF Open, operand

(* A statement that counts has its job.                                    *)
LEMMA JobOfKind ==
  ASSUME Structure, NEW f \in Files, Parsed(f), NEW s \in StatementsOf(f), IsReached(s),
         NEW kind, s.kind \in DOMAIN JobKind, JobKind[s.kind] = kind
  PROVE  /\ JobFor(kind, s) # 0 /\ JobFor(kind, s) \in DOMAIN jobs
         /\ jobs[JobFor(kind, s)].kind = kind /\ jobs[JobFor(kind, s)].statement = s
<1>1. Has(jobs, kind, s)
  BY DEF Structure, WhatCountsHasJobs, HasJob
<1> QED
  BY <1>1, JobForIs DEF JobForFinds, Structure, TypesOK

(* What a statement that counts comes to: the assertion that a static if   *)
(* was found, and the abort of the search for a variable, are not reached. *)
LEMMA SearchStatementResult ==
  ASSUME Structure, NEW search, Good(search), NEW q \in Known, NEW s \in StatementsOf(q.file), IsReached(s)
  PROVE  IsResult(SearchStatement(q, s, search))
<1>1. program \in Programs /\ q.file \in Files /\ Parsed(q.file)
  BY KnownIs DEF Structure, TypesOK
<1>2. s \in AnyStatement
  BY <1>1, StatementIs, StatementsType DEF IsNth
<1>3. CASE s.at # q.ignore /\ s.kind = "using" /\ (q.external /\ s.within = {0} => s.export)
  <2>1. SearchStatement(q, s, search) = Open(q, s, search)
    BY <1>3 DEF SearchStatement
  <2> QED
    BY <1>3, <2>1, OpenResult
<1>4. CASE s.at # q.ignore /\ s.kind = "static_if"
  <2> DEFINE i == JobFor("ResolveStaticIf", s)
  <2>1. i # 0 /\ i \in DOMAIN jobs
    BY <1>1, <1>4, JobOfKind DEF JobKind
  <2>2. SearchStatement(q, s, search) = SearchStaticIf(q, s, i)
    BY <1>4 DEF SearchStatement
  <2>3. SearchStaticIf(q, s, i) = IF IsDone(i) THEN IF IsTrue(jobs[i].value) THEN SearchDeclarations(q, s) ELSE Nothing
                                  ELSE IF does_or_could_have_name(s, q.name) THEN Wait(i) ELSE Nothing
    BY <2>1 DEF SearchStaticIf
  <2>4. IsDone(i) /\ IsTrue(jobs[i].value) => IsResult(SearchDeclarations(q, s))
    <3>1. IsDone(i) /\ IsTrue(jobs[i].value) => Counts(s, q.file)
      BY <2>1 DEF Counts, ComesTrue
    <3> QED
      BY <3>1, DeclarationsResult
  <2>5. IsResult(Nothing) /\ (~IsDone(i) => IsResult(Wait(i)))
    <3> HIDE DEF i
    <3> QED
      BY <2>1 DEF IsResult
  <2> HIDE DEF i
  <2> QED
    BY <2>2, <2>3, <2>4, <2>5
<1>5. CASE s.at # q.ignore /\ s.kind = "variable" /\ q.runtime /\ s.name = q.name
  <2> DEFINE i == JobFor("GenerateStaticVariable", s)
  <2>1. i # 0 /\ i \in DOMAIN jobs
    BY <1>1, <1>5, JobOfKind DEF JobKind
  <2>2. SearchStatement(q, s, search) = SearchVariable(s, i)
    BY <1>5 DEF SearchStatement
  <2>3. SearchVariable(s, i) = IF IsDone(i) THEN Found(s, s) ELSE Wait(i)
    BY <2>1 DEF SearchVariable
  <2>4. IsValue(s)
    BY <1>2, <1>5 DEF IsValue, ValueKinds
  <2> HIDE DEF i
  <2> QED
    BY <1>2, <2>1, <2>2, <2>3, <2>4 DEF IsResult
<1>6. CASE SearchStatement(q, s, search) \in {Nothing, Stopped}
  BY <1>6 DEF IsResult
<1> QED
  BY <1>3, <1>4, <1>5, <1>6 DEF SearchStatement

(* What the n-th step of a scan comes to.                                  *)
LEMMA SearchAtResult ==
  ASSUME Structure, NEW search, Good(search), NEW q \in Known, NEW n \in 0 .. Len(program[q.file])
  PROVE  IsResult(SearchAt(q, n, search))
<1> DEFINE s == program[q.file][n]
<1>1. program \in Programs /\ q.file \in Files /\ Parsed(q.file)
  BY KnownIs DEF Structure, TypesOK
<1>2. CASE n = 0
  <2>1. Counts(Top(q.file), q.file)
    BY DEF Counts
  <2> QED
    BY <1>2, <2>1, DeclarationsResult DEF SearchAt
<1>3. CASE n # 0 /\ IsReached(s)
  <2>1. n \in DOMAIN program[q.file]
    BY <1>1, <1>3, ProgramIs DEF IsProgram
  <2>2. s \in StatementsOf(q.file)
    BY <1>1, <2>1, NthStatement
  <2>3. SearchAt(q, n, search) = SearchStatement(q, s, search)
    BY <1>3 DEF SearchAt
  <2> QED
    BY <1>3, <2>2, <2>3, SearchStatementResult
<1>4. CASE n # 0 /\ ~IsReached(s)
  BY <1>4 DEF SearchAt, IsResult
<1> QED
  BY <1>2, <1>3, <1>4

(* What a scan comes to.                                                   *)
LEMMA ScanResult ==
  ASSUME Structure, NEW search, Good(search), NEW q \in Known
  PROVE  IsResult(Scan(q, search))
<1> DEFINE N == Len(program[q.file])
<1>1. program \in Programs /\ q.file \in Files
  BY KnownIs DEF Structure, TypesOK
<1>2. IsFirst(Steps(q, search), N, Scan(q, search))
  BY <1>1, ScanIs DEF ScanFinds
<1>3. \A k \in 0 .. N : IsResult(Steps(q, search)[k])
  BY SearchAtResult DEF Steps
<1>4. IsResult(Nothing)
  BY DEF IsResult
<1> HIDE DEF N
<1> QED
  BY <1>2, <1>3, <1>4 DEF IsFirst

(* What searches come to, however deep they nest.                          *)
LEMMA SearchResults ==
  ASSUME Structure
  PROVE  \A n \in 0 .. MaxDepth : Good(Search[n])
<1> DEFINE U == {n \in 0 .. MaxDepth : Good(Search[n])}
<1>1. MaxDepth \in Nat /\ 0 \in 0 .. MaxDepth /\ Known \in SUBSET Queries
  <2>1. MaxDepth \in Nat
    BY ProgramsAssumption
  <2>2. Known \in SUBSET Queries
    BY DEF Known
  <2> QED
    BY <2>1, <2>2
<1>2. ASSUME NEW n \in 0 .. MaxDepth, \A q \in Known : IsResult(Search[n][q])
      PROVE  n \in U
  BY <1>2 DEF Good, Failed
<1>3. 0 \in U
  <2>1. \A q \in Known : Search[0][q] = Diverges
    BY <1>1, SearchIs DEF SearchUnfolds
  <2> QED
    BY <1>1, <1>2, <2>1 DEF IsResult
<1>4. ASSUME NEW n \in 0 .. MaxDepth - 1, n \in U
      PROVE  n + 1 \in U
  <2>1. n + 1 \in 0 .. MaxDepth /\ n + 1 # 0 /\ (n + 1) - 1 = n
    BY <1>1
  <2>2. \A q \in Known : Search[n + 1][q] = Scan(q, Search[n])
    BY <1>1, <2>1, SearchIs DEF SearchUnfolds
  <2>3. Good(Search[n])
    BY <1>4
  <2> QED
    BY <1>2, <2>1, <2>2, <2>3, ScanResult
<1>5. \A n \in 0 .. MaxDepth : n \in U
  <2> HIDE DEF U
  <2> QED
    BY <1>1, <1>3, <1>4, IntervalInduction
<1> QED
  BY <1>5

(* What the expression of a job comes to.                                  *)
LEMMA MeaningResult ==
  ASSUME Structure, NEW i \in DOMAIN jobs, jobs[i].kind # "ParseFile"
  PROVE  /\ IsResult(Meaning(i))
         /\ Meaning(i).tag \in {"found", "wait", "error", "missing", "diverges"}
<1> DEFINE s == jobs[i].statement
           f == FileOf(s)
           ignore == IF jobs[i].kind = "ResolveStaticIf" THEN s.at ELSE NoPlace
           runtime == jobs[i].kind = "GenerateFunction"
           q == Query("", f, FALSE, runtime, ignore)
<1>1. program \in Programs /\ MaxDepth \in 0 .. MaxDepth
  <2>1. MaxDepth \in Nat
    BY ProgramsAssumption
  <2>2. program \in Programs
    BY DEF Structure, TypesOK
  <2> QED
    BY <2>1, <2>2
<1>2. IsStatement(s) /\ s.kind \in {"constant", "static_if", "enum", "function", "variable"}
  BY DEF Structure, JobsAreOfStatements, IsJobOf, JobKind
<1>3. f \in Files /\ s \in StatementsOf(f) /\ Parsed(f) /\ IsReached(s) /\ s.ref \in Seq(Names) /\ s \in AnyStatement
      /\ (s.kind = "static_if" => s.ref # <<>>)
  <2>1. PICK g \in Files : s \in StatementsOf(g)
    BY <1>2 DEF IsStatement
  <2>2. PICK n : IsNth(s, g, n)
    BY <1>1, <2>1, StatementIs
  <2>3. f = g /\ s.ref \in Seq(Names) /\ s \in AnyStatement /\ (s.kind = "static_if" => s.ref # <<>>)
    BY <2>2, StatementsType DEF IsNth, Statements
  <2> QED
    BY <2>1, <2>3 DEF Structure, JobsCount
<1> HIDE DEF s
<1>4. CASE s.ref = <<>>
  <2>1. Meaning(i) = Found(s, s)
    BY <1>4 DEF Meaning, s
  <2>2. IsValue(s)
    BY <1>2, <1>3, <1>4 DEF IsValue, ValueKinds
  <2> QED
    BY <1>3, <2>1, <2>2, Tags DEF IsResult
<1>5. CASE s.ref # <<>>
  <2>1. Meaning(i) = Evaluate(q, s.ref, Search[MaxDepth])
    BY <1>5 DEF Meaning, s
  <2>2. Good(Search[MaxDepth])
    BY <1>1, SearchResults
  <2>3. q \in Known /\ q.external = FALSE
    <3>1. ignore = NoPlace \/ (ignore = s.at /\ s.kind = "static_if" /\ ~runtime)
      <4>1. jobs[i].kind = "ResolveStaticIf" => s.kind = "static_if"
        BY DEF Structure, JobsAreOfStatements, IsJobOf, JobKind, s
      <4> QED
        BY <4>1
    <3>2. runtime \in BOOLEAN
      OBVIOUS
    <3>3. \A g \in Files : g = FileOf(s) => s \in StatementsOf(g) /\ Parsed(g)
      BY <1>3
    <3>4. FileOf(s) \in Files
      BY <1>3
    <3>5. PICK g \in Files, rt \in BOOLEAN : g = FileOf(s) /\ rt = runtime
      BY <3>2, <3>4
    <3> HIDE DEF ignore, runtime, f
    <3>6. \/ ignore = NoPlace
          \/ /\ s \in StatementsOf(g) /\ IsReached(s) /\ ignore = s.at
             /\ s.kind \in {"using", "static_if"} /\ ~rt
      BY <1>2, <1>3, <3>1, <3>3, <3>5
    <3>7. LET r == Query("", FileOf(s), FALSE, rt, ignore)
          IN  r \in Known /\ r.external = FALSE /\ r.runtime = rt
      <4>1. Parsed(g) /\ FileOf(s) = g
        BY <3>3, <3>5
      <4>2. program \in Programs
        BY <1>1
      <4> QED
        BY <3>6, <4>1, <4>2, OperandKnown, ZenonT(60)
    <3> QED
      BY <3>5, <3>7 DEF f
  <2> HIDE DEF q
  <2>4. IsResult(Meaning(i)) /\ Meaning(i) \notin {Nothing, Stopped}
    BY <1>3, <1>5, <2>1, <2>2, <2>3, EvaluateResult
  <2> QED
    BY <2>4, ResultTags
<1> QED
  BY <1>4, <1>5

(***************************************************************************)
(* The jobs of a list of statements                                        *)
(***************************************************************************)

(* The jobs after the first n statements of the file.                      *)
After(list, to, f, n) ==
  LET s == program[FileOf(list)][n]
  IN  CASE n = 0 -> to
        [] n > 0 /\ IsIn(s, list) -> WithJob(s, f[n - 1])
        [] OTHER -> f[n - 1]

(* The recursive function of process_scope exists.                         *)
LEMMA ScopeUnfolds ==
  ASSUME NEW list, NEW to, NEW N \in Nat, N = Len(program[FileOf(list)])
  PROVE  \E f : f = [n \in 0 .. N |-> After(list, to, f, n)] /\ process_scope(list, to) = f[N]
<1> DEFINE A(f, n) == After(list, to, f, n)
           U == {n \in Nat : \E f : f = [m \in 0 .. n |-> A(f, m)]}
           D(f) == [n \in 0 .. Len(program[FileOf(list)]) |->
                      CASE n = 0 -> to
                        [] n > 0 /\ IsIn(program[FileOf(list)][n], list) -> WithJob(program[FileOf(list)][n], f[n - 1])
                        [] OTHER -> f[n - 1]]
           chosen == CHOOSE f : f = D(f)
<1>0. ASSUME NEW f, NEW g, NEW n \in Nat, n > 0 => f[n - 1] = g[n - 1]
      PROVE  A(f, n) = A(g, n)
  <2>1. CASE n = 0
    BY <2>1 DEF After
  <2>2. CASE n > 0
    BY <1>0, <2>2 DEF After
  <2> QED
    BY <2>1, <2>2
<1> HIDE DEF A
<1>1. 0 \in U
  <2> DEFINE none == [m \in {} |-> m]
             first == [m \in 0 .. 0 |-> A(none, 0)]
  <2>1. A(first, 0) = A(none, 0)
    <3> HIDE DEF first, none
    <3> QED
      BY <1>0
  <2>2. first[0] = A(none, 0)
    OBVIOUS
  <2>3. \A m \in 0 .. 0 : first[m] = A(first, m)
    <3>1. \A m \in 0 .. 0 : m = 0
      OBVIOUS
    <3> HIDE DEF first, none
    <3> QED
      BY <2>1, <2>2, <3>1
  <2>4. first = [m \in 0 .. 0 |-> first[m]]
    OBVIOUS
  <2> HIDE DEF first
  <2>5. first = [m \in 0 .. 0 |-> A(first, m)]
    BY <2>3, <2>4
  <2> QED
    BY <2>5
<1>2. ASSUME NEW n \in U
      PROVE  n + 1 \in U
  <2>1. PICK f : f = [m \in 0 .. n |-> A(f, m)]
    OBVIOUS
  <2> DEFINE next == A(f, n + 1)
             longer == [m \in 0 .. n + 1 |-> IF m <= n THEN f[m] ELSE next]
  <2>2. ASSUME NEW m \in 0 .. n + 1
        PROVE  longer[m] = A(longer, m)
    <3>1. m > 0 => longer[m - 1] = f[m - 1]
      OBVIOUS
    <3> HIDE DEF longer
    <3>2. A(longer, m) = A(f, m)
      BY <1>0, <3>1
    <3>3. CASE m <= n
      <4>1. m \in 0 .. n /\ longer[m] = f[m]
        BY <3>3 DEF longer
      <4>2. f[m] = A(f, m)
        BY <2>1, <4>1, Zenon
      <4> QED
        BY <3>2, <4>1, <4>2
    <3>4. CASE m = n + 1
      <4>1. longer[m] = next
        BY <3>4 DEF longer
      <4> QED
        BY <3>2, <3>4, <4>1
    <3> QED
      BY <3>3, <3>4
  <2>3. longer = [m \in 0 .. n + 1 |-> longer[m]]
    OBVIOUS
  <2> HIDE DEF longer
  <2>4. longer = [m \in 0 .. n + 1 |-> A(longer, m)]
    BY <2>2, <2>3
  <2> QED
    BY <2>4
<1>3. N \in U
  <2>1. U \in SUBSET Nat
    OBVIOUS
  <2> HIDE DEF U
  <2> QED
    BY <1>1, <1>2, <2>1, NaturalInduction
<1>4. PICK f : f = [m \in 0 .. N |-> A(f, m)]
  BY <1>3
<1>5. \A g : D(g) = [m \in 0 .. N |-> A(g, m)]
  BY DEF A, After
<1>6. chosen = D(chosen)
  <2>1. f = D(f)
    BY <1>4, <1>5
  <2> HIDE DEF D
  <2> QED
    BY <2>1
<1>7. process_scope(list, to) = chosen[N]
  BY DEF process_scope
<1>8. chosen = [m \in 0 .. N |-> A(chosen, m)]
  <2> HIDE DEF chosen, D
  <2> QED
    BY <1>5, <1>6
<1> HIDE DEF chosen
<1> QED
  BY <1>7, <1>8 DEF A

(* The jobs of a list are of different kinds or statements.                *)
Unique(list) ==
  \A i, j \in DOMAIN list : list[i].kind = list[j].kind /\ list[i].statement = list[j].statement => i = j

(* The job of a statement.                                                 *)
JobOf(s) ==
  IF s.kind = "import" THEN NewJob("ParseFile", Top(s.file)) ELSE NewJob(JobKind[s.kind], s)

(* To these jobs those of a list of statements can be added.               *)
Ready(list, to) ==
  /\ to \in Seq(Job)
  /\ Unique(to)
  /\ \A i \in DOMAIN to : to[i].statement.kind = "file" => to[i].kind = "ParseFile"
  /\ \A s \in StatementsOf(FileOf(list)) :
       IsIn(s, list) /\ s.kind \in DOMAIN JobKind => ~Has(to, JobKind[s.kind], s)

(* The jobs, when those of the first n statements have been added.         *)
Built(r, n, list, to) ==
  LET statements == program[FileOf(list)]
  IN  /\ r \in Seq(Job)
      /\ Unique(r)
      /\ Len(to) <= Len(r)
      /\ \A i \in DOMAIN to : r[i] = to[i]
      /\ \A i \in DOMAIN r \ DOMAIN to :
           \E m \in 1 .. n :
             IsIn(statements[m], list) /\ statements[m].kind # "using" /\ r[i] = JobOf(statements[m])
      /\ \A m \in 1 .. n : IsIn(statements[m], list) => HasJob(r, statements[m])

(* What is in a list after an append.                                      *)
LEMMA AppendIs ==
  ASSUME NEW S, NEW r \in Seq(S), NEW x \in S
  PROVE  /\ Append(r, x) \in Seq(S)
         /\ Len(Append(r, x)) = Len(r) + 1
         /\ DOMAIN Append(r, x) = 1 .. Len(r) + 1
         /\ DOMAIN r = 1 .. Len(r)
         /\ \A i \in 1 .. Len(r) : Append(r, x)[i] = r[i]
         /\ Append(r, x)[Len(r) + 1] = x
OBVIOUS

(* A new job is a job.                                                     *)
LEMMA NewJobIs ==
  ASSUME NEW kind \in Kinds, NEW s \in AnyStatement
  PROVE  LET job == NewJob(kind, s)
         IN  /\ job \in Job /\ job.kind = kind /\ job.statement = s /\ job.state = "Working"
             /\ job.waiting_for = 0
BY NoneType DEF NewJob, Job

(* The job of a statement is about it.                                     *)
LEMMA JobOfIs ==
  ASSUME NEW s \in Statements, s.kind # "using"
  PROVE  /\ JobOf(s) \in Job /\ JobOf(s).state = "Working" /\ JobOf(s).waiting_for = 0
         /\ s.kind = "import" => JobOf(s).kind = "ParseFile" /\ JobOf(s).statement = Top(s.file)
         /\ s.kind # "import" => /\ s.kind \in DOMAIN JobKind
                                 /\ JobOf(s).kind = JobKind[s.kind] /\ JobOf(s).statement = s
                                 /\ JobOf(s).statement.kind # "file"
<1>1. s \in AnyStatement /\ s.kind \in StatementKinds /\ s.file \in Files
  BY StatementsType DEF Statements
<1>2. CASE s.kind = "import"
  <2>1. Top(s.file) \in AnyStatement
    BY <1>1, TopType
  <2>2. "ParseFile" \in Kinds
    BY DEF Kinds
  <2> QED
    BY <1>2, <2>1, <2>2, NewJobIs DEF JobOf
<1>3. CASE s.kind # "import"
  <2>1. s.kind \in DOMAIN JobKind /\ JobKind[s.kind] \in Kinds /\ s.kind # "file"
    BY <1>1, <1>3 DEF StatementKinds, JobKind, Kinds
  <2> QED
    BY <1>1, <1>3, <2>1, NewJobIs DEF JobOf
<1> QED
  BY <1>2, <1>3

(* One more job, of which there was none.                                  *)
LEMMA AppendBuilt ==
  ASSUME NEW r \in Seq(Job), Unique(r), NEW job \in Job, ~Has(r, job.kind, job.statement)
  PROVE  /\ Unique(Append(r, job))
         /\ Has(Append(r, job), job.kind, job.statement)
         /\ \A kind, s : Has(r, kind, s) => Has(Append(r, job), kind, s)
<1> DEFINE t == Append(r, job)
           n == Len(r) + 1
<1>1. /\ DOMAIN t = 1 .. n /\ DOMAIN r = 1 .. Len(r)
      /\ \A i \in 1 .. Len(r) : t[i] = r[i] /\ i \in 1 .. n
      /\ t[n] = job /\ n \in 1 .. n
      /\ \A i \in 1 .. n : i \in 1 .. Len(r) \/ i = n
  <2>1. Len(r) \in Nat
    OBVIOUS
  <2>2. /\ n \in 1 .. n
        /\ \A i \in 1 .. n : i \in 1 .. Len(r) \/ i = n
        /\ \A i \in 1 .. Len(r) : i \in 1 .. n
    BY <2>1
  <2> QED
    BY <2>2, AppendIs
<1> HIDE DEF t, n
<1>2. Unique(t)
  BY <1>1 DEF Unique, Has
<1>3. Has(t, job.kind, job.statement)
  BY <1>1 DEF Has
<1>4. ASSUME NEW kind, NEW s, Has(r, kind, s)
      PROVE  Has(t, kind, s)
  <2>1. PICK i \in DOMAIN r : r[i].kind = kind /\ r[i].statement = s
    BY <1>4 DEF Has
  <2>2. i \in DOMAIN t /\ t[i] = r[i]
    BY <1>1, <2>1
  <2> QED
    BY <2>1, <2>2 DEF Has
<1> QED
  BY <1>2, <1>3, <1>4 DEF t

(* The next statement of the file.                                         *)
LEMMA BuiltGoesOn ==
  ASSUME program \in Programs, NEW list, FileOf(list) \in Files, NEW to, Ready(list, to),
         NEW n \in Nat, n + 1 \in DOMAIN program[FileOf(list)], NEW r, Built(r, n, list, to)
  PROVE  LET s == program[FileOf(list)][n + 1]
         IN  Built(IF IsIn(s, list) THEN WithJob(s, r) ELSE r, n + 1, list, to)
<1> DEFINE f == FileOf(list)
           st == program[f]
           s == st[n + 1]
           t == Append(r, JobOf(s))
<1>0. \A m \in 1 .. n : m \in DOMAIN st
  <2>1. st \in Seq(Statements)
    BY ProgramIs DEF IsProgram
  <2> QED
    BY <2>1
<1>1. /\ r \in Seq(Job) /\ Unique(r) /\ Len(to) <= Len(r)
      /\ \A i \in DOMAIN to : r[i] = to[i]
      /\ \A i \in DOMAIN r \ DOMAIN to :
           \E m \in 1 .. n :
             IsIn(st[m], list) /\ st[m].kind # "using" /\ r[i] = JobOf(st[m])
      /\ \A m \in 1 .. n : IsIn(st[m], list) => HasJob(r, st[m])
  BY DEF Built
<1>2. /\ to \in Seq(Job)
      /\ \A i \in DOMAIN to : to[i].statement.kind = "file" => to[i].kind = "ParseFile"
      /\ \A u \in StatementsOf(f) : IsIn(u, list) /\ u.kind \in DOMAIN JobKind => ~Has(to, JobKind[u.kind], u)
  BY DEF Ready
<1>3. \A m \in DOMAIN st : st[m] \in StatementsOf(f) /\ IsNth(st[m], f, m)
  BY NthStatement
<1>4. \A m \in 1 .. n + 1 : m \in 1 .. n \/ m = n + 1
  OBVIOUS
<1>5. \A m \in 1 .. n : m \in 1 .. n + 1
  OBVIOUS
<1>6. s \in StatementsOf(f) /\ IsNth(s, f, n + 1) /\ s \in Statements
  BY <1>3 DEF IsNth
<1>7. n + 1 \in 1 .. n + 1
  OBVIOUS
<1> HIDE DEF f, st, s, t
<1>8. CASE ~IsIn(s, list)
  <2>1. /\ \A i \in DOMAIN r \ DOMAIN to :
             \E m \in 1 .. n + 1 :
               IsIn(st[m], list) /\ st[m].kind # "using" /\ r[i] = JobOf(st[m])
        /\ \A m \in 1 .. n + 1 : IsIn(st[m], list) => HasJob(r, st[m])
    BY <1>1, <1>4, <1>5, <1>8 DEF s
  <2> QED
    BY <1>1, <1>8, <2>1 DEF Built, s, st, f
<1>9. CASE IsIn(s, list) /\ s.kind = "using"
  <2>1. WithJob(s, r) = r
    BY <1>9 DEF WithJob
  <2>2. HasJob(r, s)
    BY <1>9 DEF HasJob, JobKind
  <2>3. /\ \A i \in DOMAIN r \ DOMAIN to :
             \E m \in 1 .. n + 1 :
               IsIn(st[m], list) /\ st[m].kind # "using" /\ r[i] = JobOf(st[m])
        /\ \A m \in 1 .. n + 1 : IsIn(st[m], list) => HasJob(r, st[m])
    BY <1>1, <1>4, <1>5, <2>2 DEF s
  <2> QED
    BY <1>1, <1>9, <2>1, <2>3 DEF Built, s, st, f
<1>10. ASSUME IsIn(s, list), s.kind # "using", ~Has(r, JobOf(s).kind, JobOf(s).statement)
       PROVE  Built(t, n + 1, list, to)
  <2>1. JobOf(s) \in Job
    BY <1>6, <1>10, JobOfIs
  <2>2. /\ t \in Seq(Job) /\ Len(t) = Len(r) + 1 /\ DOMAIN t = 1 .. Len(r) + 1 /\ DOMAIN r = 1 .. Len(r)
        /\ \A i \in 1 .. Len(r) : t[i] = r[i]
        /\ t[Len(r) + 1] = JobOf(s)
    BY <1>1, <2>1, AppendIs DEF t
  <2>3. Unique(t) /\ Has(t, JobOf(s).kind, JobOf(s).statement) /\ \A kind, u : Has(r, kind, u) => Has(t, kind, u)
    BY <1>1, <1>10, <2>1, AppendBuilt DEF t
  <2>4. Len(to) \in Nat /\ Len(r) \in Nat /\ Len(to) <= Len(r) /\ DOMAIN to = 1 .. Len(to)
    BY <1>1, <1>2
  <2>5. Len(to) <= Len(t)
    BY <2>2, <2>4
  <2>6. \A i \in DOMAIN to : t[i] = to[i]
    <3>1. \A i \in DOMAIN to : i \in 1 .. Len(r)
      BY <2>4
    <3> QED
      BY <1>1, <2>2, <3>1
  <2>7. ASSUME NEW i \in DOMAIN t \ DOMAIN to
        PROVE  \E m \in 1 .. n + 1 : IsIn(st[m], list) /\ st[m].kind # "using" /\ t[i] = JobOf(st[m])
    <3>1. i \in DOMAIN r \ DOMAIN to \/ i = Len(r) + 1
      BY <2>2, <2>4
    <3>2. CASE i \in DOMAIN r \ DOMAIN to
      <4>1. t[i] = r[i]
        BY <2>2, <3>2
      <4> QED
        BY <1>1, <1>5, <3>2, <4>1
    <3>3. CASE i = Len(r) + 1
      BY <1>7, <1>10, <2>2, <3>3 DEF s
    <3> QED
      BY <3>1, <3>2, <3>3
  <2>8. HasJob(t, s)
    BY <1>6, <1>10, <2>3, JobOfIs DEF HasJob, JobKind
  <2>9. \A m \in 1 .. n + 1 : IsIn(st[m], list) => HasJob(t, st[m])
    <3>1. \A u : HasJob(r, u) => HasJob(t, u)
      BY <2>3 DEF HasJob
    <3> QED
      BY <1>1, <1>4, <2>8, <3>1 DEF s
  <2> QED
    BY <2>2, <2>3, <2>5, <2>6, <2>7, <2>9 DEF Built, st, f
<1>11. CASE IsIn(s, list) /\ s.kind = "import"
  <2> DEFINE top == Top(s.file)
  <2>0. JobOf(s).kind = "ParseFile" /\ JobOf(s).statement = top /\ JobOf(s) = NewJob("ParseFile", top) /\ top.kind = "file"
    <3>1. s.file \in Files
      BY <1>6 DEF Statements
    <3> QED
      BY <1>6, <1>11, <3>1, JobOfIs, TopType DEF JobOf
  <2>1. CASE \E i \in DOMAIN r : r[i].statement = top
    <3>1. WithJob(s, r) = r
      BY <1>11, <2>1 DEF WithJob
    <3>2. PICK i \in DOMAIN r : r[i].statement = top
      BY <2>1
    <3>3. r[i].kind = "ParseFile"
      <4>1. CASE i \in DOMAIN to
        BY <1>1, <1>2, <2>0, <3>2, <4>1
      <4>2. CASE i \notin DOMAIN to
        <5>1. PICK m \in 1 .. n : st[m].kind # "using" /\ r[i] = JobOf(st[m])
          BY <1>1, <3>2, <4>2
        <5>2. st[m] \in Statements
          BY <1>0, <1>3, <5>1 DEF IsNth
        <5> QED
          BY <2>0, <3>2, <5>1, <5>2, JobOfIs
      <4> QED
        BY <4>1, <4>2
    <3>4. HasJob(r, s)
      BY <1>11, <3>2, <3>3 DEF HasJob, Has, JobKind
    <3>5. /\ \A k \in DOMAIN r \ DOMAIN to :
               \E m \in 1 .. n + 1 :
                 IsIn(st[m], list) /\ st[m].kind # "using" /\ r[k] = JobOf(st[m])
          /\ \A m \in 1 .. n + 1 : IsIn(st[m], list) => HasJob(r, st[m])
      BY <1>1, <1>4, <1>5, <3>4 DEF s
    <3> QED
      BY <1>1, <1>11, <3>1, <3>5 DEF Built, s, st, f
  <2>2. CASE ~ \E i \in DOMAIN r : r[i].statement = top
    <3>1. WithJob(s, r) = t
      BY <1>11, <2>0, <2>2 DEF WithJob, t
    <3>2. ~Has(r, JobOf(s).kind, JobOf(s).statement)
      BY <2>0, <2>2 DEF Has
    <3>3. Built(t, n + 1, list, to)
      BY <1>10, <1>11, <3>2
    <3> QED
      BY <1>11, <3>1, <3>3 DEF s, st, f
  <2> QED
    BY <2>1, <2>2
<1>12. CASE IsIn(s, list) /\ s.kind # "import" /\ s.kind # "using"
  <2>1. WithJob(s, r) = t
    BY <1>12 DEF WithJob, t, JobOf
  <2>2. s.kind \in DOMAIN JobKind /\ JobOf(s).kind = JobKind[s.kind] /\ JobOf(s).statement = s /\ s.kind # "file"
    BY <1>6, <1>12, JobOfIs
  <2>3. ~Has(r, JobOf(s).kind, s)
    <3>1. SUFFICES ASSUME NEW i \in DOMAIN r, r[i].kind = JobKind[s.kind], r[i].statement = s
                   PROVE  FALSE
      BY <2>2 DEF Has
    <3>2. CASE i \in DOMAIN to
      <4>1. Has(to, JobKind[s.kind], s)
        BY <1>1, <3>1, <3>2 DEF Has
      <4> QED
        BY <1>2, <1>6, <1>12, <2>2, <4>1
    <3>3. CASE i \notin DOMAIN to
      <4>1. PICK m \in 1 .. n : st[m].kind # "using" /\ r[i] = JobOf(st[m])
        BY <1>1, <3>1, <3>3
      <4>2. IsNth(st[m], f, m) /\ st[m] \in Statements /\ st[m].file \in Files
        BY <1>0, <1>3, <4>1 DEF IsNth, Statements
      <4>3. CASE st[m].kind = "import"
        BY <2>2, <3>1, <4>1, <4>2, <4>3, JobOfIs, TopType
      <4>4. CASE st[m].kind # "import"
        <5>1. s = st[m]
          BY <3>1, <4>1, <4>2, <4>4, JobOfIs
        <5>2. m = n + 1
          BY <1>6, <4>2, <5>1 DEF IsNth
        <5> QED
          BY <4>1, <5>2
      <4> QED
        BY <4>3, <4>4
    <3> QED
      BY <3>2, <3>3
  <2>4. Built(t, n + 1, list, to)
    BY <1>10, <1>12, <2>2, <2>3
  <2> QED
    BY <1>12, <2>1, <2>4 DEF s, st, f
<1> QED
  BY <1>8, <1>9, <1>11, <1>12

(* What processing a list of statements makes of the jobs.                 *)
LEMMA ScopeBuilt ==
  ASSUME program \in Programs, NEW list, FileOf(list) \in Files, NEW to, Ready(list, to)
  PROVE  Built(process_scope(list, to), Len(program[FileOf(list)]), list, to)
<1> DEFINE N == Len(program[FileOf(list)])
<1>1. N \in Nat /\ \A n \in 0 .. N - 1 : n + 1 \in DOMAIN program[FileOf(list)]
  BY ProgramIs DEF IsProgram
<1>2. PICK g : g = [k \in 0 .. N |-> After(list, to, g, k)] /\ process_scope(list, to) = g[N]
  BY <1>1, ScopeUnfolds
<1>3. \A k \in 0 .. N : g[k] = After(list, to, g, k)
  BY <1>2, Zenon
<1> DEFINE W == {n \in 0 .. N : Built(g[n], n, list, to)}
<1>4. 0 \in W
  <2>1. g[0] = to /\ 0 \in 0 .. N
    BY <1>1, <1>3 DEF After
  <2>2. Built(to, 0, list, to)
    <3>1. \A m \in 1 .. 0 : FALSE
      OBVIOUS
    <3>2. Len(to) <= Len(to)
      BY DEF Ready
    <3> QED
      BY <3>1, <3>2 DEF Built, Ready
  <2> QED
    BY <2>1, <2>2
<1>5. ASSUME NEW n \in 0 .. N - 1, n \in W
      PROVE  n + 1 \in W
  <2> DEFINE s == program[FileOf(list)][n + 1]
  <2>1. n + 1 \in 0 .. N /\ n + 1 # 0 /\ n + 1 > 0 /\ (n + 1) - 1 = n /\ n \in Nat
    BY <1>1
  <2>2. g[n + 1] = IF IsIn(s, list) THEN WithJob(s, g[n]) ELSE g[n]
    BY <1>3, <2>1 DEF After
  <2>3. Built(g[n], n, list, to) /\ n + 1 \in DOMAIN program[FileOf(list)]
    BY <1>1, <1>5
  <2>4. Built(IF IsIn(s, list) THEN WithJob(s, g[n]) ELSE g[n], n + 1, list, to)
    BY <2>1, <2>3, BuiltGoesOn
  <2> QED
    BY <2>1, <2>2, <2>4
<1>6. \A n \in 0 .. N : n \in W
  <2> HIDE DEF W, N
  <2> QED
    BY <1>1, <1>4, <1>5, IntervalInduction
<1>7. N \in 0 .. N
  BY <1>1
<1> QED
  BY <1>2, <1>6, <1>7

(***************************************************************************)
(* What a step leaves as it is                                             *)
(***************************************************************************)

(* Jobs are added, and those that are done stay as they are.               *)
Growth ==
  /\ program' = program
  /\ \A i \in DOMAIN jobs :
       /\ i \in DOMAIN jobs'
       /\ jobs'[i].kind = jobs[i].kind /\ jobs'[i].statement = jobs[i].statement
       /\ IsDone(i) => jobs'[i] = jobs[i]

(* A job that JobFor finds is found ever after.                            *)
LEMMA JobForStays ==
  ASSUME jobs \in Seq(Job), jobs' \in Seq(Job), Unique(jobs'), Growth, NEW kind, NEW s, JobFor(kind, s) # 0
  PROVE  JobFor(kind, s)' = JobFor(kind, s)
<1> DEFINE i == JobFor(kind, s)
           j == JobFor(kind, s)'
<1>1. i \in DOMAIN jobs /\ jobs[i].kind = kind /\ jobs[i].statement = s
  BY JobForIs DEF JobForFinds
<1>2. i \in DOMAIN jobs' /\ jobs'[i].kind = kind /\ jobs'[i].statement = s
  BY <1>1 DEF Growth
<1>3. Has(jobs', kind, s)
  BY <1>2 DEF Has
<1>4. /\ j = 0 => ~Has(jobs', kind, s)
      /\ j # 0 => j \in DOMAIN jobs' /\ jobs'[j].kind = kind /\ jobs'[j].statement = s
  BY JobForIsNext DEF JobForFinds
<1> HIDE DEF i, j
<1> QED
  BY <1>2, <1>3, <1>4 DEF Unique, i, j

(* That a statement counts, for a program and jobs before and after a      *)
(* step.                                                                   *)
ReachedMeans ==
  \A s : IsReached(s) <=> \A m \in s.within \ {0} : \A t : t = program[FileOf(s)][m] => ComesTrue(t)

LEMMA ReachedIs == ReachedMeans
BY DEF IsReached, ReachedMeans

LEMMA ReachedIsNext == ReachedMeans'
BY ReachedIs, PTL

(* What counts, what is parsed and what is a value stays so.               *)
LEMMA WhatStays ==
  ASSUME jobs \in Seq(Job), jobs' \in Seq(Job), Unique(jobs'), Growth
  PROVE  /\ \A s : ComesTrue(s) => ComesTrue(s)'
         /\ \A s : IsReached(s) => IsReached(s)'
         /\ \A f : Parsed(f) => Parsed(f)'
         /\ \A v : IsValue(v) => IsValue(v)'
         /\ \A kind, s : Has(jobs, kind, s) => Has(jobs', kind, s)
         /\ \A s : HasJob(jobs, s) => HasJob(jobs', s)
<1>1. ASSUME NEW s, ComesTrue(s)
      PROVE  ComesTrue(s)'
  <2> DEFINE i == JobFor("ResolveStaticIf", s)
  <2>1. i # 0 /\ IsDone(i) /\ IsTrue(jobs[i].value)
    BY <1>1 DEF ComesTrue
  <2>2. i \in DOMAIN jobs /\ JobFor("ResolveStaticIf", s)' = i
    BY <2>1, JobForIs, JobForStays DEF JobForFinds
  <2>3. jobs'[i] = jobs[i]
    BY <2>1, <2>2 DEF Growth
  <2>4. ComesTrue(s)' = (i # 0 /\ jobs'[i].state = "Done" /\ IsTrue(jobs'[i].value))
    <3> HIDE DEF i
    <3> QED
      BY <2>2 DEF ComesTrue, IsDone, IsTrue
  <2> HIDE DEF i
  <2> QED
    BY <2>1, <2>3, <2>4 DEF IsDone
<1>2. \A s : IsReached(s) => IsReached(s)'
  BY <1>1, ReachedIs, ReachedIsNext DEF Growth, ReachedMeans
<1>3. ASSUME NEW f, Parsed(f)
      PROVE  Parsed(f)'
  <2>1. PICK i \in DOMAIN jobs : jobs[i].kind = "ParseFile" /\ jobs[i].statement = Top(f) /\ IsDone(i)
    BY <1>3 DEF Parsed
  <2>2. i \in DOMAIN jobs' /\ jobs'[i] = jobs[i]
    BY <2>1 DEF Growth
  <2> QED
    BY <2>1, <2>2 DEF Parsed, IsDone
<1>4. \A v : IsValue(v) => IsValue(v)'
  BY <1>3 DEF IsValue, AnyStatement, Places
<1>5. \A kind, s : Has(jobs, kind, s) => Has(jobs', kind, s)
  BY DEF Has, Growth
<1>6. \A s : HasJob(jobs, s) => HasJob(jobs', s)
  BY <1>5 DEF HasJob
<1> QED
  BY <1>1, <1>2, <1>3, <1>4, <1>5, <1>6

(* The job i has gone on: the others are as they were, and there are new   *)
(* ones for what counts now.                                               *)
Opens(i) ==
  /\ jobs'[i].state = "Done"
  /\ jobs[i].kind = "ResolveStaticIf" => IsTrue(jobs'[i].value)

(* A job that a step has added: it has not begun, and its statement        *)
(* counts.                                                                 *)
IsNew(k) ==
  /\ jobs'[k].state = "Working" /\ jobs'[k].waiting_for = 0
  /\ IsJobOf(jobs'[k].kind, jobs'[k].statement)
  /\ jobs'[k].kind # "ParseFile" =>
       \A s : s = jobs'[k].statement => Parsed(FileOf(s))' /\ IsReached(s)'
  /\ jobs'[k].kind = "GenerateFunction" =>
       \E j \in DOMAIN jobs : jobs'[j].kind = "ResolveFunctionDeclaration" /\ jobs'[j].statement = jobs'[k].statement
                              /\ jobs'[j].state = "Done"

(* A step of the job i: its own entry changes, and jobs are added.         *)
Advances(i) ==
  /\ program' = program /\ outcome' = outcome
  /\ jobs' \in Seq(Job)
  /\ Unique(jobs')
  /\ Len(jobs) <= Len(jobs')
  /\ \A k \in DOMAIN jobs : k # i => jobs'[k] = jobs[k]
  /\ jobs'[i].kind = jobs[i].kind /\ jobs'[i].statement = jobs[i].statement
  /\ jobs'[i].waiting_for \in 0 .. Len(jobs)
  /\ jobs'[i].state = "Done" /\ jobs[i].kind # "ParseFile" => IsValue(jobs'[i].value)
  /\ \A k \in DOMAIN jobs' \ DOMAIN jobs : IsNew(k)
  /\ jobs[i].kind \in {"ParseFile", "ResolveStaticIf"} /\ Opens(i) =>
       \A s \in StatementsOf(FileOf(jobs[i].statement)) : IsIn(s, jobs[i].statement) => HasJob(jobs', s)

(* Such a step adds jobs, and leaves those that are done as they are.      *)
LEMMA AdvanceGrows ==
  ASSUME jobs \in Seq(Job), NEW i \in DOMAIN jobs, ~IsDone(i), Advances(i)
  PROVE  Growth
<1>1. DOMAIN jobs = 1 .. Len(jobs) /\ DOMAIN jobs' = 1 .. Len(jobs') /\ Len(jobs) \in Nat /\ Len(jobs') \in Nat
  BY DEF Advances
<1>2. DOMAIN jobs \subseteq DOMAIN jobs'
  BY <1>1 DEF Advances
<1> QED
  BY <1>2 DEF Growth, Advances

(* A static if that has come true is the job that has gone on.             *)
LEMMA NewlyTrue ==
  ASSUME jobs \in Seq(Job), NEW i \in DOMAIN jobs, ~IsDone(i), Advances(i),
         NEW s, ComesTrue(s)', ~ComesTrue(s)
  PROVE  jobs[i].kind = "ResolveStaticIf" /\ jobs[i].statement = s /\ Opens(i)
<1> DEFINE j == JobFor("ResolveStaticIf", s)'
<1>1. j # 0 /\ jobs'[j].state = "Done" /\ IsTrue(jobs'[j].value)
  BY DEF ComesTrue, IsDone, IsTrue
<1>2. jobs' \in Seq(Job) /\ Unique(jobs') /\ Growth
  BY AdvanceGrows DEF Advances
<1>3. j \in DOMAIN jobs' /\ jobs'[j].kind = "ResolveStaticIf" /\ jobs'[j].statement = s
  BY <1>1, <1>2, JobForIsNext DEF JobForFinds
<1>4. j \in DOMAIN jobs
  <2> HIDE DEF j
  <2>1. ~IsNew(j)
    BY <1>1 DEF IsNew
  <2> QED
    BY <1>3, <2>1 DEF Advances
<1>5. j = i
  <2>1. SUFFICES ASSUME j # i
                 PROVE  FALSE
    OBVIOUS
  <2>2. jobs'[j] = jobs[j]
    BY <1>4, <2>1 DEF Advances
  <2>3. Has(jobs, "ResolveStaticIf", s)
    BY <1>3, <1>4, <2>2 DEF Has
  <2>4. JobFor("ResolveStaticIf", s) = j
    <3>1. JobFor("ResolveStaticIf", s) # 0
      BY <2>3, JobForIs DEF JobForFinds
    <3> QED
      BY <1>2, <3>1, JobForStays
  <2> HIDE DEF j
  <2> QED
    BY <1>1, <2>2, <2>4 DEF ComesTrue, IsDone
<1> HIDE DEF j
<1> QED
  BY <1>1, <1>3, <1>5 DEF Opens, Advances

(* What has come to count is right in that static if.                      *)
LEMMA NewlyReached ==
  ASSUME Structure, NEW i \in DOMAIN jobs, ~IsDone(i), Advances(i),
         NEW f \in Files, NEW s \in StatementsOf(f), IsReached(s)', ~IsReached(s)
  PROVE  /\ jobs[i].kind = "ResolveStaticIf" /\ jobs[i].statement \in StatementsOf(f) /\ Opens(i)
         /\ IsIn(s, jobs[i].statement)
<1>1. program \in Programs /\ jobs \in Seq(Job)
  BY DEF Structure, TypesOK
<1>2. PICK n : IsNth(s, f, n)
  BY <1>1, StatementIs
<1>3. PICK m \in s.within \ {0} : ~ComesTrue(program[f][m])
  BY <1>2 DEF IsReached, IsNth
<1>4. \A k \in s.within \ {0} : \A t : t = program[f][k] => ComesTrue(t)'
  <2>1. program' = program /\ FileOf(s) = f
    BY <1>2 DEF Advances, IsNth
  <2> QED
    BY <2>1, ReachedIsNext DEF ReachedMeans
<1> DEFINE st == program[f]
<1>5. st[m] \in StatementsOf(f) /\ st[m].at = <<f, m>> /\ st[m].within = s.within \cap 0 .. m - 1 /\ m \in Nat
  BY <1>2, <1>3 DEF IsNth
<1>6. jobs[i].kind = "ResolveStaticIf" /\ jobs[i].statement = st[m] /\ Opens(i)
  BY <1>1, <1>3, <1>4, NewlyTrue
<1>7. s.within = st[m].within \cup {m}
  <2>1. SUFFICES ASSUME NEW k \in s.within, k > m
                 PROVE  FALSE
    <3>1. s.within \in SUBSET Nat
      BY <1>2 DEF IsNth
    <3> QED
      BY <1>3, <1>5, <3>1
  <2>2. k \in s.within \ {0} /\ k # m /\ m \in 0 .. k - 1
    <3>1. k \in Nat
      BY <1>2 DEF IsNth
    <3> QED
      BY <1>5, <2>1, <3>1
  <2>3. st[k].at = <<f, k>> /\ FileOf(st[k]) = f /\ m \in st[k].within \ {0}
    BY <1>2, <1>3, <2>2 DEF IsNth, FileOf
  <2>4. ComesTrue(st[k])
    <3>1. ComesTrue(st[k]) \/ jobs[i].statement = st[k]
      BY <1>1, <1>4, <2>2, NewlyTrue
    <3> QED
      BY <1>5, <1>6, <2>2, <2>3, <3>1
  <2>5. IsReached(st[k])
    <3> DEFINE j == JobFor("ResolveStaticIf", st[k])
    <3>1. j # 0
      BY <2>4 DEF ComesTrue
    <3>2. j \in DOMAIN jobs /\ jobs[j].kind = "ResolveStaticIf" /\ jobs[j].statement = st[k]
      BY <1>1, <3>1, JobForIs DEF JobForFinds
    <3> HIDE DEF j
    <3> QED
      BY <3>2 DEF Structure, JobsCount
  <2>6. ComesTrue(st[m])
    BY <2>3, <2>5 DEF IsReached
  <2> QED
    BY <1>3, <2>6
<1>8. FileOf(s) = FileOf(st[m]) /\ st[m].at[2] = m
  BY <1>2, <1>5 DEF IsNth, FileOf
<1> QED
  BY <1>5, <1>6, <1>7, <1>8 DEF IsIn

(* A file that has been parsed now is the job that has gone on.            *)
LEMMA NewlyParsed ==
  ASSUME jobs \in Seq(Job), NEW i \in DOMAIN jobs, ~IsDone(i), Advances(i), NEW f, Parsed(f)', ~Parsed(f)
  PROVE  jobs[i].kind = "ParseFile" /\ jobs[i].statement = Top(f) /\ Opens(i)
<1>1. PICK j \in DOMAIN jobs' : jobs'[j].kind = "ParseFile" /\ jobs'[j].statement = Top(f) /\ jobs'[j].state = "Done"
  BY DEF Parsed, IsDone, Top, Statement
<1>2. j \in DOMAIN jobs
  <2>1. ~IsNew(j)
    BY <1>1 DEF IsNew
  <2> QED
    BY <2>1 DEF Advances
<1>3. j = i
  <2>1. SUFFICES ASSUME j # i
                 PROVE  FALSE
    OBVIOUS
  <2>2. jobs'[j] = jobs[j]
    BY <1>2, <2>1 DEF Advances
  <2> QED
    BY <1>1, <1>2, <2>2 DEF Parsed, IsDone
<1> QED
  BY <1>1, <1>3 DEF Opens, Advances

(* What JobsCount says of one job.                                         *)
CountsAt(k, s) ==
  /\ jobs[k].kind # "ParseFile" => Parsed(FileOf(s)) /\ IsReached(s)
  /\ jobs[k].kind = "GenerateFunction" =>
       \E j \in DOMAIN jobs :
         jobs[j].kind = "ResolveFunctionDeclaration" /\ jobs[j].statement = s /\ IsDone(j)

(* And of all, for jobs before and after a step.                           *)
JobsCountMeans ==
  JobsCount <=> (\A k \in DOMAIN jobs : \A s : s = jobs[k].statement => CountsAt(k, s))

LEMMA JobsCountIs == JobsCountMeans
BY DEF JobsCount, JobsCountMeans, CountsAt

LEMMA JobsCountIsNext == JobsCountMeans'
BY JobsCountIs, PTL

(* The first part of the invariant is kept by every step of a job.         *)
LEMMA StructureStays ==
  ASSUME Structure, NEW i \in DOMAIN jobs, ~IsDone(i), Advances(i)
  PROVE  Structure' /\ Growth
<1>1. program \in Programs /\ jobs \in Seq(Job) /\ JobsAreUnique /\ JobsAreOfStatements
  BY DEF Structure, TypesOK
<1>2. program' = program /\ jobs' \in Seq(Job) /\ Unique(jobs') /\ Growth
  BY <1>1, AdvanceGrows DEF Advances
<1>3. /\ \A s : ComesTrue(s) => ComesTrue(s)'
      /\ \A s : IsReached(s) => IsReached(s)'
      /\ \A f : Parsed(f) => Parsed(f)'
      /\ \A v : IsValue(v) => IsValue(v)'
      /\ \A s : HasJob(jobs, s) => HasJob(jobs', s)
  BY <1>1, <1>2, WhatStays
<1>4. \A k \in DOMAIN jobs' : k \in DOMAIN jobs \/ IsNew(k)
  BY DEF Advances
<1>5. \A k \in DOMAIN jobs :
        /\ k \in DOMAIN jobs'
        /\ jobs'[k].kind = jobs[k].kind /\ jobs'[k].statement = jobs[k].statement
        /\ k # i => jobs'[k] = jobs[k]
  BY <1>2 DEF Growth, Advances
<1>6. TypesOK'
  <2>1. Len(jobs) <= Len(jobs') /\ Len(jobs) \in Nat /\ Len(jobs') \in Nat /\ outcome' = outcome
    BY <1>1, <1>2 DEF Advances
  <2>2. \A n \in 0 .. Len(jobs) : n \in 0 .. Len(jobs')
    BY <2>1
  <2>3. ASSUME NEW k \in DOMAIN jobs'
        PROVE  jobs'[k].waiting_for \in 0 .. Len(jobs')
    <3>1. CASE k \in DOMAIN jobs /\ k # i
      BY <1>5, <2>2, <3>1 DEF Structure, TypesOK
    <3>2. CASE k = i
      BY <2>2, <3>2 DEF Advances
    <3>3. CASE IsNew(k)
      BY <2>1, <3>3 DEF IsNew
    <3> QED
      BY <1>4, <3>1, <3>2, <3>3
  <2> QED
    BY <1>1, <1>2, <2>1, <2>3 DEF Structure, TypesOK
<1>7. JobsAreUnique'
  BY <1>2 DEF Unique, JobsAreUnique
<1>8. \A kind, s : IsJobOf(kind, s) => IsJobOf(kind, s)'
  BY <1>2 DEF IsJobOf, IsStatement, StatementsOf, Top, Statement, JobKind
<1>9. JobsAreOfStatements'
  <2>1. ASSUME NEW k \in DOMAIN jobs'
        PROVE  IsJobOf(jobs'[k].kind, jobs'[k].statement)
    BY <1>1, <1>4, <1>5 DEF JobsAreOfStatements, IsNew
  <2>2. \A k \in DOMAIN jobs' : \A kind, s : kind = jobs'[k].kind /\ s = jobs'[k].statement => IsJobOf(kind, s)'
    BY <1>8, <2>1
  <2>3. \A k \in DOMAIN jobs' : IsJobOf(jobs[k].kind, jobs[k].statement)'
    BY <2>2 DEF IsJobOf, IsStatement
  <2> QED
    BY <2>3 DEF JobsAreOfStatements
<1>10. JobsCount'
  <2>1. ASSUME NEW k \in DOMAIN jobs', NEW s, s = jobs'[k].statement
        PROVE  /\ jobs'[k].kind # "ParseFile" => Parsed(FileOf(s))' /\ IsReached(s)'
               /\ jobs'[k].kind = "GenerateFunction" =>
                    \E j \in DOMAIN jobs' :
                      jobs'[j].kind = "ResolveFunctionDeclaration" /\ jobs'[j].statement = s /\ jobs'[j].state = "Done"
    <3>1. CASE k \in DOMAIN jobs
      <4>1. /\ jobs[k].kind # "ParseFile" => Parsed(FileOf(s)) /\ IsReached(s)
            /\ jobs[k].kind = "GenerateFunction" =>
                 \E j \in DOMAIN jobs :
                   jobs[j].kind = "ResolveFunctionDeclaration" /\ jobs[j].statement = s /\ IsDone(j)
        BY <1>5, <2>1, <3>1 DEF Structure, JobsCount
      <4>2. \A j \in DOMAIN jobs : IsDone(j) => j \in DOMAIN jobs' /\ jobs'[j] = jobs[j]
        BY <1>2 DEF Growth
      <4>3. jobs'[k].kind = jobs[k].kind
        BY <1>5, <3>1
      <4>4. jobs'[k].kind # "ParseFile" => Parsed(FileOf(s))' /\ IsReached(s)'
        BY <1>3, <4>1, <4>3
      <4>5. jobs'[k].kind = "GenerateFunction" =>
                 \E j \in DOMAIN jobs' :
                   jobs'[j].kind = "ResolveFunctionDeclaration" /\ jobs'[j].statement = s /\ jobs'[j].state = "Done"
        BY <4>1, <4>2, <4>3 DEF IsDone
      <4> QED
        BY <4>4, <4>5
    <3>2. CASE IsNew(k)
      BY <1>5, <2>1, <3>2 DEF IsNew
    <3> QED
      BY <1>4, <3>1, <3>2
  <2>2. \A k \in DOMAIN jobs' : \A s : s = jobs'[k].statement => CountsAt(k, s)'
    BY <2>1 DEF CountsAt, IsDone
  <2> QED
    BY <2>2, JobsCountIsNext DEF JobsCountMeans
<1>11. WhatCountsHasJobs'
  <2>1. ASSUME NEW f \in Files, Parsed(f)', NEW s \in StatementsOf(f), IsReached(s)'
        PROVE  HasJob(jobs', s)
    <3>1. PICK n : IsNth(s, f, n)
      BY <1>1, StatementIs
    <3>2. CASE Parsed(f) /\ IsReached(s)
      BY <1>3, <3>2 DEF Structure, WhatCountsHasJobs
    <3>3. CASE ~IsReached(s)
      <4>1. /\ jobs[i].kind = "ResolveStaticIf" /\ jobs[i].statement \in StatementsOf(f) /\ Opens(i)
            /\ IsIn(s, jobs[i].statement)
        BY <2>1, <3>3, NewlyReached
      <4>2. FileOf(jobs[i].statement) = f
        BY <1>1, <4>1, StatementIs DEF IsNth
      <4> QED
        BY <4>1, <4>2 DEF Advances
    <3>4. CASE IsReached(s) /\ ~Parsed(f)
      <4>1. jobs[i].kind = "ParseFile" /\ jobs[i].statement = Top(f) /\ Opens(i)
        BY <1>1, <2>1, <3>4, NewlyParsed
      <4>2. s.within = {0}
        <5>1. SUFFICES ASSUME NEW m \in s.within \ {0}
                       PROVE  FALSE
          BY <3>1 DEF IsNth
        <5> DEFINE t == program[f][m]
                   j == JobFor("ResolveStaticIf", t)
        <5>2. ComesTrue(t) /\ t.at = <<f, m>> /\ FileOf(t) = f
          BY <3>1, <3>4, <5>1 DEF IsReached, IsNth, FileOf
        <5>3. j \in DOMAIN jobs /\ jobs[j].kind = "ResolveStaticIf" /\ jobs[j].statement = t
          BY <1>1, <5>2, JobForIs DEF JobForFinds, ComesTrue
        <5> HIDE DEF j, t
        <5>4. Parsed(f)
          BY <5>2, <5>3 DEF Structure, JobsCount
        <5> QED
          BY <3>4, <5>4
      <4>3. IsIn(s, Top(f)) /\ FileOf(Top(f)) = f
        BY <3>1, <4>2, TopType DEF IsIn, IsNth
      <4> QED
        BY <4>1, <4>3 DEF Advances
    <3> QED
      BY <3>2, <3>3, <3>4
  <2>2. \A f : StatementsOf(f)' = StatementsOf(f)
    BY <1>2 DEF StatementsOf
  <2> QED
    BY <2>1, <2>2 DEF WhatCountsHasJobs
<1>12. ValuesAre'
  <2>1. ASSUME NEW k \in DOMAIN jobs', jobs'[k].state = "Done", jobs'[k].kind # "ParseFile"
        PROVE  IsValue(jobs'[k].value)
    <3>1. CASE k \in DOMAIN jobs /\ k # i
      BY <1>5, <2>1, <3>1 DEF Structure, ValuesAre, IsDone
    <3>2. CASE k = i
      BY <2>1, <3>2 DEF Advances
    <3>3. ~IsNew(k)
      BY <2>1 DEF IsNew
    <3> QED
      BY <1>4, <3>1, <3>2, <3>3
  <2>2. \A k \in DOMAIN jobs' : \A v : jobs'[k].state = "Done" /\ jobs'[k].kind # "ParseFile" /\ v = jobs'[k].value => IsValue(v)'
    BY <1>3, <2>1
  <2> DEFINE V == \A k \in DOMAIN jobs : \A v : jobs[k].state = "Done" /\ jobs[k].kind # "ParseFile" /\ v = jobs[k].value => IsValue(v)
  <2>3. V' <=> ValuesAre'
    BY DEF ValuesAre, IsDone, IsValue, Parsed
  <2> QED
    BY <2>2, <2>3
<1> QED
  BY <1>2, <1>6, <1>7, <1>9, <1>10, <1>11, <1>12 DEF Structure

(***************************************************************************)
(* The steps                                                               *)
(***************************************************************************)

(* What Completed changes.                                                 *)
LEMMA CompletedIs ==
  ASSUME jobs \in Seq(Job), JobsAreUnique, NEW i \in DOMAIN jobs, NEW d \in AnyStatement, NEW v \in AnyStatement
  PROVE  LET to == Completed(i, d, v)
         IN  /\ to \in Seq(Job) /\ Len(to) = Len(jobs) /\ DOMAIN to = DOMAIN jobs
             /\ \A k \in DOMAIN jobs :
                  /\ k # i => to[k] = jobs[k]
                  /\ to[k].kind = jobs[k].kind /\ to[k].statement = jobs[k].statement
             /\ to[i].state = "Done" /\ to[i].value = v /\ to[i].declaration = d
             /\ to[i].waiting_for = jobs[i].waiting_for
             /\ Unique(to)
<1> DEFINE to == Completed(i, d, v)
<1>1. jobs[i] \in Job
  OBVIOUS
<1> DEFINE job == [jobs[i] EXCEPT !.state = "Done", !.declaration = d, !.value = v]
<1>2. /\ job \in Job /\ job.kind = jobs[i].kind /\ job.statement = jobs[i].statement /\ job.waiting_for = jobs[i].waiting_for
      /\ job.state = "Done" /\ job.value = v /\ job.declaration = d
  BY <1>1 DEF Job
<1>3. to = [jobs EXCEPT ![i] = job]
  BY DEF Completed
<1> HIDE DEF job
<1>4. to \in Seq(Job) /\ Len(to) = Len(jobs) /\ DOMAIN to = DOMAIN jobs
  BY <1>2, <1>3
<1>5. \A k \in DOMAIN jobs : to[k] = IF k = i THEN job ELSE jobs[k]
  BY <1>3
<1> HIDE DEF to
<1>6. \A k \in DOMAIN jobs : to[k].kind = jobs[k].kind /\ to[k].statement = jobs[k].statement
  BY <1>2, <1>5
<1>7. Unique(to)
  BY <1>4, <1>6 DEF Unique, JobsAreUnique
<1> QED
  BY <1>2, <1>4, <1>5, <1>6, <1>7 DEF to

(* The job of a file or of a static if, and the statements in that.        *)
LEMMA ScopeAdvances ==
  ASSUME Structure, NEW i \in DOMAIN jobs, ~IsDone(i), NEW d \in AnyStatement, NEW v \in AnyStatement,
         NEW f \in Files, NEW list, list = jobs[i].statement,
         \/ jobs[i].kind = "ParseFile" /\ list = Top(f)
         \/ jobs[i].kind = "ResolveStaticIf" /\ list \in StatementsOf(f) /\ IsTrue(v) /\ IsValue(v),
         jobs' = process_scope(list, Completed(i, d, v)),
         program' = program, outcome' = outcome
  PROVE  Advances(i) /\ jobs'[i].state = "Done" /\ jobs'[i].declaration = d
<1> DEFINE to == Completed(i, d, v)
           st == program[f]
           N == Len(st)
<1>1. program \in Programs /\ jobs \in Seq(Job) /\ JobsAreUnique
  BY DEF Structure, TypesOK
<1>2. /\ to \in Seq(Job) /\ Len(to) = Len(jobs) /\ DOMAIN to = DOMAIN jobs
      /\ \A k \in DOMAIN jobs :
           /\ k # i => to[k] = jobs[k]
           /\ to[k].kind = jobs[k].kind /\ to[k].statement = jobs[k].statement
      /\ to[i].state = "Done" /\ to[i].value = v /\ to[i].declaration = d
      /\ to[i].waiting_for = jobs[i].waiting_for
      /\ Unique(to)
  BY <1>1, CompletedIs
<1>3. FileOf(list) = f
  BY <1>1, TopType, StatementIs DEF IsNth
<1> HIDE DEF to
<1>4. ASSUME NEW s \in StatementsOf(f), IsIn(s, list), s.kind \in DOMAIN JobKind, Has(to, JobKind[s.kind], s)
      PROVE  FALSE
  <2>1. PICK k \in DOMAIN jobs : jobs[k].kind = JobKind[s.kind] /\ jobs[k].statement = s
    BY <1>2, <1>4 DEF Has
  <2>2. JobKind[s.kind] # "ParseFile"
    BY <1>4 DEF JobKind
  <2>3. Parsed(FileOf(s)) /\ IsReached(s)
    BY <2>1, <2>2 DEF Structure, JobsCount
  <2>4. PICK n : IsNth(s, f, n)
    BY <1>1, StatementIs
  <2>5. CASE jobs[i].kind = "ParseFile"
    <3>1. PICK j \in DOMAIN jobs : jobs[j].kind = "ParseFile" /\ jobs[j].statement = Top(f) /\ IsDone(j)
      BY <2>3, <2>4 DEF Parsed, IsNth
    <3>2. jobs[i].statement = Top(f)
      BY <2>5
    <3> QED
      BY <1>1, <2>5, <3>1, <3>2 DEF JobsAreUnique
  <2>6. CASE jobs[i].kind # "ParseFile"
    <3>1. jobs[i].kind = "ResolveStaticIf" /\ list \in StatementsOf(f)
      BY <2>6
    <3>2. PICK m : IsNth(list, f, m)
      BY <1>1, <3>1, StatementIs
    <3>3. m \in s.within \ {0} /\ st[m] = list
      BY <1>4, <3>2 DEF IsIn, IsNth
    <3>4. ComesTrue(list)
      BY <2>3, <2>4, <3>3 DEF IsReached, IsNth
    <3>5. JobFor("ResolveStaticIf", list) = i
      BY <1>1, <3>1, JobForUnique
    <3> QED
      BY <3>4, <3>5 DEF ComesTrue
  <2> QED
    BY <2>5, <2>6
<1>5. \A k \in DOMAIN to : to[k].statement.kind = "file" => to[k].kind = "ParseFile"
  <2>1. ASSUME NEW k \in DOMAIN jobs, jobs[k].kind # "ParseFile"
        PROVE  jobs[k].statement.kind # "file"
    BY <2>1 DEF Structure, JobsAreOfStatements, IsJobOf, JobKind
  <2> QED
    BY <1>2, <2>1
<1>6. Ready(list, to)
  BY <1>2, <1>3, <1>4, <1>5 DEF Ready
<1>7. Built(jobs', N, list, to)
  BY <1>1, <1>3, <1>6, ScopeBuilt DEF to
<1>8. /\ jobs' \in Seq(Job) /\ Unique(jobs') /\ Len(jobs) <= Len(jobs')
      /\ \A k \in DOMAIN jobs : jobs'[k] = to[k]
      /\ \A k \in DOMAIN jobs' \ DOMAIN jobs :
           \E m \in 1 .. N : IsIn(st[m], list) /\ st[m].kind # "using" /\ jobs'[k] = JobOf(st[m])
      /\ \A m \in 1 .. N : IsIn(st[m], list) => HasJob(jobs', st[m])
  <2>1. jobs' \in Seq(Job) /\ Unique(jobs') /\ Len(jobs) <= Len(jobs')
    BY <1>2, <1>7 DEF Built
  <2>2. \A k \in DOMAIN jobs : jobs'[k] = to[k]
    BY <1>2, <1>7 DEF Built
  <2>3. \A k \in DOMAIN jobs' \ DOMAIN jobs :
          \E m \in 1 .. N : IsIn(st[m], list) /\ st[m].kind # "using" /\ jobs'[k] = JobOf(st[m])
    BY <1>2, <1>3, <1>7 DEF Built
  <2>4. \A m \in 1 .. N : IsIn(st[m], list) => HasJob(jobs', st[m])
    BY <1>3, <1>7 DEF Built
  <2> QED
    BY <2>1, <2>2, <2>3, <2>4
<1>9. DOMAIN st = 1 .. N /\ \A m \in 1 .. N : st[m] \in StatementsOf(f) /\ IsNth(st[m], f, m)
  <2>1. DOMAIN st = 1 .. N
    BY <1>1, ProgramIs DEF IsProgram
  <2> QED
    BY <1>1, <2>1, NthStatement
<1>10. i \in DOMAIN jobs' /\ jobs'[i] = to[i]
  <2>1. DOMAIN jobs = 1 .. Len(jobs) /\ DOMAIN jobs' = 1 .. Len(jobs') /\ Len(jobs) \in Nat /\ Len(jobs') \in Nat
    BY <1>1, <1>8
  <2> QED
    BY <1>8, <2>1
<1>11. ASSUME NEW s \in StatementsOf(f), IsIn(s, list)
       PROVE  Parsed(f)' /\ IsReached(s)'
  <2>1. \A j \in DOMAIN jobs : IsDone(j) => j # i /\ j \in DOMAIN jobs' /\ jobs'[j] = jobs[j]
    <3>1. DOMAIN jobs = 1 .. Len(jobs) /\ DOMAIN jobs' = 1 .. Len(jobs') /\ Len(jobs) \in Nat /\ Len(jobs') \in Nat
      BY <1>1, <1>8
    <3>2. DOMAIN jobs \subseteq DOMAIN jobs'
      BY <1>8, <3>1
    <3> QED
      BY <1>2, <1>8, <3>2
  <2>2. Growth
    <3>1. DOMAIN jobs = 1 .. Len(jobs) /\ DOMAIN jobs' = 1 .. Len(jobs') /\ Len(jobs) \in Nat /\ Len(jobs') \in Nat
      BY <1>1, <1>8
    <3>2. DOMAIN jobs \subseteq DOMAIN jobs'
      BY <1>8, <3>1
    <3> QED
      BY <1>2, <1>8, <2>1, <3>2 DEF Growth
  <2>3. Parsed(f)'
    <3>1. CASE jobs[i].kind = "ParseFile"
      <4>1. jobs'[i].kind = "ParseFile" /\ jobs'[i].statement = Top(f) /\ jobs'[i].state = "Done"
        BY <1>2, <1>10, <3>1
      <4> QED
        BY <1>10, <4>1 DEF Parsed, IsDone
    <3>2. CASE jobs[i].kind # "ParseFile"
      <4>1. Parsed(f)
        BY <1>3, <3>2 DEF Structure, JobsCount
      <4> QED
        BY <1>1, <1>8, <2>2, <4>1, WhatStays
    <3> QED
      BY <3>1, <3>2
  <2>4. Counts(list, f)'
    <3>1. CASE list = Top(f)
      BY <3>1 DEF Counts, Top, Statement
    <3>2. CASE list # Top(f)
      <4>1. jobs[i].kind = "ResolveStaticIf" /\ list \in StatementsOf(f) /\ IsTrue(v)
        BY <3>2
      <4>2. IsReached(list)
        BY <4>1 DEF Structure, JobsCount
      <4>3. IsReached(list)'
        BY <1>1, <1>8, <2>2, <4>2, WhatStays
      <4>4. JobFor("ResolveStaticIf", list) = i /\ i # 0
        BY <1>1, <4>1, JobForUnique
      <4>5. JobFor("ResolveStaticIf", list)' = i
        BY <1>1, <1>8, <2>2, <4>4, JobForStays
      <4>6. jobs'[i].state = "Done" /\ IsTrue(jobs'[i].value)
        BY <1>2, <1>10, <4>1
      <4>7. ComesTrue(list)'
        BY <4>4, <4>5, <4>6 DEF ComesTrue, IsDone, IsTrue
      <4>8. list \in StatementsOf(f)'
        BY <4>1 DEF StatementsOf
      <4> QED
        BY <4>3, <4>7, <4>8 DEF Counts
    <3> QED
      BY <3>1, <3>2
  <2>5. s \in StatementsOf(f)' /\ program' \in Programs
    BY <1>1 DEF StatementsOf
  <2> QED
    BY <1>11, <2>3, <2>4, <2>5, ChildReachedNext DEF ChildrenReached
<1>12. ASSUME NEW k \in DOMAIN jobs' \ DOMAIN jobs
       PROVE  IsNew(k)
  <2>1. PICK m \in 1 .. N : IsIn(st[m], list) /\ st[m].kind # "using" /\ jobs'[k] = JobOf(st[m])
    BY <1>8
  <2>2. st[m] \in StatementsOf(f) /\ st[m] \in Statements /\ FileOf(st[m]) = f /\ st[m].file \in Files
    BY <1>9 DEF IsNth, Statements
  <2>3. JobOf(st[m]).state = "Working" /\ JobOf(st[m]).waiting_for = 0
    BY <2>1, <2>2, JobOfIs
  <2>4. CASE st[m].kind = "import"
    <3>1. JobOf(st[m]).kind = "ParseFile" /\ JobOf(st[m]).statement = Top(st[m].file)
      BY <2>1, <2>2, <2>4, JobOfIs
    <3> QED
      BY <2>1, <2>2, <2>3, <3>1 DEF IsNew, IsJobOf
  <2>5. CASE st[m].kind # "import"
    <3>1. st[m].kind \in DOMAIN JobKind /\ JobOf(st[m]).kind = JobKind[st[m].kind] /\ JobOf(st[m]).statement = st[m]
      BY <2>1, <2>2, <2>5, JobOfIs
    <3>2. JobOf(st[m]).kind # "GenerateFunction"
      BY <3>1 DEF JobKind
    <3>3. IsJobOf(JobOf(st[m]).kind, JobOf(st[m]).statement)
      BY <2>2, <3>1 DEF IsJobOf, IsStatement
    <3>4. \A s : s = jobs'[k].statement => Parsed(FileOf(s))' /\ IsReached(s)'
      <4>1. SUFFICES ASSUME NEW s, s = jobs'[k].statement
                     PROVE  Parsed(FileOf(s))' /\ IsReached(s)'
        OBVIOUS
      <4>2. s = st[m] /\ FileOf(s) = f
        BY <2>1, <2>2, <3>1, <4>1
      <4>3. s \in StatementsOf(f) /\ IsIn(s, list)
        BY <2>1, <2>2, <4>2
      <4>4. Parsed(f)' /\ IsReached(s)'
        BY <1>11, <4>3
      <4> QED
        BY <4>2, <4>4 DEF Parsed
    <3> QED
      BY <2>1, <2>3, <3>2, <3>3, <3>4 DEF IsNew
  <2> QED
    BY <2>4, <2>5
<1>13. \A s \in StatementsOf(f) : IsIn(s, list) => HasJob(jobs', s)
  BY <1>8, <1>9 DEF StatementsOf, ToSet
<1>14. jobs'[i].waiting_for \in 0 .. Len(jobs)
  BY <1>2, <1>10 DEF Structure, TypesOK
<1>15. jobs[i].kind # "ParseFile" => IsValue(jobs'[i].value)
  BY <1>2, <1>10
<1>16. jobs'[i].kind = jobs[i].kind /\ jobs'[i].statement = jobs[i].statement /\ \A k \in DOMAIN jobs : k # i => jobs'[k] = jobs[k]
  BY <1>2, <1>8, <1>10
<1> HIDE DEF st, N
<1> QED
  BY <1>2, <1>3, <1>8, <1>10, <1>12, <1>13, <1>14, <1>15, <1>16 DEF Advances

(* A job that brings forth no others.                                      *)
LEMMA AloneAdvances ==
  ASSUME Structure, NEW i \in DOMAIN jobs, ~IsDone(i), NEW job \in Job,
         job.kind = jobs[i].kind, job.statement = jobs[i].statement, job.waiting_for \in 0 .. Len(jobs),
         job.state = "Done" => /\ job.kind # "ParseFile" /\ IsValue(job.value)
                               /\ job.kind = "ResolveStaticIf" => ~IsTrue(job.value),
         jobs' = [jobs EXCEPT ![i] = job], program' = program, outcome' = outcome
  PROVE  Advances(i)
<1>1. jobs \in Seq(Job) /\ JobsAreUnique
  BY DEF Structure, TypesOK
<1>2. jobs' \in Seq(Job) /\ Len(jobs') = Len(jobs) /\ DOMAIN jobs' = DOMAIN jobs
  BY <1>1
<1>3. \A k \in DOMAIN jobs : jobs'[k] = IF k = i THEN job ELSE jobs[k]
  BY <1>1
<1>4. Unique(jobs')
  BY <1>1, <1>2, <1>3 DEF Unique, JobsAreUnique
<1>5. Len(jobs) <= Len(jobs')
  BY <1>1, <1>2
<1> QED
  BY <1>2, <1>3, <1>4, <1>5 DEF Advances, Opens

(* To wait is a step of a job.                                             *)
LEMMA SuspendAdvances ==
  ASSUME Structure, NEW i \in DOMAIN jobs, ~IsDone(i), NEW r, IsResult(r), Suspend(i, r)
  PROVE  Advances(i) /\ jobs'[i].state = "Waiting" /\ r = Wait(jobs'[i].waiting_for) /\ missing' = missing
<1> DEFINE job == [jobs[i] EXCEPT !.state = "Waiting", !.waiting_for = r.job]
<1>1. jobs \in Seq(Job) /\ jobs[i] \in Job
  BY DEF Structure, TypesOK
<1>2. r = Wait(r.job) /\ r.job \in DOMAIN jobs
  BY ResultTags DEF Suspend
<1>3. r.job \in 0 .. Len(jobs) /\ r.job \in Nat
  BY <1>1, <1>2
<1>4. /\ job \in Job /\ job.kind = jobs[i].kind /\ job.statement = jobs[i].statement /\ job.waiting_for = r.job
      /\ job.state = "Waiting" /\ job.state # "Done"
  BY <1>1, <1>3 DEF Job
<1>5. jobs' = [jobs EXCEPT ![i] = job]
  BY <1>1 DEF Suspend
<1> HIDE DEF job
<1>6. Advances(i)
  BY <1>3, <1>4, <1>5, AloneAdvances DEF Suspend
<1>7. jobs'[i] = job
  BY <1>1, <1>5
<1> QED
  BY <1>2, <1>4, <1>6, <1>7 DEF Suspend

(* To be done is a step of a job.                                          *)
LEMMA CompletionAdvances ==
  ASSUME Structure, NEW i \in DOMAIN jobs, ~IsDone(i), NEW d \in AnyStatement, NEW v, IsValue(v),
         jobs[i].kind # "ParseFile", jobs[i].kind = "ResolveStaticIf" => ~IsTrue(v),
         jobs' = Completed(i, d, v), program' = program, outcome' = outcome
  PROVE  Advances(i)
<1>1. jobs \in Seq(Job) /\ JobsAreUnique /\ jobs[i] \in Job /\ v \in AnyStatement
  BY DEF Structure, TypesOK, IsValue
<1> DEFINE job == [jobs[i] EXCEPT !.state = "Done", !.declaration = d, !.value = v]
<1>2. /\ job \in Job /\ job.kind = jobs[i].kind /\ job.statement = jobs[i].statement /\ job.waiting_for = jobs[i].waiting_for
      /\ job.value = v
  BY <1>1 DEF Job
<1>3. jobs' = [jobs EXCEPT ![i] = job]
  BY DEF Completed
<1>4. job.waiting_for \in 0 .. Len(jobs)
  BY <1>2 DEF Structure, TypesOK
<1> HIDE DEF job
<1> QED
  BY <1>2, <1>3, <1>4, AloneAdvances

(* The body of a function is generated once its type is known.             *)
LEMMA FunctionAdvances ==
  ASSUME Structure, NEW i \in DOMAIN jobs, ~IsDone(i), ResolveFunctionDeclaration(i)
  PROVE  Advances(i) /\ missing' = missing /\ jobs'[i].state = "Done"
<1> DEFINE s == jobs[i].statement
           to == Completed(i, None, s)
           job == NewJob("GenerateFunction", s)
<1>1. jobs \in Seq(Job) /\ JobsAreUnique /\ program \in Programs /\ jobs[i].kind = "ResolveFunctionDeclaration"
  BY DEF Structure, TypesOK, ResolveFunctionDeclaration, Selected
<1>2. IsStatement(s) /\ s.kind = "function"
  BY <1>1 DEF Structure, JobsAreOfStatements, IsJobOf, JobKind
<1>3. s \in AnyStatement
  BY <1>1, <1>2, StatementIs, StatementsType DEF IsStatement, IsNth
<1>4. None \in AnyStatement
  BY NoneType
<1>5. /\ to \in Seq(Job) /\ Len(to) = Len(jobs) /\ DOMAIN to = DOMAIN jobs
      /\ \A k \in DOMAIN jobs :
           /\ k # i => to[k] = jobs[k]
           /\ to[k].kind = jobs[k].kind /\ to[k].statement = jobs[k].statement
      /\ to[i].state = "Done" /\ to[i].value = s
      /\ to[i].waiting_for = jobs[i].waiting_for
      /\ Unique(to)
  BY <1>1, <1>3, <1>4, CompletedIs
<1>6. job \in Job /\ job.kind = "GenerateFunction" /\ job.statement = s /\ job.state = "Working" /\ job.waiting_for = 0
  <2>1. "GenerateFunction" \in Kinds
    BY DEF Kinds
  <2> QED
    BY <1>3, <2>1, NewJobIs
<1>7. jobs' = Append(to, job) /\ program' = program /\ outcome' = outcome /\ missing' = missing
  BY DEF ResolveFunctionDeclaration
<1> HIDE DEF to, job
<1>8. ~Has(to, job.kind, job.statement)
  <2>1. SUFFICES ASSUME NEW k \in DOMAIN jobs, jobs[k].kind = "GenerateFunction", jobs[k].statement = s
                 PROVE  FALSE
    BY <1>5, <1>6 DEF Has
  <2>2. PICK j \in DOMAIN jobs : jobs[j].kind = "ResolveFunctionDeclaration" /\ jobs[j].statement = s /\ IsDone(j)
    BY <2>1 DEF Structure, JobsCount
  <2> QED
    BY <1>1, <2>2 DEF JobsAreUnique
<1>9. Unique(jobs')
  BY <1>5, <1>6, <1>7, <1>8, AppendBuilt
<1>10. /\ jobs' \in Seq(Job) /\ Len(jobs') = Len(jobs) + 1 /\ DOMAIN jobs' = 1 .. Len(jobs) + 1 /\ DOMAIN jobs = 1 .. Len(jobs)
       /\ \A k \in 1 .. Len(jobs) : jobs'[k] = to[k]
       /\ jobs'[Len(jobs) + 1] = job
  BY <1>5, <1>6, <1>7, AppendIs
<1>11. Len(jobs) <= Len(jobs') /\ \A k \in DOMAIN jobs' \ DOMAIN jobs : k = Len(jobs) + 1
  <2>1. Len(jobs) \in Nat
    BY <1>1
  <2> QED
    BY <1>10, <2>1
<1>12. \A k \in DOMAIN jobs : /\ k # i => jobs'[k] = jobs[k]
                            /\ jobs'[k].kind = jobs[k].kind /\ jobs'[k].statement = jobs[k].statement
  BY <1>5, <1>10
<1>13. jobs'[i].state = "Done" /\ jobs'[i].value = s /\ jobs'[i].waiting_for \in 0 .. Len(jobs)
  BY <1>5, <1>10 DEF Structure, TypesOK
<1>14. IsValue(s)
  BY <1>2, <1>3 DEF IsValue, ValueKinds
<1>15. Growth
  <2>1. \A k \in DOMAIN jobs : k \in DOMAIN jobs' /\ (IsDone(k) => k # i)
    <3>1. Len(jobs) \in Nat
      BY <1>1
    <3>2. DOMAIN jobs \subseteq DOMAIN jobs'
      BY <1>10, <3>1
    <3> QED
      BY <3>2
  <2> QED
    BY <1>7, <1>12, <2>1 DEF Growth
<1>16. \A k \in DOMAIN jobs' \ DOMAIN jobs : IsNew(k)
  <2>1. SUFFICES ASSUME NEW k, jobs'[k] = job
                 PROVE  IsNew(k)
    BY <1>10, <1>11
  <2>2. Parsed(FileOf(s)) /\ IsReached(s)
    BY <1>1 DEF Structure, JobsCount
  <2>3. \A t : t = s => Parsed(FileOf(t))' /\ IsReached(t)'
    BY <1>1, <1>9, <1>10, <1>15, <2>2, WhatStays
  <2>4. IsJobOf("GenerateFunction", s)
    BY <1>2 DEF IsJobOf
  <2>5. jobs'[i].kind = "ResolveFunctionDeclaration" /\ jobs'[i].statement = s
    BY <1>1, <1>12
  <2> HIDE DEF s
  <2> QED
    BY <1>6, <1>13, <2>1, <2>3, <2>4, <2>5 DEF IsNew
<1> HIDE DEF s
<1> QED
  BY <1>1, <1>7, <1>9, <1>10, <1>11, <1>12, <1>13, <1>14, <1>16 DEF Advances

(* What a job that has gone on has found out.                              *)
Unnamed == {"ParseFile", "ResolveFunctionDeclaration", "GenerateStaticVariable"}

(* A job that is done now, or waits, has said what its expression means.   *)
Answers(i) ==
  /\ jobs'[i].state = "Done" /\ jobs[i].kind \notin Unnamed =>
       Meaning(i).tag = "found" /\ jobs'[i].declaration = Meaning(i).declaration
  /\ jobs'[i].state = "Waiting" => Meaning(i) = Wait(jobs'[i].waiting_for)

(* The steps of jobs.                                                      *)
GoesOn(i) ==
  ~IsDone(i) /\ Advances(i) /\ Answers(i) /\ missing' = missing

(* The end of the compiler, and the steps after it.                        *)
Halts ==
  /\ program' = program /\ jobs' = jobs
  /\ outcome' \in {outcome, "done", "circular", "error", "missing", "diverges"} /\ outcome' # "running"
  /\ missing' \in {missing, {}} \cup {{q} : q \in Failed}

(* A failure is an end.                                                    *)
LEMMA FailHalts ==
  ASSUME NEW r, IsResult(r), Fail(r)
  PROVE  Halts
<1>1. r.tag \in {"error", "missing", "diverges"}
  BY ResultTags DEF Fail
<1>2. r.tag = "missing" => r.query \in Failed
  BY ResultTags
<1> QED
  BY <1>1, <1>2 DEF Fail, Halts

(* The result of a job that was not done yet.                              *)
LEMMA SuspendGoesOn ==
  ASSUME Structure, NEW i \in DOMAIN jobs, ~IsDone(i), NEW r, IsResult(r), r.tag = "wait" => r = Meaning(i),
         Suspend(i, r)
  PROVE  GoesOn(i)
<1>1. /\ Advances(i) /\ jobs'[i].state = "Waiting" /\ r = Wait(jobs'[i].waiting_for) /\ missing' = missing
  BY SuspendAdvances
<1>2. r = Meaning(i)
  BY DEF Suspend
<1> QED
  BY <1>1, <1>2 DEF GoesOn, Answers

(* A handler runs for a job of its kind that is not done.                  *)
LEMMA SelectedIs ==
  ASSUME NEW i, NEW kind, Selected(i, kind)
  PROVE  jobs[i].kind = kind /\ ~IsDone(i)
BY DEF Selected, Runnable, IsDone

(* The steps of the handlers: one that is done,                            *)
LEMMA CompletionGoesOn ==
  ASSUME Structure, NEW i \in DOMAIN jobs, ~IsDone(i), NEW d \in AnyStatement, NEW v, IsValue(v),
         jobs[i].kind # "ParseFile", jobs[i].kind = "ResolveStaticIf" => ~IsTrue(v),
         jobs[i].kind \in Unnamed \/ (Meaning(i).tag = "found" /\ d = Meaning(i).declaration),
         jobs' = Completed(i, d, v), UNCHANGED <<program, outcome, missing>>
  PROVE  GoesOn(i)
<1>1. program' = program /\ outcome' = outcome /\ missing' = missing
  OBVIOUS
<1>2. Advances(i)
  BY <1>1, CompletionAdvances
<1>3. jobs'[i].state = "Done" /\ jobs'[i].declaration = d
  <2>1. jobs \in Seq(Job) /\ JobsAreUnique /\ v \in AnyStatement
    BY DEF Structure, TypesOK, IsValue
  <2> QED
    BY <2>1, CompletedIs
<1> QED
  BY <1>1, <1>2, <1>3 DEF GoesOn, Answers

(* one of an expression,                                                   *)
LEMMA EvaluatedGoesOn ==
  ASSUME Structure, NEW i \in DOMAIN jobs, ~IsDone(i), jobs[i].kind # "ParseFile", jobs[i].kind # "ResolveStaticIf",
         Evaluated(i, Meaning(i))
  PROVE  GoesOn(i) \/ Halts
<1> DEFINE r == Meaning(i)
<1>1. IsResult(r)
  BY MeaningResult
<1>2. CASE Suspend(i, r)
  BY <1>1, <1>2, SuspendGoesOn
<1>3. CASE Fail(r)
  BY <1>1, <1>3, FailHalts
<1>4. CASE /\ r.tag = "found"
           /\ jobs' = Completed(i, r.declaration, r.value)
           /\ UNCHANGED <<program, outcome, missing>>
  <2>1. r.declaration \in AnyStatement /\ IsValue(r.value)
    BY <1>1, <1>4, ResultTags
  <2> QED
    BY <1>4, <2>1, CompletionGoesOn
<1> QED
  BY <1>2, <1>3, <1>4 DEF Evaluated

(* one that wants an expression of a type,                                 *)
LEMMA OfTypeIs ==
  ASSUME NEW r, IsResult(r), NEW type
  PROVE  /\ IsResult(OfType(type, r))
         /\ OfType(type, r).tag \in {"wait", "found"} => OfType(type, r) = r
<1>1. IsResult(Error) /\ Error.tag = "error"
  BY Tags DEF IsResult
<1> QED
  BY <1>1 DEF OfType

(* that of a static if,                                                    *)
LEMMA DecidedGoesOn ==
  ASSUME Structure, NEW i \in DOMAIN jobs, ~IsDone(i), jobs[i].kind = "ResolveStaticIf",
         Decided(i, OfType("Boolean", Meaning(i)))
  PROVE  GoesOn(i) \/ Halts
<1> DEFINE r == OfType("Boolean", Meaning(i))
<1>1. IsResult(r) /\ (r.tag \in {"wait", "found"} => r = Meaning(i))
  BY MeaningResult, OfTypeIs
<1> HIDE DEF r
<1>2. CASE Suspend(i, r)
  BY <1>1, <1>2, SuspendGoesOn
<1>3. CASE Fail(r)
  BY <1>1, <1>3, FailHalts
<1>4. CASE /\ r.tag = "found"
           /\ jobs' = LET completed == Completed(i, r.declaration, r.value)
                      IN  IF IsTrue(r.value) THEN process_scope(jobs[i].statement, completed) ELSE completed
           /\ UNCHANGED <<program, outcome, missing>>
  <2>1. r.declaration \in AnyStatement /\ IsValue(r.value) /\ r.value \in AnyStatement /\ r = Meaning(i)
    BY <1>1, <1>4, ResultTags DEF IsValue
  <2>2. CASE ~IsTrue(r.value)
    <3>1. jobs' = Completed(i, r.declaration, r.value)
      BY <1>4, <2>2
    <3>2. Meaning(i).tag = "found" /\ r.declaration = Meaning(i).declaration
      BY <1>4, <2>1
    <3> QED
      BY <1>4, <2>1, <2>2, <3>1, <3>2, CompletionGoesOn
  <2>3. CASE IsTrue(r.value)
    <3> DEFINE s == jobs[i].statement
    <3>1. jobs' = process_scope(s, Completed(i, r.declaration, r.value)) /\ program' = program /\ outcome' = outcome
          /\ missing' = missing
      BY <1>4, <2>3
    <3>2. PICK f \in Files : s \in StatementsOf(f)
      BY DEF Structure, JobsAreOfStatements, IsJobOf, IsStatement
    <3>3. Advances(i) /\ jobs'[i].state = "Done" /\ jobs'[i].declaration = r.declaration
      BY <2>1, <2>3, <3>1, <3>2, ScopeAdvances
    <3> QED
      BY <1>4, <2>1, <3>1, <3>3 DEF GoesOn, Answers
  <2> QED
    BY <2>2, <2>3
<1> QED
  BY <1>2, <1>3, <1>4 DEF Decided, r

(* and that of an enum.                                                    *)
LEMMA DefinedGoesOn ==
  ASSUME Structure, NEW i \in DOMAIN jobs, ~IsDone(i), jobs[i].kind = "ResolveEnumDefinition",
         NEW r, IsResult(r), r.tag \in {"wait", "found"} => r = Meaning(i), Defined(i, r)
  PROVE  GoesOn(i) \/ Halts
<1>1. CASE Suspend(i, r)
  <2>1. r.tag = "wait" => r = Meaning(i)
    OBVIOUS
  <2> QED
    BY <1>1, <2>1, SuspendGoesOn
<1>2. CASE Fail(r)
  BY <1>2, FailHalts
<1>3. CASE /\ r.tag = "found"
           /\ jobs' = Completed(i, r.declaration, jobs[i].statement)
           /\ UNCHANGED <<program, outcome, missing>>
  <2> DEFINE s == jobs[i].statement
  <2>1. r.declaration \in AnyStatement /\ r = Meaning(i)
    BY <1>3, ResultTags
  <2>2. IsStatement(s) /\ s.kind = "enum" /\ program \in Programs
    BY DEF Structure, TypesOK, JobsAreOfStatements, IsJobOf, JobKind
  <2>3. s \in AnyStatement
    BY <2>2, StatementIs, StatementsType DEF IsStatement, IsNth
  <2>4. IsValue(s)
    BY <2>2, <2>3 DEF IsValue, ValueKinds
  <2> HIDE DEF s
  <2>5. Meaning(i).tag = "found" /\ r.declaration = Meaning(i).declaration
    BY <1>3, <2>1
  <2> QED
    BY <1>3, <2>1, <2>4, <2>5, CompletionGoesOn DEF s
<1> QED
  BY <1>1, <1>2, <1>3 DEF Defined

(* Every step is one job that goes on, or the end.                         *)
LEMMA StepIs ==
  ASSUME Structure, Next
  PROVE  (\E i \in DOMAIN jobs : GoesOn(i)) \/ Halts
<1>1. ASSUME NEW i \in DOMAIN jobs, ParseFile(i)
      PROVE  GoesOn(i)
  <2>1. jobs[i].kind = "ParseFile" /\ ~IsDone(i)
    BY <1>1, SelectedIs DEF ParseFile
  <2>2. PICK f \in Files : jobs[i].statement = Top(f)
    BY <2>1 DEF Structure, JobsAreOfStatements, IsJobOf, JobKind
  <2>3. jobs' = process_scope(jobs[i].statement, Completed(i, None, None)) /\ program' = program /\ outcome' = outcome
        /\ missing' = missing
    BY <1>1 DEF ParseFile
  <2>4. Advances(i) /\ jobs'[i].state = "Done"
    BY <2>1, <2>2, <2>3, NoneType, ScopeAdvances
  <2> QED
    BY <2>1, <2>3, <2>4 DEF GoesOn, Answers, Unnamed
<1>2. ASSUME NEW i \in DOMAIN jobs, ResolveConstantDefinition(i)
      PROVE  GoesOn(i) \/ Halts
  <2>1. jobs[i].kind = "ResolveConstantDefinition" /\ ~IsDone(i) /\ Evaluated(i, Meaning(i))
    BY <1>2, SelectedIs DEF ResolveConstantDefinition
  <2> QED
    BY <2>1, EvaluatedGoesOn
<1>3. ASSUME NEW i \in DOMAIN jobs, ResolveStaticIf(i)
      PROVE  GoesOn(i) \/ Halts
  <2>1. jobs[i].kind = "ResolveStaticIf" /\ ~IsDone(i) /\ Decided(i, OfType("Boolean", Meaning(i)))
    BY <1>3, SelectedIs DEF ResolveStaticIf
  <2> QED
    BY <2>1, DecidedGoesOn
<1>4. ASSUME NEW i \in DOMAIN jobs, ResolveEnumDefinition(i)
      PROVE  GoesOn(i) \/ Halts
  <2> DEFINE s == jobs[i].statement
  <2>1. jobs[i].kind = "ResolveEnumDefinition" /\ ~IsDone(i)
    BY <1>4, SelectedIs DEF ResolveEnumDefinition
  <2>2. CASE s.ref = <<>>
    <3>1. Defined(i, Found(s, s)) /\ Meaning(i) = Found(s, s)
      BY <1>4, <2>2 DEF ResolveEnumDefinition, Meaning
    <3>2. IsResult(Meaning(i))
      BY <2>1, MeaningResult
    <3> QED
      BY <2>1, <3>1, <3>2, DefinedGoesOn
  <2>3. CASE s.ref # <<>>
    <3>1. Defined(i, OfType("Integer", Meaning(i)))
      BY <1>4, <2>3 DEF ResolveEnumDefinition
    <3>2. IsResult(OfType("Integer", Meaning(i))) /\
          (OfType("Integer", Meaning(i)).tag \in {"wait", "found"} => OfType("Integer", Meaning(i)) = Meaning(i))
      BY <2>1, MeaningResult, OfTypeIs
    <3> QED
      BY <2>1, <3>1, <3>2, DefinedGoesOn
  <2> QED
    BY <2>2, <2>3
<1>5. ASSUME NEW i \in DOMAIN jobs, ResolveFunctionDeclaration(i)
      PROVE  GoesOn(i)
  <2>1. jobs[i].kind = "ResolveFunctionDeclaration" /\ ~IsDone(i)
    BY <1>5, SelectedIs DEF ResolveFunctionDeclaration
  <2>2. Advances(i) /\ missing' = missing /\ jobs'[i].state = "Done"
    BY <1>5, <2>1, FunctionAdvances
  <2> QED
    BY <2>1, <2>2 DEF GoesOn, Answers, Unnamed
<1>6. ASSUME NEW i \in DOMAIN jobs, GenerateFunction(i)
      PROVE  GoesOn(i) \/ Halts
  <2>1. jobs[i].kind = "GenerateFunction" /\ ~IsDone(i) /\ Evaluated(i, Meaning(i))
    BY <1>6, SelectedIs DEF GenerateFunction
  <2> QED
    BY <2>1, EvaluatedGoesOn
<1>7. ASSUME NEW i \in DOMAIN jobs, GenerateStaticVariable(i)
      PROVE  GoesOn(i)
  <2> DEFINE s == jobs[i].statement
  <2>1. jobs[i].kind = "GenerateStaticVariable" /\ ~IsDone(i)
    BY <1>7, SelectedIs DEF GenerateStaticVariable
  <2>2. IsStatement(s) /\ s.kind = "variable" /\ program \in Programs
    BY <2>1 DEF Structure, TypesOK, JobsAreOfStatements, IsJobOf, JobKind
  <2>3. s \in AnyStatement
    BY <2>2, StatementIs, StatementsType DEF IsStatement, IsNth
  <2>4. IsValue(s)
    BY <2>2, <2>3 DEF IsValue, ValueKinds
  <2>5. jobs' = Completed(i, None, s) /\ UNCHANGED <<program, outcome, missing>>
    BY <1>7 DEF GenerateStaticVariable
  <2>6. jobs[i].kind \in Unnamed
    BY <2>1 DEF Unnamed
  <2> HIDE DEF s
  <2> QED
    BY <2>1, <2>4, <2>5, <2>6, NoneType, CompletionGoesOn
<1>8. CASE Report
  BY <1>8 DEF Report, Halts
<1>9. CASE Ended
  BY <1>9 DEF Ended, Halts, vars
<1> QED
  BY <1>1, <1>2, <1>3, <1>4, <1>5, <1>6, <1>7, <1>8, <1>9 DEF Next

(***************************************************************************)
(* What searches come to stays so                                          *)
(***************************************************************************)

(* A result stays, unless it was to wait for a job that is done now.       *)
Persists(r, t) ==
  t = r \/ (r.tag = "wait" /\ r.job \in DOMAIN jobs /\ jobs'[r.job].state = "Done")

(* Searches that see no variables in static ifs.                           *)
Safe(q) == q.runtime => ~IsConditionalVariable(q.name)

(* All searches that are made persist.                                     *)
AllPersist(search, later) == \A q \in Known : Safe(q) => Persists(search[q], later[q])

(* From searches to what is opened,                                        *)
LEMMA SearchInPersists ==
  ASSUME Structure, NEW search, NEW later, Good(search), AllPersist(search, later),
         NEW q \in Known, Safe(q), NEW object, IsResult(object), NEW t, Persists(object, t)
  PROVE  Persists(SearchIn(q, object, search), SearchIn(q, t, later))
<1>1. CASE object.tag # "found"
  <2>1. SearchIn(q, object, search) = object
    BY <1>1 DEF SearchIn
  <2>2. t = object => SearchIn(q, t, later) = object
    BY <1>1 DEF SearchIn
  <2> QED
    BY <2>1, <2>2 DEF Persists
<1>2. CASE object.tag = "found"
  <2> DEFINE v == object.value
             sub == Query(q.name, v.file, TRUE, q.runtime, NoPlace)
  <2>1. t = object
    BY <1>2 DEF Persists
  <2>2. CASE Type(v) = "FileModule"
    <3>1. IsValue(v) /\ v.kind = "import"
      BY <1>2, <2>2, ResultTags, ValueTypes
    <3>2. Parsed(v.file) /\ v.file \in Files
      BY <3>1 DEF IsValue, AnyStatement
    <3>3. program \in Programs /\ q.name \in Names /\ q.runtime \in BOOLEAN
      BY KnownIs DEF Structure, TypesOK
    <3>4. sub \in Known
      BY <3>2, <3>3, ModuleKnown
    <3>5. sub.name = q.name /\ sub.runtime = q.runtime
      BY DEF Query
    <3> HIDE DEF sub
    <3>6. Persists(search[sub], later[sub])
      BY <3>4, <3>5 DEF AllPersist, Safe
    <3>7. /\ SearchIn(q, object, search) = IF search[sub] = Stopped THEN Nothing ELSE search[sub]
          /\ SearchIn(q, object, later) = IF later[sub] = Stopped THEN Nothing ELSE later[sub]
      BY <1>2, <2>2 DEF SearchIn, SearchModule, sub
    <3> QED
      BY <2>1, <3>6, <3>7, Tags DEF Persists
  <2>3. CASE Type(v) # "FileModule"
    <3>1. SearchIn(q, object, search) = SearchIn(q, object, later)
      BY <1>2, <2>3 DEF SearchIn
    <3> QED
      BY <2>1, <3>1 DEF Persists
  <2> QED
    BY <2>2, <2>3
<1> QED
  BY <1>1, <1>2

(* to names,                                                               *)
LEMMA EvaluateNamePersists ==
  ASSUME NEW search, NEW later, AllPersist(search, later), NEW q \in Known, Safe(q)
  PROVE  Persists(EvaluateName(q, search), EvaluateName(q, later))
<1>1. Persists(search[q], later[q])
  BY DEF AllPersist
<1>2. CASE later[q] = search[q]
  BY <1>2 DEF Persists, EvaluateName
<1>3. CASE search[q].tag = "wait"
  <2>1. EvaluateName(q, search) = search[q]
    BY <1>3 DEF EvaluateName, OrGlobalConstant
  <2>2. later[q] = search[q] => EvaluateName(q, later) = search[q]
    BY <2>1 DEF EvaluateName
  <2> QED
    BY <1>1, <2>1, <2>2 DEF Persists
<1> QED
  BY <1>1, <1>2, <1>3 DEF Persists

(* to expressions,                                                         *)
LEMMA EvaluatePersists ==
  ASSUME Structure, NEW search, NEW later, Good(search), AllPersist(search, later),
         NEW q \in Known, ~q.external, NEW ref \in Seq(Names), ref # <<>>,
         q.runtime => \A n \in DOMAIN ref : ~IsConditionalVariable(ref[n])
  PROVE  Persists(Evaluate(q, ref, search), Evaluate(q, ref, later))
<1> DEFINE first == [q EXCEPT !.name = ref[1]]
           second == [q EXCEPT !.name = ref[2]]
           object == EvaluateName(first, search)
           t == EvaluateName(first, later)
<1>0. /\ 1 \in DOMAIN ref /\ ref[1] \in Names
      /\ Len(ref) # 1 => 2 \in DOMAIN ref /\ ref[2] \in Names
  <2>1. /\ Len(ref) \in Nat /\ Len(ref) # 0 /\ DOMAIN ref = 1 .. Len(ref)
        /\ \A n \in 1 .. Len(ref) : ref[n] \in Names
    OBVIOUS
  <2>2. \A n \in Nat : n # 0 => 1 \in 1 .. n /\ (n # 1 => 2 \in 1 .. n)
    OBVIOUS
  <2> QED
    BY <2>1, <2>2
<1>1. first \in Known /\ ~first.external /\ Safe(first)
  BY <1>0, RenamedKnown DEF Safe
<1>2. Len(ref) # 1 => second \in Known /\ Safe(second)
  BY <1>0, RenamedKnown DEF Safe
<1> HIDE DEF first, second
<1>3. IsResult(object) /\ Persists(object, t)
  BY <1>1, EvaluateNameResult, EvaluateNamePersists
<1> HIDE DEF object, t
<1>4. CASE Len(ref) = 1
  BY <1>3, <1>4 DEF Evaluate, object, t, first
<1>5. CASE Len(ref) # 1
  <2> DEFINE r == SearchIn(second, object, search)
             u == SearchIn(second, t, later)
  <2>1. Persists(r, u)
    BY <1>2, <1>3, <1>5, SearchInPersists
  <2>2. Evaluate(q, ref, search) = OrError(r) /\ Evaluate(q, ref, later) = OrError(u)
    BY <1>5 DEF Evaluate, object, t, first, second
  <2> HIDE DEF r, u
  <2> QED
    BY <2>1, <2>2, Tags DEF OrError, Persists
<1> QED
  BY <1>4, <1>5

(* and to usings.                                                          *)
LEMMA OpenPersists ==
  ASSUME Structure, NEW search, NEW later, Good(search), AllPersist(search, later),
         NEW q \in Known, Safe(q), NEW s \in StatementsOf(q.file), IsReached(s), s.kind = "using"
  PROVE  Persists(Open(q, s, search), Open(q, s, later))
<1> DEFINE ignore == IF q.runtime THEN NoPlace ELSE s.at
           operand == Query("", FileOf(s), FALSE, FALSE, ignore)
<1>1. program \in Programs /\ q.file \in Files /\ Parsed(q.file)
  BY KnownIs DEF Structure, TypesOK
<1>2. PICK n : IsNth(s, q.file, n)
  BY <1>1, StatementIs
<1>3. s.ref \in Seq(Names) /\ s.ref # <<>> /\ FileOf(s) = q.file
  BY <1>2 DEF IsNth, Statements
<1>4. operand \in Known /\ operand.external = FALSE /\ operand.runtime = FALSE
  <2>1. ignore = NoPlace \/ ignore = s.at
    OBVIOUS
  <2> HIDE DEF ignore
  <2> QED
    BY <1>1, <1>3, <2>1, OperandKnown
<1> HIDE DEF operand
<1>5. IsResult(Evaluate(operand, s.ref, search))
  BY <1>3, <1>4, EvaluateResult
<1>6. Persists(Evaluate(operand, s.ref, search), Evaluate(operand, s.ref, later))
  BY <1>3, <1>4, EvaluatePersists
<1> QED
  BY <1>5, <1>6, SearchInPersists DEF Open, operand

(* A step of the program.                                                  *)
Later == Structure /\ Structure' /\ Growth

(* What is known of two such states.                                       *)
LEMMA LaterIs ==
  ASSUME Later
  PROVE  /\ program \in Programs /\ program' = program /\ jobs \in Seq(Job) /\ JobsAreUnique
         /\ jobs' \in Seq(Job) /\ Unique(jobs')
         /\ \A s : ComesTrue(s) => ComesTrue(s)'
         /\ \A s : IsReached(s) => IsReached(s)'
         /\ \A f : Parsed(f) => Parsed(f)'
         /\ \A kind, s : JobFor(kind, s) # 0 => JobFor(kind, s)' = JobFor(kind, s)
<1>1. /\ program \in Programs /\ program' = program /\ jobs \in Seq(Job) /\ JobsAreUnique
      /\ jobs' \in Seq(Job) /\ Unique(jobs') /\ Growth
  BY DEF Later, Structure, TypesOK, Growth, Unique, JobsAreUnique
<1>2. \A kind, s : JobFor(kind, s) # 0 => JobFor(kind, s)' = JobFor(kind, s)
  BY <1>1, JobForStays
<1> QED
  BY <1>1, <1>2, WhatStays

(* The job of what counts is the same.                                     *)
LEMMA DeclarationPersists ==
  ASSUME Later, NEW f \in Files, Parsed(f), NEW s \in StatementsOf(f), IsReached(s), Declares(s)
  PROVE  Persists(get_simple_resolved_declaration(s), get_simple_resolved_declaration(s)')
<1> DEFINE i == IF s.kind = "import" THEN JobFor("ParseFile", Top(s.file)) ELSE JobFor(JobKind[s.kind], s)
<1>1. HasJob(jobs, s) /\ jobs \in Seq(Job)
  BY DEF Later, Structure, TypesOK, WhatCountsHasJobs
<1>2. s.kind # "import" => s.kind \in DOMAIN JobKind
  BY DEF Declares, JobKind
<1>3. i # 0 /\ i \in DOMAIN jobs
  BY <1>1, <1>2, JobForIs DEF JobForFinds, HasJob
<1>4. i' = i
  BY <1>3, LaterIs DEF Top, Statement, JobKind
<1>5. get_simple_resolved_declaration(s) = IF IsDone(i) THEN Found(s, IF s.kind = "import" THEN s ELSE jobs[i].value)
                                           ELSE Wait(i)
  BY <1>3 DEF get_simple_resolved_declaration
<1>6. get_simple_resolved_declaration(s)' = IF jobs'[i].state = "Done" THEN Found(s, IF s.kind = "import" THEN s ELSE jobs'[i].value)
                                           ELSE Wait(i)
  <2>1. get_simple_resolved_declaration(s)' = IF jobs'[i'].state = "Done" THEN Found(s, IF s.kind = "import" THEN s ELSE jobs'[i'].value)
                                              ELSE Wait(i')
    <3>1. i' # 0
      BY <1>3, <1>4
    <3> QED
      BY <3>1 DEF get_simple_resolved_declaration, IsDone
  <2> HIDE DEF i
  <2> QED
    BY <1>4, <2>1
<1>7. IsDone(i) => jobs'[i] = jobs[i]
  BY <1>3 DEF Later, Growth
<1> HIDE DEF i
<1> QED
  BY <1>3, <1>5, <1>6, <1>7, Tags DEF Persists, IsDone

(* What a search of declarations comes to, before and after a step.        *)
DeclarationsMean ==
  \A q, list, d : d = Declaration(list, q.name) =>
    SearchDeclarations(q, list) =
      IF d = None \/ d.at = q.ignore THEN Nothing
      ELSE IF q.external /\ list.kind = "file" /\ ~is_declaration_public(d) THEN Stopped
      ELSE get_simple_resolved_declaration(d)

LEMMA DeclarationsAre == DeclarationsMean
BY DEF DeclarationsMean, SearchDeclarations

LEMMA DeclarationsAreNext == DeclarationsMean'
BY DeclarationsAre, PTL

(* Which declaration is the first of a name depends on the program only.   *)
LEMMA DeclarationStays ==
  ASSUME program' = program, NEW list, NEW name
  PROVE  Declaration(list, name)' = Declaration(list, name)
BY DEF Declaration, SelectInSeq

(* The search of the declarations of a list persists.                      *)
LEMMA DeclarationsPersist ==
  ASSUME Later, NEW q \in Known, NEW list, Counts(list, q.file)
  PROVE  Persists(SearchDeclarations(q, list), SearchDeclarations(q, list)')
<1> DEFINE s == Declaration(list, q.name)
           f == q.file
<1>1. Structure /\ program \in Programs /\ program' = program
  BY LaterIs DEF Later
<1>2. f \in Files /\ Parsed(f)
  BY <1>1, KnownIs
<1>3. FileOf(list) = f
  <2>1. CASE list = Top(f)
    BY <1>2, <2>1, TopType
  <2>2. CASE list \in StatementsOf(f)
    BY <1>1, <1>2, <2>2, StatementIs DEF IsNth
  <2> QED
    BY <2>1, <2>2 DEF Counts
<1>4. s \in {t \in StatementsOf(f) : IsIn(t, list) /\ Declares(t) /\ t.name = q.name} \/ s = None
  BY <1>1, <1>2, <1>3, DeclarationIs
<1>5. s' = s
  BY <1>1, DeclarationStays
<1>6. PICK d : d = s
  OBVIOUS
<1>7. /\ SearchDeclarations(q, list) =
             IF d = None \/ d.at = q.ignore THEN Nothing
             ELSE IF q.external /\ list.kind = "file" /\ ~is_declaration_public(d) THEN Stopped
             ELSE get_simple_resolved_declaration(d)
      /\ SearchDeclarations(q, list)' =
             IF d = None \/ d.at = q.ignore THEN Nothing
             ELSE IF q.external /\ list.kind = "file" /\ ~is_declaration_public(d) THEN Stopped
             ELSE get_simple_resolved_declaration(d)'
  BY <1>5, <1>6, DeclarationsAre, DeclarationsAreNext DEF DeclarationsMean
<1>8. ~(d = None \/ d.at = q.ignore) => Persists(get_simple_resolved_declaration(d), get_simple_resolved_declaration(d)')
  <2>1. d # None => d \in StatementsOf(f) /\ IsReached(d) /\ Declares(d)
    BY <1>1, <1>2, <1>4, <1>6, ChildReached DEF ChildrenReached
  <2> QED
    BY <1>2, <2>1, DeclarationPersists
<1> HIDE DEF s
<1> QED
  BY <1>7, <1>8 DEF Persists

(* A statement, now and later.                                             *)
StatementMeans ==
  \A q, s, search :
    SearchStatement(q, s, search) =
      IF s.at = q.ignore THEN IF s.kind = "static_if" THEN Stopped ELSE Nothing
      ELSE IF s.kind = "using" /\ (q.external /\ s.within = {0} => s.export) THEN Open(q, s, search)
      ELSE IF s.kind = "static_if" THEN SearchStaticIf(q, s, JobFor("ResolveStaticIf", s))
      ELSE IF s.kind = "variable" /\ q.runtime /\ s.name = q.name THEN SearchVariable(s, JobFor("GenerateStaticVariable", s))
      ELSE Nothing

LEMMA StatementMeaning == StatementMeans
BY DEF StatementMeans, SearchStatement

LEMMA StatementMeaningNext == StatementMeans'
BY StatementMeaning, PTL

(* What a static if comes to, before and after a step.                     *)
StaticIfMeans ==
  \A q, s, i : i # 0 =>
    SearchStaticIf(q, s, i) =
      IF IsDone(i) THEN IF IsTrue(jobs[i].value) THEN SearchDeclarations(q, s) ELSE Nothing
      ELSE IF does_or_could_have_name(s, q.name) THEN Wait(i) ELSE Nothing

LEMMA StaticIfMeaning == StaticIfMeans
BY DEF StaticIfMeans, SearchStaticIf

LEMMA StaticIfMeaningNext == StaticIfMeans'
BY StaticIfMeaning, PTL

(* What could not declare the name does not declare it.                    *)
LEMMA NothingDeclared ==
  ASSUME program \in Programs, NEW f \in Files, NEW s \in StatementsOf(f), NEW name,
         ~does_or_could_have_name(s, name)
  PROVE  Declaration(s, name) = None
<1>1. PICK n : IsNth(s, f, n)
  BY StatementIs
<1>2. FileOf(s) = f /\ s.at[2] = n
  BY <1>1 DEF IsNth
<1>3. SUFFICES ASSUME NEW d \in StatementsOf(f), IsIn(d, s), Declares(d), d.name = name
               PROVE  FALSE
  BY <1>2, DeclarationIs
<1>4. IsWithin(d, s)
  BY <1>2, <1>3 DEF IsIn, IsWithin
<1> QED
  BY <1>2, <1>3, <1>4 DEF does_or_could_have_name, StatementsOf

(* The search of a static if persists: it has waited if there was          *)
(* something that could come.                                              *)
LEMMA StaticIfPersists ==
  ASSUME Later, NEW q \in Known, NEW s \in StatementsOf(q.file), IsReached(s), s.kind = "static_if"
  PROVE  Persists(SearchStaticIf(q, s, JobFor("ResolveStaticIf", s)), SearchStaticIf(q, s, JobFor("ResolveStaticIf", s))')
<1> DEFINE i == JobFor("ResolveStaticIf", s)
           r == SearchStaticIf(q, s, i)
           u == SearchStaticIf(q, s, JobFor("ResolveStaticIf", s))'
<1>0. SUFFICES Persists(r, u)
  OBVIOUS
<1>1. Structure /\ program \in Programs /\ program' = program
  BY LaterIs DEF Later
<1>2. i # 0 /\ i \in DOMAIN jobs
  BY <1>1, KnownIs, JobOfKind DEF JobKind
<1>3. i' = i
  BY <1>2, LaterIs
<1>4. ComesTrue(s) <=> IsDone(i) /\ IsTrue(jobs[i].value)
  BY <1>2 DEF ComesTrue
<1>5. does_or_could_have_name(s, q.name)' = does_or_could_have_name(s, q.name)
  BY <1>1 DEF does_or_could_have_name, IsWithin, Declares, FileOf
<1>6. r =
        IF IsDone(i) THEN IF IsTrue(jobs[i].value) THEN SearchDeclarations(q, s) ELSE Nothing
        ELSE IF does_or_could_have_name(s, q.name) THEN Wait(i) ELSE Nothing
  BY <1>2, StaticIfMeaning DEF StaticIfMeans
<1>7. u =
        IF jobs'[i].state = "Done" THEN IF IsTrue(jobs'[i].value) THEN SearchDeclarations(q, s)' ELSE Nothing
        ELSE IF does_or_could_have_name(s, q.name) THEN Wait(i) ELSE Nothing
  <2>1. i' # 0
    BY <1>2, <1>3
  <2>2. u =
        IF jobs'[i'].state = "Done" THEN IF IsTrue(jobs'[i'].value) THEN SearchDeclarations(q, s)' ELSE Nothing
        ELSE IF does_or_could_have_name(s, q.name)' THEN Wait(i') ELSE Nothing
    BY <2>1, StaticIfMeaningNext DEF StaticIfMeans, IsDone, IsTrue, Type, GlobalConstant, Statement, Wait, Result, Nothing, None
  <2> QED
    BY <1>3, <1>5, <2>2
<1> HIDE DEF r, u
<1>8. CASE IsDone(i)
  <2>1. jobs'[i] = jobs[i] /\ jobs[i].state = "Done"
    BY <1>2, <1>8 DEF Later, Growth, IsDone
  <2>2. IsTrue(jobs[i].value) => Persists(SearchDeclarations(q, s), SearchDeclarations(q, s)')
    <3>1. IsTrue(jobs[i].value) => Counts(s, q.file)
      BY <1>4, <1>8 DEF Counts
    <3> QED
      BY <3>1, DeclarationsPersist
  <2> HIDE DEF i
  <2>3. CASE IsTrue(jobs[i].value)
    BY <1>6, <1>7, <1>8, <2>1, <2>2, <2>3
  <2>4. CASE ~IsTrue(jobs[i].value)
    BY <1>6, <1>7, <1>8, <2>1, <2>4 DEF Persists
  <2> QED
    BY <2>3, <2>4
<1>9. CASE ~IsDone(i)
  <2> HIDE DEF i
  <2>1. CASE does_or_could_have_name(s, q.name)
    BY <1>2, <1>6, <1>7, <1>9, <2>1, Tags DEF Persists
  <2>2. CASE ~does_or_could_have_name(s, q.name)
    <3>1. Declaration(s, q.name)' = None
      BY <1>1, <2>2, KnownIs, NothingDeclared, DeclarationStays
    <3>2. SearchDeclarations(q, s)' = Nothing
      BY <3>1, DeclarationsAreNext DEF DeclarationsMean
    <3> QED
      BY <1>6, <1>7, <1>9, <2>2, <3>2 DEF Persists
  <2> QED
    BY <2>1, <2>2
<1> QED
  BY <1>8, <1>9

(* The search for a variable persists.                                     *)
LEMMA VariablePersists ==
  ASSUME Later, NEW q \in Known, NEW s \in StatementsOf(q.file), IsReached(s), s.kind = "variable"
  PROVE  Persists(SearchVariable(s, JobFor("GenerateStaticVariable", s)), SearchVariable(s, JobFor("GenerateStaticVariable", s))')
<1> DEFINE i == JobFor("GenerateStaticVariable", s)
           r == SearchVariable(s, i)
           u == SearchVariable(s, JobFor("GenerateStaticVariable", s))'
<1>0. SUFFICES Persists(r, u)
  OBVIOUS
<1>1. Structure /\ program \in Programs
  BY LaterIs DEF Later
<1>2. i # 0 /\ i \in DOMAIN jobs
  BY <1>1, KnownIs, JobOfKind DEF JobKind
<1>3. i' = i
  BY <1>2, LaterIs
<1>4. r = IF IsDone(i) THEN Found(s, s) ELSE Wait(i)
  BY <1>2 DEF SearchVariable
<1>5. u = IF jobs'[i].state = "Done" THEN Found(s, s) ELSE Wait(i)
  <2>1. i' # 0
    BY <1>2, <1>3
  <2>2. u = IF jobs'[i'].state = "Done" THEN Found(s, s) ELSE Wait(i')
    BY <2>1 DEF SearchVariable, IsDone, Found, Wait, Result, None, Statement
  <2> QED
    BY <1>3, <2>2
<1>6. IsDone(i) => jobs'[i] = jobs[i]
  BY <1>2 DEF Later, Growth
<1> HIDE DEF r, u, i
<1> QED
  BY <1>2, <1>4, <1>5, <1>6, Tags DEF Persists, IsDone

(* A statement that counts.                                                *)
LEMMA StatementPersists ==
  ASSUME Later, NEW search, NEW later, Good(search), AllPersist(search, later),
         NEW q \in Known, Safe(q), NEW s \in StatementsOf(q.file), IsReached(s)
  PROVE  Persists(SearchStatement(q, s, search), SearchStatement(q, s, later)')
<1> DEFINE r == SearchStatement(q, s, search)
           u == SearchStatement(q, s, later)'
<1>0. SUFFICES Persists(r, u)
  OBVIOUS
<1>1. Structure
  BY DEF Later
<1>2. r = IF s.at = q.ignore THEN IF s.kind = "static_if" THEN Stopped ELSE Nothing
      ELSE IF s.kind = "using" /\ (q.external /\ s.within = {0} => s.export) THEN Open(q, s, search)
      ELSE IF s.kind = "static_if" THEN SearchStaticIf(q, s, JobFor("ResolveStaticIf", s))
      ELSE IF s.kind = "variable" /\ q.runtime /\ s.name = q.name THEN SearchVariable(s, JobFor("GenerateStaticVariable", s))
      ELSE Nothing
  BY StatementMeaning DEF StatementMeans
<1>3. u = IF s.at = q.ignore THEN IF s.kind = "static_if" THEN Stopped ELSE Nothing
      ELSE IF s.kind = "using" /\ (q.external /\ s.within = {0} => s.export) THEN Open(q, s, later)
      ELSE IF s.kind = "static_if" THEN SearchStaticIf(q, s, JobFor("ResolveStaticIf", s))'
      ELSE IF s.kind = "variable" /\ q.runtime /\ s.name = q.name THEN SearchVariable(s, JobFor("GenerateStaticVariable", s))'
      ELSE Nothing
  BY StatementMeaningNext DEF StatementMeans
<1>4. s.kind = "using" => Persists(Open(q, s, search), Open(q, s, later))
  BY <1>1, OpenPersists
<1>5. s.kind = "static_if" =>
        Persists(SearchStaticIf(q, s, JobFor("ResolveStaticIf", s)), SearchStaticIf(q, s, JobFor("ResolveStaticIf", s))')
  BY StaticIfPersists
<1>6. s.kind = "variable" =>
        Persists(SearchVariable(s, JobFor("GenerateStaticVariable", s)), SearchVariable(s, JobFor("GenerateStaticVariable", s))')
  BY VariablePersists
<1>7. \A x : Persists(x, x)
  BY DEF Persists
<1> HIDE DEF r, u
<1> QED
  BY <1>2, <1>3, <1>4, <1>5, <1>6, <1>7

(* A statement that has come to count adds nothing: were it not so, the    *)
(* search would have waited for a static if before it.                     *)
LEMMA NewlyCounting ==
  ASSUME Later, NEW search, NEW later, NEW q \in Known, Safe(q),
         NEW n, NEW s, IsNth(s, q.file, n), IsReached(s)', ~IsReached(s),
         \A m \in 1 .. n - 1 : SearchAt(q, m, search) = Nothing
  PROVE  SearchStatement(q, s, later)' = Nothing
<1> DEFINE f == q.file
           st == program[f]
<1>1. /\ Structure /\ Structure' /\ Growth /\ program \in Programs /\ program' = program
      /\ f \in Files /\ Parsed(f) /\ Parsed(f)' /\ q.name \in Names
  BY LaterIs, KnownIs DEF Later
<1>2. s \in StatementsOf(f) /\ FileOf(s) = f /\ s.at = <<f, n>> /\ n \in Nat /\ s.within \subseteq Nat
  BY <1>1, NthStatement DEF IsNth
(* The first static if around it that was not known to be true.            *)
<1>3. PICK m \in s.within \ {0} : ~ComesTrue(st[m]) /\ \A k \in s.within \ {0} : k < m => ComesTrue(st[k])
  <2> DEFINE M == {m \in s.within \ {0} : ~ComesTrue(st[m])}
  <2>1. M # {}
    BY <1>2 DEF IsReached
  <2>2. M \in SUBSET Nat
    BY <1>2
  <2>3. PICK m \in M : \A k \in M : m <= k
    <3> HIDE DEF M
    <3> QED
      BY <2>1, <2>2, LeastNatural
  <2>4. \A k \in s.within \ {0} : k < m => k \notin M
    BY <1>2, <2>2, <2>3
  <2> QED
    BY <2>3, <2>4
<1>p. PICK p : p = st[m]
  OBVIOUS
<1> DEFINE j == JobFor("ResolveStaticIf", p)
<1>4. /\ p \in StatementsOf(f) /\ p.kind = "static_if" /\ p.at = <<f, m>> /\ FileOf(p) = f
      /\ p.within = s.within \cap 0 .. m - 1 /\ m \in Nat /\ m \in 1 .. n - 1
  <2>1. /\ p \in StatementsOf(f) /\ p.kind = "static_if" /\ p.at = <<f, m>>
        /\ p.within = s.within \cap 0 .. m - 1 /\ m \in Nat /\ m >= 1 /\ m < n /\ n \in Nat
    BY <1>3, <1>p DEF IsNth
  <2>2. m \in 1 .. n - 1
    BY <2>1
  <2>3. FileOf(p) = f
    BY <2>1 DEF FileOf
  <2> QED
    BY <2>1, <2>2, <2>3
<1>5. IsReached(p)
  <2>1. \A k \in p.within \ {0} : k \in s.within \ {0} /\ k < m
    BY <1>4
  <2> QED
    BY <1>3, <1>4, <1>p, <2>1 DEF IsReached
<1>6. j # 0 /\ j \in DOMAIN jobs
  BY <1>1, <1>4, <1>5, JobOfKind DEF JobKind
<1>7. ComesTrue(p)'
  BY <1>1, <1>2, <1>3, <1>p, ReachedIsNext DEF ReachedMeans
<1>8. ~IsDone(j)
  <2>1. SUFFICES ASSUME IsDone(j)
                 PROVE  FALSE
    OBVIOUS
  <2>2. jobs'[j] = jobs[j] /\ jobs[j].state = "Done"
    BY <1>1, <1>6, <2>1 DEF Growth, IsDone
  <2>3. JobFor("ResolveStaticIf", p)' = j
    BY <1>6, LaterIs
  <2> HIDE DEF j
  <2>4. IsTrue(jobs[j].value)
    <3>1. IsTrue(jobs'[j].value)
      BY <1>7, <2>3 DEF ComesTrue, IsTrue
    <3> QED
      BY <2>2, <3>1
  <2> QED
    BY <1>3, <1>6, <1>p, <2>1, <2>4 DEF ComesTrue, j
(* It could not declare the name, or the search would have waited for it.  *)
<1>9. p.at # q.ignore /\ ~does_or_could_have_name(p, q.name)
  <2>1. SearchAt(q, m, search) = SearchStatement(q, p, search)
    BY <1>4, <1>5, <1>p DEF SearchAt
  <2>2. SearchStatement(q, p, search) = Nothing
    BY <1>4, <2>1
  <2>3. SearchStatement(q, p, search) =
          IF p.at = q.ignore THEN Stopped ELSE SearchStaticIf(q, p, j)
    BY <1>4, StatementMeaning DEF StatementMeans
  <2>4. SearchStaticIf(q, p, j) = IF does_or_could_have_name(p, q.name) THEN Wait(j) ELSE Nothing
    BY <1>6, <1>8, StaticIfMeaning DEF StaticIfMeans
  <2> HIDE DEF j
  <2> QED
    BY <2>2, <2>3, <2>4, Tags
(* Nor can what is in it.                                                  *)
<1>10. ASSUME NEW t \in StatementsOf(f), m \in t.within
       PROVE  t.kind # "using" /\ ~(Declares(t) /\ t.name = q.name)
  <2>1. IsWithin(t, p)
    BY <1>1, <1>4, <1>10, StatementIs DEF IsWithin, IsNth
  <2> QED
    BY <1>4, <1>9, <1>10, <2>1 DEF does_or_could_have_name, StatementsOf
<1>11. s.kind # "using" /\ s.at # q.ignore
  <2>1. s.at # q.ignore
    BY <1>2 DEF Known
  <2> QED
    BY <1>2, <1>3, <1>10, <2>1
<1>12. ~(s.kind = "variable" /\ q.runtime /\ s.name = q.name)
  BY <1>1, <1>2, <1>3 DEF Safe, IsConditionalVariable
<1>13. ~does_or_could_have_name(s, q.name)
  <2>1. SUFFICES ASSUME NEW t \in StatementsOf(f), IsWithin(t, s), t.kind = "using" \/ (Declares(t) /\ t.name = q.name)
                 PROVE  FALSE
    BY <1>2 DEF does_or_could_have_name, StatementsOf
  <2>2. n \in t.within /\ n # 0
    BY <1>2, <2>1 DEF IsWithin, IsNth
  <2>3. s.within = t.within \cap 0 .. n - 1
    <3>1. PICK k : IsNth(t, f, k)
      BY <1>1, StatementIs
    <3> QED
      BY <2>2, <3>1 DEF IsNth
  <2> QED
    BY <1>3, <1>10, <2>1, <2>3
<1>14. s.kind = "static_if" => SearchStaticIf(q, s, JobFor("ResolveStaticIf", s))' = Nothing
  <2>1. SUFFICES ASSUME s.kind = "static_if"
                 PROVE  SearchStaticIf(q, s, JobFor("ResolveStaticIf", s))' = Nothing
    OBVIOUS
  <2> DEFINE i == JobFor("ResolveStaticIf", s)'
  <2>2. i # 0
    <3>1. s \in StatementsOf(f)'
      BY <1>1, <1>2 DEF StatementsOf
    <3>2. HasJob(jobs', s)
      BY <1>1, <3>1 DEF Structure, WhatCountsHasJobs, HasJob, JobKind, Top, Statement
    <3>3. Has(jobs', "ResolveStaticIf", s)
      BY <2>1, <3>2 DEF HasJob, JobKind
    <3> QED
      BY <1>1, <3>3, JobForIsNext DEF JobForFinds, Structure, TypesOK
  <2>3. SearchDeclarations(q, s)' = Nothing
    <3>1. Declaration(s, q.name)' = None
      BY <1>1, <1>2, <1>13, NothingDeclared, DeclarationStays
    <3> QED
      BY <3>1, DeclarationsAreNext DEF DeclarationsMean
  <2>4. does_or_could_have_name(s, q.name)' = does_or_could_have_name(s, q.name)
    BY <1>1 DEF does_or_could_have_name, IsWithin, Declares, FileOf
  <2>5. \A k : k # 0 =>
          SearchStaticIf(q, s, k)' \in {SearchDeclarations(q, s)', Nothing} \/ does_or_could_have_name(s, q.name)'
    BY StaticIfMeaningNext DEF StaticIfMeans
  <2> QED
    BY <1>13, <2>2, <2>3, <2>4, <2>5
<1> QED
  BY <1>11, <1>12, <1>14, StatementMeaningNext DEF StatementMeans

(* What a step of a scan comes to, before and after a step.                *)
SearchAtMeans ==
  \A q, n, search :
    /\ n = 0 => SearchAt(q, n, search) = SearchDeclarations(q, Top(q.file))
    /\ n \in Nat \ {0} => \A s : s = program[q.file][n] =>
         SearchAt(q, n, search) = IF IsReached(s) THEN SearchStatement(q, s, search) ELSE Nothing

LEMMA SearchAtMeaning == SearchAtMeans
BY DEF SearchAtMeans, SearchAt

LEMMA SearchAtMeaningNext == SearchAtMeans'
BY SearchAtMeaning, PTL

(* One part of a search, when those before it have come to nothing.        *)
LEMMA SearchAtPersists ==
  ASSUME Later, NEW search, NEW later, Good(search), AllPersist(search, later), NEW q \in Known, Safe(q),
         NEW n \in 0 .. Len(program[q.file]), \A m \in 1 .. n - 1 : SearchAt(q, m, search) = Nothing
  PROVE  Persists(SearchAt(q, n, search), SearchAt(q, n, later)')
<1>1. Structure /\ program \in Programs /\ program' = program /\ q.file \in Files /\ \A x : Persists(x, x)
  BY LaterIs, KnownIs DEF Later, Persists
<1>2. CASE n = 0
  <2>1. PICK t : t = Top(q.file)
    OBVIOUS
  <2>2. Counts(t, q.file)
    BY <2>1 DEF Counts
  <2>3. SearchAt(q, n, search) = SearchDeclarations(q, t)
    BY <1>2, <2>1, SearchAtMeaning DEF SearchAtMeans
  <2>4. Top(q.file)' = t
    BY <2>1 DEF Top, Statement
  <2>5. SearchAt(q, n, later)' = SearchDeclarations(q, t)'
    BY <1>2, <2>4, SearchAtMeaningNext DEF SearchAtMeans
  <2> QED
    BY <2>2, <2>3, <2>5, DeclarationsPersist
<1>3. CASE n # 0
  <2>1. PICK s : s = program[q.file][n]
    OBVIOUS
  <2>2. n \in Nat \ {0}
    BY <1>3
  <2>3. n \in DOMAIN program[q.file]
    BY <1>1, <2>2, ProgramIs DEF IsProgram
  <2>4. s \in StatementsOf(q.file) /\ IsNth(s, q.file, n)
    BY <1>1, <2>1, <2>3, NthStatement
  <2>5. SearchAt(q, n, search) = IF IsReached(s) THEN SearchStatement(q, s, search) ELSE Nothing
    BY <2>1, <2>2, SearchAtMeaning DEF SearchAtMeans
  <2>6. SearchAt(q, n, later)' = IF IsReached(s)' THEN SearchStatement(q, s, later)' ELSE Nothing
    BY <1>1, <2>1, <2>2, SearchAtMeaningNext DEF SearchAtMeans
  <2>7. CASE IsReached(s)
    <3>1. IsReached(s)'
      BY <2>7, LaterIs
    <3>2. Persists(SearchStatement(q, s, search), SearchStatement(q, s, later)')
      BY <2>4, <2>7, StatementPersists
    <3> QED
      BY <2>5, <2>6, <2>7, <3>1, <3>2
  <2>8. CASE ~IsReached(s) /\ IsReached(s)'
    <3>1. SearchStatement(q, s, later)' = Nothing
      BY <2>4, <2>8, NewlyCounting
    <3> QED
      BY <1>1, <2>5, <2>6, <2>8, <3>1
  <2>9. CASE ~IsReached(s) /\ ~IsReached(s)'
    BY <1>1, <2>5, <2>6, <2>9
  <2> QED
    BY <2>7, <2>8, <2>9
<1> QED
  BY <1>2, <1>3

(* A scan persists: what begins to count in it, in a static if that comes  *)
(* true, was waited for or comes to nothing.                               *)
LEMMA ScanPersists ==
  ASSUME Later, NEW search, NEW later, Good(search), AllPersist(search, later), NEW q \in Known, Safe(q)
  PROVE  Persists(Scan(q, search), Scan(q, later)')
<1> DEFINE N == Len(program[q.file])
<1>1. /\ program \in Programs /\ program' = program /\ q.file \in Files /\ N \in Nat
      /\ program' \in Programs
  BY LaterIs, KnownIs, ProgramIs DEF Later, Structure, IsProgram
<1>2. PICK item : item = Steps(q, search)
  OBVIOUS
<1>3. PICK now : now = Steps(q, later)'
  OBVIOUS
<1>4. PICK r : r = Scan(q, search)
  OBVIOUS
<1>5. PICK u : u = Scan(q, later)'
  OBVIOUS
<1>6. PICK M \in Nat : M = N
  BY <1>1
<1>7. IsFirst(item, M, r)
  BY <1>1, <1>2, <1>4, <1>6, ScanIs DEF ScanFinds
<1>8. IsFirst(now, M, u)
  BY <1>1, <1>3, <1>5, <1>6, ScanIsNext DEF ScanFinds
<1>9. \A n \in 0 .. M : item[n] = SearchAt(q, n, search) /\ now[n] = SearchAt(q, n, later)'
  BY <1>1, <1>2, <1>3, <1>6 DEF Steps
<1>10. ASSUME NEW n \in 0 .. M, \A m \in 0 .. n - 1 : item[m] = Nothing
       PROVE  Persists(item[n], now[n])
  <2>1. \A m \in 1 .. n - 1 : m \in 0 .. n - 1 /\ m \in 0 .. M
    OBVIOUS
  <2>2. \A m \in 1 .. n - 1 : SearchAt(q, m, search) = Nothing
    BY <1>9, <1>10, <2>1
  <2> QED
    BY <1>6, <1>9, <2>2, SearchAtPersists
<1>11. ASSUME NEW n \in 0 .. M, \A m \in 0 .. n : item[m] = Nothing
       PROVE  \A m \in 0 .. n : now[m] = Nothing
  <2>1. ASSUME NEW m \in 0 .. n
        PROVE  now[m] = Nothing
    <3>1. /\ m \in 0 .. M
          /\ \A k \in 0 .. m - 1 : k \in 0 .. n
      OBVIOUS
    <3>2. Persists(item[m], now[m])
      BY <1>10, <1>11, <3>1
    <3> QED
      BY <1>11, <3>2, Tags DEF Persists
  <2> QED
    BY <2>1
<1>12. Persists(r, u)
  <2>1. CASE \A m \in 0 .. M : item[m] = Nothing
    <3>1. \A m \in 0 .. M : now[m] = Nothing
      BY <1>11, <2>1
    <3>2. r = Nothing /\ u = Nothing
      BY <1>7, <1>8, <2>1, <3>1 DEF IsFirst
    <3> QED
      BY <3>2 DEF Persists
  <2>2. CASE ~ \A m \in 0 .. M : item[m] = Nothing
    <3>1. PICK k \in 0 .. M : item[k] # Nothing /\ (\A m \in 0 .. k - 1 : item[m] = Nothing) /\ r = item[k]
      BY <1>7, <2>2 DEF IsFirst
    <3>2. Persists(r, now[k])
      BY <1>10, <3>1
    <3>3. CASE now[k] = r
      <4>1. \A m \in 0 .. k - 1 : now[m] = Nothing
        <5>1. CASE k = 0
          BY <5>1
        <5>2. CASE k # 0
          <6>1. k - 1 \in 0 .. M
            BY <5>2
          <6> QED
            BY <1>11, <3>1, <6>1
        <5> QED
          BY <5>1, <5>2
      <4>2. IsFirst(now, M, r)
        BY <3>1, <3>3, <4>1 DEF IsFirst
      <4>3. u = r
        BY <1>8, <4>2, FirstIsOne
      <4> QED
        BY <4>3 DEF Persists
    <3>4. CASE now[k] # r
      BY <3>2, <3>4 DEF Persists
    <3> QED
      BY <3>3, <3>4
  <2> QED
    BY <2>1, <2>2
<1> QED
  BY <1>4, <1>5, <1>12

(* All searches persist, however deep they nest.                           *)
LEMMA SearchesPersist ==
  ASSUME Later
  PROVE  \A n \in 0 .. MaxDepth : AllPersist(Search[n], Search[n]')
<1> DEFINE U == {n \in 0 .. MaxDepth : AllPersist(Search[n], Search[n]')}
<1>1. Structure /\ MaxDepth \in Nat /\ 0 \in 0 .. MaxDepth /\ \A q \in Known : q \in Queries
  <2>1. MaxDepth \in Nat
    BY ProgramsAssumption
  <2>2. Structure /\ \A q \in Known : q \in Queries
    BY DEF Known, Later
  <2> QED
    BY <2>1, <2>2
<1>2. 0 \in U
  <2>1. \A q \in Known : Search[0][q] = Diverges /\ Search[0]'[q] = Diverges
    BY <1>1, SearchIs, SearchIsNext DEF SearchUnfolds, Diverges, Result, None, Statement
  <2> QED
    BY <1>1, <2>1 DEF AllPersist, Persists
<1>3. ASSUME NEW n \in 0 .. MaxDepth - 1, n \in U
      PROVE  n + 1 \in U
  <2>1. n + 1 \in 0 .. MaxDepth /\ n + 1 # 0 /\ (n + 1) - 1 = n /\ n \in 0 .. MaxDepth
    BY <1>1
  <2>2. PICK search, later : search = Search[n] /\ later = Search[n]'
    OBVIOUS
  <2>3. AllPersist(search, later) /\ Good(search)
    BY <1>1, <1>3, <2>1, <2>2, SearchResults
  <2>4. ASSUME NEW q \in Known, Safe(q)
        PROVE  Persists(Search[n + 1][q], Search[n + 1]'[q])
    <3>1. Search[n + 1][q] = Scan(q, search)
      BY <1>1, <2>1, <2>2, SearchIs DEF SearchUnfolds
    <3>2. Search[n + 1]'[q] = Scan(q, later)'
      BY <1>1, <2>1, <2>2, SearchIsNext DEF SearchUnfolds, Queries, Places
    <3> QED
      BY <2>3, <2>4, <3>1, <3>2, ScanPersists
  <2> QED
    BY <2>1, <2>4 DEF AllPersist
<1>4. \A n \in 0 .. MaxDepth : n \in U
  <2> HIDE DEF U
  <2> QED
    BY <1>1, <1>2, <1>3, IntervalInduction
<1> QED
  BY <1>4

(* The search for the expression of a job.                                 *)
QueryOf(s, kind) ==
  Query("", FileOf(s), FALSE, kind = "GenerateFunction",
        IF kind = "ResolveStaticIf" THEN s.at ELSE NoPlace)

(* What an expression means, before and after a step.                      *)
MeaningMeans ==
  \A i, s, kind : s = jobs[i].statement /\ kind = jobs[i].kind =>
    Meaning(i) = IF s.ref = <<>> THEN Found(s, s) ELSE Evaluate(QueryOf(s, kind), s.ref, Search[MaxDepth])

LEMMA MeaningIs == MeaningMeans
BY Zenon DEF MeaningMeans, Meaning, QueryOf

LEMMA MeaningIsNext == MeaningMeans'
BY MeaningIs, PTL

(* It is a search that is made.                                            *)
LEMMA QueryOfKnown ==
  ASSUME program \in Programs, NEW f \in Files, Parsed(f), NEW s \in StatementsOf(f), FileOf(s) = f, IsReached(s),
         NEW kind, kind = "ResolveStaticIf" => s.kind = "static_if"
  PROVE  LET q == QueryOf(s, kind)
         IN  q \in Known /\ q.external = FALSE /\ q.runtime = (kind = "GenerateFunction")
<1>1. PICK runtime \in BOOLEAN, ignore \in {s.at, NoPlace} :
        /\ QueryOf(s, kind) = Query("", FileOf(s), FALSE, runtime, ignore)
        /\ runtime = (kind = "GenerateFunction")
        /\ kind # "ResolveStaticIf" => ignore = NoPlace
  <2>1. CASE kind = "ResolveStaticIf"
    BY <2>1, Zenon DEF QueryOf
  <2>2. CASE kind # "ResolveStaticIf"
    BY <2>2, Zenon DEF QueryOf
  <2> QED
    BY <2>1, <2>2
<1>2. \/ ignore = NoPlace
      \/ /\ s \in StatementsOf(f) /\ IsReached(s) /\ ignore = s.at
         /\ s.kind \in {"using", "static_if"} /\ ~runtime
  BY <1>1
<1>3. LET q == Query("", FileOf(s), FALSE, runtime, ignore)
      IN  q \in Known /\ q.external = FALSE /\ q.runtime = runtime
  BY <1>2, OperandKnown, ZenonT(60)
<1> QED
  BY <1>1, <1>3, Zenon

(* What an expression means stays so.                                      *)
LEMMA MeaningPersists ==
  ASSUME Later, NEW i \in DOMAIN jobs, ~OverlooksVariables(i)
  PROVE  Persists(Meaning(i), Meaning(i)')
<1>1. PICK s, kind : s = jobs[i].statement /\ kind = jobs[i].kind
  OBVIOUS
<1>2. s = jobs'[i].statement /\ kind = jobs'[i].kind
  BY <1>1 DEF Later, Growth
<1>3. PICK q : q = QueryOf(s, kind)
  OBVIOUS
<1>4. Meaning(i) = IF s.ref = <<>> THEN Found(s, s) ELSE Evaluate(q, s.ref, Search[MaxDepth])
  BY <1>1, <1>3, MeaningIs DEF MeaningMeans
<1>5. Meaning(i)' = IF s.ref = <<>> THEN Found(s, s) ELSE Evaluate(q, s.ref, Search[MaxDepth]')
  BY <1>2, <1>3, MeaningIsNext DEF MeaningMeans
<1>6. CASE s.ref = <<>>
  BY <1>4, <1>5, <1>6 DEF Persists
<1>7. CASE s.ref # <<>>
  <2>1. Structure /\ program \in Programs
    BY LaterIs DEF Later
  <2>2. kind # "ParseFile" /\ IsStatement(s) /\ (kind = "ResolveStaticIf" => s.kind = "static_if")
    BY <1>1, <1>7, <2>1, TopType DEF Structure, JobsAreOfStatements, IsJobOf, JobKind
  <2>3. PICK f \in Files : s \in StatementsOf(f)
    BY <2>2 DEF IsStatement
  <2>4. f = FileOf(s) /\ s.ref \in Seq(Names)
    BY <2>1, <2>3, StatementIs, StatementsType DEF IsNth, Statements
  <2>5. Parsed(f) /\ IsReached(s)
    BY <1>1, <2>1, <2>2, <2>4 DEF Structure, JobsCount
  <2>6. q \in Known /\ q.external = FALSE /\ q.runtime = (kind = "GenerateFunction")
    BY <1>3, <2>1, <2>2, <2>3, <2>4, <2>5, QueryOfKnown, Zenon
  <2>7. q.runtime => \A n \in DOMAIN s.ref : ~IsConditionalVariable(s.ref[n])
    BY <1>1, <2>6 DEF OverlooksVariables
  <2>8. PICK search, later : search = Search[MaxDepth] /\ later = Search[MaxDepth]'
    OBVIOUS
  <2>9. Good(search) /\ AllPersist(search, later)
    <3>1. MaxDepth \in Nat
      BY ProgramsAssumption
    <3>2. MaxDepth \in 0 .. MaxDepth
      BY <3>1
    <3> QED
      BY <2>1, <2>8, <3>2, SearchResults, SearchesPersist
  <2>10. Persists(Evaluate(q, s.ref, search), Evaluate(q, s.ref, later))
    BY <1>7, <2>1, <2>4, <2>6, <2>7, <2>9, EvaluatePersists
  <2> QED
    BY <1>4, <1>5, <1>7, <2>8, <2>10
<1> QED
  BY <1>6, <1>7

(***************************************************************************)
(* The theorems                                                            *)
(***************************************************************************)

(* Jobs wait for jobs.                                                     *)
WaitsForJobs ==
  \A i \in DOMAIN jobs : jobs[i].state = "Waiting" => jobs[i].waiting_for \in DOMAIN jobs

(* The inductive invariant.                                                *)
Inv == Structure /\ AssertionsHold /\ WaitsForJobs /\ ResultsAreStable /\ WaitsAreNeeded

(* It holds at first.                                                      *)
LEMMA InitIsStructured ==
  ASSUME Init
  PROVE  Inv
<1> DEFINE job == NewJob("ParseFile", Top(MainFile))
<1>1. program \in Programs /\ jobs = <<job>> /\ outcome = "running" /\ MainFile \in Files
  BY SomeNames DEF Init
<1>2. job \in Job /\ job.kind = "ParseFile" /\ job.statement = Top(MainFile) /\ job.state = "Working" /\ job.waiting_for = 0
  <2>1. "ParseFile" \in Kinds /\ Top(MainFile) \in AnyStatement
    BY <1>1, TopType DEF Kinds
  <2> QED
    BY <2>1, NewJobIs
<1> HIDE DEF job
<1>3. jobs \in Seq(Job) /\ Len(jobs) = 1 /\ DOMAIN jobs = {1} /\ jobs[1] = job
  BY <1>1, <1>2
<1>4. TypesOK
  BY <1>1, <1>2, <1>3 DEF TypesOK
<1>5. JobsAreUnique /\ JobsAreOfStatements /\ JobsCount
  BY <1>1, <1>2, <1>3 DEF JobsAreUnique, JobsAreOfStatements, IsJobOf, JobsCount
<1>6. \A i \in DOMAIN jobs : ~IsDone(i) /\ jobs[i].state # "Waiting"
  BY <1>2, <1>3 DEF IsDone
<1>7. WhatCountsHasJobs /\ ValuesAre
  BY <1>6 DEF WhatCountsHasJobs, Parsed, ValuesAre
<1>8. AssertionsHold /\ WaitsForJobs /\ ResultsAreStable /\ WaitsAreNeeded
  BY <1>1, <1>6 DEF AssertionsHold, WaitsForJobs, ResultsAreStable, WaitsAreNeeded
<1> QED
  BY <1>4, <1>5, <1>7, <1>8 DEF Inv, Structure

(* There is such a variable in a static if of a program.                   *)
HasConditional(p, name) ==
  \E f \in Files : \E s \in ToSet(p[f]) : s.kind = "variable" /\ s.name = name /\ s.within # {0}

(* And so IsConditionalVariable depends on the program only.               *)
ConditionalMeans == \A name, p : p = program => (IsConditionalVariable(name) <=> HasConditional(p, name))

LEMMA ConditionalIs == ConditionalMeans
BY DEF ConditionalMeans, HasConditional, IsConditionalVariable, StatementsOf

LEMMA ConditionalIsNext == ConditionalMeans'
BY ConditionalIs, PTL

(* The exception, before and after a step.                                 *)
OverlookMeans ==
  \A k, kind, s : kind = jobs[k].kind /\ s = jobs[k].statement =>
    (OverlooksVariables(k) <=> kind = "GenerateFunction" /\ \E n \in DOMAIN s.ref : IsConditionalVariable(s.ref[n]))

LEMMA OverlookIs == OverlookMeans
BY DEF OverlookMeans, OverlooksVariables

LEMMA OverlookIsNext == OverlookMeans'
BY OverlookIs, PTL

(* The exception is the same in all states.                                *)
LEMMA OverlookStays ==
  ASSUME Growth, NEW k \in DOMAIN jobs
  PROVE  OverlooksVariables(k)' <=> OverlooksVariables(k)
<1>1. ASSUME NEW name
      PROVE  IsConditionalVariable(name)' <=> IsConditionalVariable(name)
  <2>1. PICK p : p = program /\ p = program'
    BY DEF Growth
  <2> QED
    BY <2>1, ConditionalIs, ConditionalIsNext DEF ConditionalMeans
<1>2. PICK kind, s : kind = jobs[k].kind /\ s = jobs[k].statement
  OBVIOUS
<1>3. kind = jobs'[k].kind /\ s = jobs'[k].statement
  BY <1>2 DEF Growth
<1> QED
  BY <1>1, <1>2, <1>3, OverlookIs, OverlookIsNext DEF OverlookMeans

(* A job waits for a job.                                                  *)
LEMMA WaitIsForJob ==
  ASSUME Structure, NEW i \in DOMAIN jobs, NEW w, Meaning(i) = Wait(w)
  PROVE  w \in DOMAIN jobs
<1>1. Meaning(i).tag = "wait" /\ Meaning(i).job = w
  BY DEF Wait, Result
<1>2. jobs[i].kind # "ParseFile"
  <2>1. SUFFICES ASSUME jobs[i].kind = "ParseFile"
                 PROVE  FALSE
    OBVIOUS
  <2>2. PICK s, kind : s = jobs[i].statement /\ kind = jobs[i].kind
    OBVIOUS
  <2>3. PICK f \in Files : s = Top(f)
    BY <2>1, <2>2 DEF Structure, JobsAreOfStatements, IsJobOf, JobKind
  <2>4. s.ref = <<>>
    BY <2>3 DEF Top, Statement
  <2>5. Meaning(i) = Found(s, s)
    BY <2>2, <2>4, MeaningIs DEF MeaningMeans
  <2> QED
    BY <1>1, <2>5 DEF Found, Result
<1> QED
  BY <1>1, <1>2, MeaningResult, ResultTags

(* What was found, and what was waited for, stays: the second part of the  *)
(* invariant.                                                              *)
LEMMA WhatWasFoundStays ==
  ASSUME Inv, Structure', Growth, AssertionsHold',
         \A k \in DOMAIN jobs : jobs'[k] = jobs[k] \/ Answers(k),
         \A k \in DOMAIN jobs' \ DOMAIN jobs : jobs'[k].state = "Working"
  PROVE  Inv'
<1>2. Later
  BY DEF Later, Inv
<1>3. ASSUME NEW k \in DOMAIN jobs', jobs'[k].state # "Working"
      PROVE  k \in DOMAIN jobs
  BY <1>3
<1>4. ASSUME NEW k \in DOMAIN jobs
      PROVE  /\ jobs'[k].kind = jobs[k].kind /\ k \in DOMAIN jobs'
             /\ OverlooksVariables(k)' <=> OverlooksVariables(k)
             /\ jobs'[k].state # "Done" => jobs[k].state # "Done"
  <2>1. jobs'[k].kind = jobs[k].kind /\ k \in DOMAIN jobs'
    BY DEF Growth
  <2>2. OverlooksVariables(k)' <=> OverlooksVariables(k)
    BY OverlookStays
  <2>3. jobs'[k].state # "Done" => jobs[k].state # "Done"
    BY DEF Growth, IsDone
  <2> QED
    BY <2>1, <2>2, <2>3
<1>6. ASSUME NEW k \in DOMAIN jobs, jobs'[k].state = "Waiting"
      PROVE  jobs'[k].waiting_for \in DOMAIN jobs
  <2>1. CASE jobs'[k] = jobs[k]
    BY <1>4, <1>6, <2>1 DEF Inv, WaitsForJobs
  <2>2. CASE Answers(k)
    <3>1. Meaning(k) = Wait(jobs'[k].waiting_for)
      BY <1>6, <2>2 DEF Answers
    <3> QED
      BY <3>1, WaitIsForJob DEF Inv
  <2> QED
    BY <2>1, <2>2
<1>7. WaitsForJobs'
  BY <1>3, <1>4, <1>6 DEF WaitsForJobs
<1>8. ASSUME NEW k \in DOMAIN jobs', jobs'[k].state = "Done", ~OverlooksVariables(k)', jobs'[k].kind \notin Unnamed
      PROVE  Meaning(k)'.tag = "found" /\ Meaning(k)'.declaration = jobs'[k].declaration
  <2>1. k \in DOMAIN jobs
    BY <1>3, <1>8
  <2>2. PICK r, t : r = Meaning(k) /\ t = Meaning(k)'
    OBVIOUS
  <2>3. r.tag = "found" /\ r.declaration = jobs'[k].declaration
    <3>1. CASE jobs'[k] = jobs[k]
      BY <1>4, <1>8, <2>1, <2>2, <3>1 DEF Inv, ResultsAreStable, IsDone, Unnamed
    <3>2. CASE Answers(k)
      BY <1>4, <1>8, <2>1, <2>2, <3>2 DEF Answers
    <3> QED
      BY <2>1, <3>1, <3>2
  <2>4. Persists(r, t)
    BY <1>2, <1>4, <1>8, <2>1, <2>2, MeaningPersists
  <2> QED
    BY <2>2, <2>3, <2>4 DEF Persists
<1>9. ResultsAreStable'
  BY <1>8 DEF ResultsAreStable, IsDone, Unnamed
<1>10. ASSUME NEW k \in DOMAIN jobs', jobs'[k].state = "Waiting", jobs'[jobs'[k].waiting_for].state # "Done",
              ~OverlooksVariables(k)'
       PROVE  Meaning(k)' = Wait(jobs'[k].waiting_for)
  <2>1. k \in DOMAIN jobs
    BY <1>3, <1>10
  <2>2. PICK r, t, w : r = Meaning(k) /\ t = Meaning(k)' /\ w = jobs'[k].waiting_for
    OBVIOUS
  <2>3. w \in DOMAIN jobs /\ jobs'[w].state # "Done" /\ jobs[w].state # "Done"
    BY <1>4, <1>6, <1>10, <2>1, <2>2
  <2>4. r = Wait(w)
    <3>1. CASE jobs'[k] = jobs[k]
      BY <1>4, <1>10, <2>1, <2>2, <2>3, <3>1 DEF Inv, WaitsAreNeeded, IsDone
    <3>2. CASE Answers(k)
      BY <1>10, <2>2, <3>2 DEF Answers
    <3> QED
      BY <2>1, <3>1, <3>2
  <2>5. Persists(r, t)
    BY <1>2, <1>4, <1>10, <2>1, <2>2, MeaningPersists
  <2> QED
    BY <2>2, <2>3, <2>4, <2>5 DEF Persists, Wait, Result
<1>11. WaitsAreNeeded'
  BY <1>10 DEF WaitsAreNeeded, IsDone
<1> QED
  BY <1>7, <1>9, <1>11 DEF Inv

(* The steps of jobs keep the invariant.                                   *)
LEMMA GoesOnInv ==
  ASSUME Inv, NEW i \in DOMAIN jobs, GoesOn(i)
  PROVE  Inv'
<1>1. Structure' /\ Growth
  BY StructureStays DEF Inv, GoesOn
<1>2. AssertionsHold'
  BY DEF AssertionsHold, Inv, GoesOn, Advances
<1>3. \A k \in DOMAIN jobs : jobs'[k] = jobs[k] \/ Answers(k)
  BY DEF GoesOn, Advances
<1>4. \A k \in DOMAIN jobs' \ DOMAIN jobs : jobs'[k].state = "Working"
  BY DEF GoesOn, Advances, IsNew
<1> QED
  BY <1>1, <1>2, <1>3, <1>4, WhatWasFoundStays

(* At the end of the compiler the jobs are what they were.                 *)
LEMMA HaltsInv ==
  ASSUME Inv, program' = program, jobs' = jobs,
         outcome' \in {"running", "done", "circular", "error", "missing", "diverges"}
  PROVE  Inv'
<1>1. TypesOK' /\ AssertionsHold'
  BY DEF Inv, Structure, TypesOK, AssertionsHold
<1>2. JobsAreUnique' /\ Unique(jobs')
  BY DEF Inv, Structure, JobsAreUnique, Unique
<1>3. Growth
  BY DEF Growth
<1>4. \A f : StatementsOf(f)' = StatementsOf(f)
  BY DEF StatementsOf
<1>5. /\ \A f : Parsed(f)' <=> Parsed(f)
      /\ \A v : IsValue(v)' <=> IsValue(v)
  BY DEF Parsed, IsValue, IsDone
<1>6. ASSUME NEW kind, NEW s
      PROVE  JobFor(kind, s)' = JobFor(kind, s)
  <2>1. jobs \in Seq(Job) /\ jobs' \in Seq(Job)
    BY DEF Inv, Structure, TypesOK
  <2>2. CASE JobFor(kind, s) # 0
    BY <1>2, <1>3, <2>1, <2>2, JobForStays
  <2>3. CASE JobFor(kind, s) = 0
    <3>1. ~Has(jobs', kind, s)
      BY <2>1, <2>3, JobForIs DEF JobForFinds
    <3> QED
      BY <2>1, <2>3, <3>1, JobForIsNext DEF JobForFinds, Has
  <2> QED
    BY <2>2, <2>3
<1>7. \A s : ComesTrue(s)' <=> ComesTrue(s)
  BY <1>6 DEF ComesTrue, IsDone, IsTrue, Type
<1>8. \A s : IsReached(s)' <=> IsReached(s)
  BY <1>7, ReachedIs, ReachedIsNext DEF ReachedMeans
<1>9. JobsAreOfStatements'
  BY <1>4 DEF Inv, Structure, JobsAreOfStatements, IsJobOf, IsStatement
<1>10. JobsCount'
  BY <1>5, <1>8, JobsCountIs, JobsCountIsNext DEF Inv, Structure, JobsCountMeans, CountsAt, IsDone
<1>11. WhatCountsHasJobs'
  BY <1>4, <1>5, <1>8 DEF Inv, Structure, WhatCountsHasJobs, HasJob
<1>12. ValuesAre'
  BY <1>5 DEF Inv, Structure, ValuesAre, IsDone
<1> QED
  BY <1>1, <1>2, <1>3, <1>9, <1>10, <1>11, <1>12, WhatWasFoundStays DEF Structure

(* All steps keep the invariant.                                           *)
LEMMA NextInv ==
  ASSUME Inv, [Next]_vars
  PROVE  Inv'
<1>1. outcome \in {"running", "done", "circular", "error", "missing", "diverges"}
  BY DEF Inv, Structure, TypesOK, AssertionsHold
<1>2. CASE Next
  <2>1. CASE \E i \in DOMAIN jobs : GoesOn(i)
    BY <2>1, GoesOnInv
  <2>2. CASE Halts
    BY <1>1, <2>2, HaltsInv DEF Halts
  <2> QED
    BY <1>2, <2>1, <2>2, StepIs DEF Inv
<1>3. CASE UNCHANGED vars
  BY <1>1, <1>3, HaltsInv DEF vars
<1> QED
  BY <1>2, <1>3

(* In every state that is reached, for any files, names and programs and   *)
(* however deep searches may nest, the invariant holds: the jobs are those *)
(* of the statements that count, and what searches found or waited for     *)
(* before they would find or wait for now.                                 *)
THEOREM InvHolds == Spec => []Inv
<1>1. Init => Inv
  BY InitIsStructured
<1>2. Inv /\ [Next]_vars => Inv'
  BY NextInv
<1> QED
  BY <1>1, <1>2, PTL DEF Spec

(* The types of the module follow from those of the proofs.                *)
LEMMA InvIsTyped ==
  ASSUME Inv
  PROVE  TypeOK
<1>1. jobs \in Seq(Job) /\ JobsAreUnique
  BY DEF Inv, Structure, TypesOK
<1>2. DOMAIN jobs = 1 .. Len(jobs) /\ Len(jobs) \in Nat
  BY <1>1
<1>3. outcome \in {"running", "done", "circular", "error", "missing", "aborted", "diverges"}
  BY DEF Inv, Structure, TypesOK
<1>4. ASSUME NEW i \in DOMAIN jobs
      PROVE  /\ jobs[i].state \in {"Working", "Waiting", "Done"}
             /\ jobs[i].waiting_for \in 0 .. Len(jobs)
  <2>1. jobs[i] \in Job
    BY <1>1
  <2> QED
    BY <2>1 DEF Inv, Structure, TypesOK, Job
<1>5. ASSUME NEW i \in DOMAIN jobs, NEW j \in 1 .. i - 1
      PROVE  <<jobs[i].kind, jobs[i].statement>> # <<jobs[j].kind, jobs[j].statement>>
  <2>1. j \in DOMAIN jobs /\ i # j
    BY <1>2
  <2> QED
    BY <1>1, <2>1 DEF JobsAreUnique
<1> QED
  BY <1>3, <1>4, <1>5 DEF TypeOK

(* The variables are well typed, and no statement has two jobs of a kind:  *)
(* process_scope parses each file once, however files import each other    *)
(* (constant.cpp:4365).                                                    *)
THEOREM TypesHold == Spec => []TypeOK
BY InvHolds, InvIsTyped, PTL

(* The assertions that a static if was found (constant.cpp:2208) and the   *)
(* aborts of get_simple_resolved_declaration and of the search for a       *)
(* variable are never reached: whatever a search meets has its job.        *)
THEOREM AssertionsHoldAlways == Spec => []AssertionsHold
<1>1. Inv => AssertionsHold
  BY DEF Inv
<1> QED
  BY <1>1, InvHolds, PTL

(* What a job found a name to mean, a search made at any time later would  *)
(* find as well, but for variables in static ifs that a body overlooks.    *)
THEOREM ResultsStayStable == Spec => []ResultsAreStable
<1>1. Inv => ResultsAreStable
  BY DEF Inv
<1> QED
  BY <1>1, InvHolds, PTL

(* As long as the job that another waits for is not done, a search made    *)
(* anew would wait for it as well.                                         *)
THEOREM WaitsStayNeeded == Spec => []WaitsAreNeeded
<1>1. Inv => WaitsAreNeeded
  BY DEF Inv
<1> QED
  BY <1>1, InvHolds, PTL

(***************************************************************************)
(* A name that is missing                                                  *)
(***************************************************************************)

(* A search from outside stops at an import that has the name.             *)
HidesImport(q) == \E s \in StatementsOf(q.file) : s.kind = "import" /\ s.name = q.name

(* A search of the declarations that come to nothing: there is none.       *)
LEMMA NotDeclared ==
  ASSUME Structure, NEW q \in Known, NEW list, Counts(list, q.file),
         q.external => ~HidesImport(q),
         SearchDeclarations(q, list) \in {Nothing, Stopped}
  PROVE  /\ SearchDeclarations(q, list) = Nothing
         /\ \A s \in StatementsOf(q.file) : ~(IsIn(s, list) /\ Declares(s) /\ s.name = q.name)
<1> DEFINE d == Declaration(list, q.name)
           f == q.file
<1>1. program \in Programs /\ f \in Files /\ Parsed(f)
  BY DEF Structure, TypesOK, Known, Queries
<1>2. FileOf(list) = f
  <2>1. CASE list = Top(f)
    BY <1>1, <2>1, TopType
  <2>2. CASE list \in StatementsOf(f)
    BY <1>1, <2>2, StatementIs DEF IsNth
  <2> QED
    BY <2>1, <2>2 DEF Counts
<1> DEFINE Ones == {t \in StatementsOf(f) : IsIn(t, list) /\ Declares(t) /\ t.name = q.name}
<1>3. d \in Ones \/ (Ones = {} /\ d = None)
  BY <1>1, <1>2, DeclarationIs
<1> HIDE DEF d
<1>4. d \notin Ones
  <2>1. SUFFICES ASSUME d \in Ones
                 PROVE  FALSE
    OBVIOUS
  <2>2. d \in StatementsOf(f) /\ IsIn(d, list) /\ Declares(d) /\ d.name = q.name
    BY <2>1
  <2>3. d # None /\ d.at # q.ignore
    BY <2>2, NoneType DEF Declares, Known
  <2>4. q.external => is_declaration_public(d)
    BY <2>2 DEF HidesImport, is_declaration_public
  <2>5. SearchDeclarations(q, list) = get_simple_resolved_declaration(d)
    BY <2>3, <2>4 DEF SearchDeclarations, d
  <2>6. IsReached(d)
    BY <1>1, <2>2, ChildReached DEF ChildrenReached
  <2>7. get_simple_resolved_declaration(d).tag \in {"found", "wait"}
    BY <1>1, <2>2, <2>6, DeclarationResult
  <2> QED
    BY <2>5, <2>7, Tags
<1>5. SearchDeclarations(q, list) = Nothing
  <2>1. d = None
    BY <1>3, <1>4
  <2> QED
    BY <2>1 DEF SearchDeclarations, d
<1> QED
  BY <1>3, <1>4, <1>5

(* Where a search stops.                                                   *)
LEMMA StaticIfSearched ==
  ASSUME Structure, NEW q \in Known, NEW s \in StatementsOf(q.file), IsReached(s), s.kind = "static_if", NEW i,
         i = JobFor("ResolveStaticIf", s)
  PROVE  /\ i # 0 /\ i \in DOMAIN jobs /\ jobs[i].kind = "ResolveStaticIf" /\ jobs[i].statement = s
         /\ IsDone(i) /\ IsTrue(jobs[i].value) =>
              Counts(s, q.file) /\ ComesTrue(s) /\ SearchStaticIf(q, s, i) = SearchDeclarations(q, s)
         /\ IsDone(i) /\ ~IsTrue(jobs[i].value) => SearchStaticIf(q, s, i) = Nothing
         /\ ~IsDone(i) =>
              SearchStaticIf(q, s, i) = IF does_or_could_have_name(s, q.name) THEN Wait(i) ELSE Nothing
<1>1. program \in Programs /\ q.file \in Files /\ Parsed(q.file)
  BY KnownIs DEF Structure, TypesOK
<1>2. i # 0 /\ i \in DOMAIN jobs /\ jobs[i].kind = "ResolveStaticIf" /\ jobs[i].statement = s
  BY <1>1, JobOfKind DEF JobKind
<1>3. IsDone(i) /\ IsTrue(jobs[i].value) => Counts(s, q.file) /\ ComesTrue(s)
  BY <1>2 DEF Counts, ComesTrue
<1> QED
  BY <1>2, <1>3 DEF SearchStaticIf

(* A search stops at the statement that is left out, and nowhere else.     *)
LEMMA StatementStops ==
  ASSUME Structure, NEW search, Good(search), NEW q \in Known, NEW s \in StatementsOf(q.file), IsReached(s),
         SearchStatement(q, s, search) = Stopped
  PROVE  s.at = q.ignore
<1>1. SUFFICES ASSUME s.at # q.ignore
               PROVE  FALSE
  OBVIOUS
<1>2. CASE s.kind = "using" /\ (q.external /\ s.within = {0} => s.export)
  <2>1. SearchStatement(q, s, search) = Open(q, s, search)
    BY <1>1, <1>2 DEF SearchStatement
  <2> QED
    BY <1>2, <2>1, OpenResult
<1>3. CASE s.kind = "static_if"
  <2>1. PICK i : i = JobFor("ResolveStaticIf", s)
    OBVIOUS
  <2>2. SearchStaticIf(q, s, i) = Stopped
    BY <1>1, <1>3, <2>1 DEF SearchStatement
  <2>3. SearchDeclarations(q, s) # Stopped
    <3> DEFINE d == Declaration(s, q.name)
    <3>1. CASE d = None \/ d.at = q.ignore
      BY <3>1, Tags DEF SearchDeclarations
    <3>2. CASE ~(d = None \/ d.at = q.ignore)
      <4>1. SearchDeclarations(q, s) = get_simple_resolved_declaration(d)
        BY <1>3, <3>2 DEF SearchDeclarations
      <4>2. get_simple_resolved_declaration(d) # Stopped
        <5> HIDE DEF d
        <5> QED
          BY Tags DEF get_simple_resolved_declaration
      <4> QED
        BY <4>1, <4>2
    <3> QED
      BY <3>1, <3>2
  <2> QED
    BY <1>3, <2>1, <2>2, <2>3, StaticIfSearched, Tags
<1>4. CASE s.kind = "variable" /\ q.runtime /\ s.name = q.name
  <2>1. PICK i : i = JobFor("GenerateStaticVariable", s)
    OBVIOUS
  <2>2. SearchVariable(s, i) = Stopped
    BY <1>1, <1>4, <2>1 DEF SearchStatement
  <2> QED
    BY <2>2, Tags DEF SearchVariable
<1> QED
  BY <1>1, <1>2, <1>3, <1>4, Tags DEF SearchStatement

(* A search that finds nothing: what comes before the place it stopped at. *)
LEMMA NothingBefore ==
  ASSUME Structure, NEW search, Good(search), NEW q \in Known, q.external => ~HidesImport(q),
         Scan(q, search) \in {Nothing, Stopped}
  PROVE  /\ SearchAt(q, 0, search) = Nothing
         /\ \A s \in StatementsOf(q.file) :
              IsReached(s) /\ IsBefore(s, q.ignore) => SearchStatement(q, s, search) = Nothing
<1> DEFINE N == Len(program[q.file])
           item == Steps(q, search)
<1>1. program \in Programs /\ q.file \in Files /\ N \in Nat
  <2>1. program \in Programs /\ q.file \in Files
    BY KnownIs DEF Structure, TypesOK
  <2> QED
    BY <2>1, ProgramIs DEF IsProgram
<1>2. IsFirst(item, N, Scan(q, search))
  BY <1>1, ScanIs DEF ScanFinds
<1>3. \A n \in 0 .. N : item[n] = SearchAt(q, n, search)
  BY DEF Steps
<1>4. ASSUME NEW n \in 1 .. N
      PROVE  LET s == program[q.file][n]
             IN  /\ IsNth(s, q.file, n) /\ s \in StatementsOf(q.file)
                 /\ IsReached(s) => item[n] = SearchStatement(q, s, search)
                 /\ ~IsReached(s) => item[n] = Nothing
  <2> DEFINE s == program[q.file][n]
  <2>1. n \in DOMAIN program[q.file] /\ n \in 0 .. N /\ n # 0 /\ n > 0
    BY <1>1, ProgramIs DEF IsProgram
  <2>2. IsNth(s, q.file, n) /\ s \in StatementsOf(q.file)
    BY <1>1, <2>1, NthStatement
  <2>3. SearchAt(q, n, search) = IF IsReached(s) THEN SearchStatement(q, s, search) ELSE Nothing
    BY <2>1 DEF SearchAt
  <2> QED
    BY <1>3, <2>1, <2>2, <2>3
<1> HIDE DEF item, N
<1>5. item[0] = Nothing
  <2>1. 0 \in 0 .. N /\ \A k \in 0 .. N : 0 \in 0 .. k - 1 \/ k = 0
    BY <1>1
  <2>2. item[0] \in {Nothing, Stopped}
    BY <1>2, <2>1, Tags DEF IsFirst
  <2>3. item[0] = SearchDeclarations(q, Top(q.file)) /\ Counts(Top(q.file), q.file)
    BY <1>3, <2>1 DEF SearchAt, Counts
  <2> QED
    BY <2>2, <2>3, NotDeclared
<1>6. ASSUME NEW n \in 1 .. N, NEW s, s = program[q.file][n], IsReached(s), IsBefore(s, q.ignore)
      PROVE  item[n] = Nothing
  <2>1. CASE \A m \in 0 .. N : item[m] = Nothing
    BY <2>1
  <2>2. CASE \E k \in 0 .. N : item[k] = Stopped /\ \A m \in 0 .. k - 1 : item[m] = Nothing
    <3>1. PICK k \in 0 .. N : item[k] = Stopped /\ \A m \in 0 .. k - 1 : item[m] = Nothing
      BY <2>2
    <3>2. k # 0 /\ k \in 1 .. N
      BY <1>5, <3>1, Tags
    <3>3. PICK t : t = program[q.file][k]
      OBVIOUS
    <3>4. IsReached(t) /\ IsNth(t, q.file, k) /\ t \in StatementsOf(q.file) /\ SearchStatement(q, t, search) = Stopped
      BY <1>4, <3>1, <3>2, <3>3, Tags
    <3>5. t.at = q.ignore
      BY <3>4, StatementStops
    <3>6. q.ignore[2] = k /\ q.ignore # NoPlace
      BY <3>2, <3>4, <3>5 DEF IsNth, NoPlace
    <3>7. s.at[2] = n
      BY <1>4, <1>6 DEF IsNth
    <3>8. n < k
      BY <1>6, <3>6, <3>7 DEF IsBefore
    <3> QED
      BY <3>1, <3>8
  <2> QED
    BY <1>2, <2>1, <2>2 DEF IsFirst
<1>7. ASSUME NEW s \in StatementsOf(q.file), IsReached(s), IsBefore(s, q.ignore)
      PROVE  SearchStatement(q, s, search) = Nothing
  <2>1. PICK n : IsNth(s, q.file, n)
    BY <1>1, StatementIs
  <2>2. n \in 1 .. N /\ s = program[q.file][n]
    BY <2>1 DEF IsNth, N
  <2> QED
    BY <1>4, <1>6, <1>7, <2>2
<1>8. SearchAt(q, 0, search) = Nothing
  <2>1. 0 \in 0 .. N
    BY <1>1
  <2> QED
    BY <1>3, <1>5, <2>1
<1> QED
  BY <1>7, <1>8

(* The job of a static if.                                                 *)
LEMMA ParentJob ==
  ASSUME Structure, NEW f \in Files, NEW p \in StatementsOf(f), p.kind = "static_if",
         NEW i \in DOMAIN jobs, jobs[i].statement.at = p.at
  PROVE  JobFor("ResolveStaticIf", p) = i /\ i # 0
<1>1. program \in Programs /\ jobs \in Seq(Job) /\ JobsAreUnique
  BY DEF Structure, TypesOK
<1>2. PICK s, kind : s = jobs[i].statement /\ kind = jobs[i].kind /\ IsJobOf(kind, s)
  BY DEF Structure, JobsAreOfStatements
<1>3. PICK n : IsNth(p, f, n)
  BY <1>1, StatementIs
<1>4. \A g \in Files : s # Top(g)
  BY <1>2, <1>3, TopType DEF IsNth
<1>5. s = p
  <2>1. PICK g \in Files : s \in StatementsOf(g)
    BY <1>2, <1>4 DEF IsJobOf, IsStatement
  <2> QED
    BY <1>1, <1>2, <2>1, StatementAt
<1>6. kind = "ResolveStaticIf"
  BY <1>2, <1>4, <1>5 DEF IsJobOf, JobKind
<1> QED
  BY <1>1, <1>2, <1>5, <1>6, JobForUnique

(* What counts is live, and what is in a static if that is false is dead.  *)
LEMMA LiveIsReached ==
  ASSUME Structure, NEW f \in Files, NEW s \in StatementsOf(f)
  PROVE  /\ IsLive(s) <=> IsReached(s)
         /\ \A m \in s.within \ {0} : \A i \in DOMAIN jobs :
              jobs[i].statement = program[f][m] /\ IsDone(i) /\ ~IsTrue(jobs[i].value) => IsDead(s)
<1>1. program \in Programs /\ jobs \in Seq(Job)
  BY DEF Structure, TypesOK
<1>2. PICK n : IsNth(s, f, n)
  BY <1>1, StatementIs
<1>3. Parents(s) = {program[f][m].at : m \in s.within \ {0}}
  BY <1>2 DEF Parents, IsNth
<1>4. ASSUME NEW m \in s.within \ {0}
      PROVE  LET p == program[f][m]
             IN  ComesTrue(p) <=> \E i \in DOMAIN jobs : jobs[i].statement.at = p.at /\ IsDone(i) /\ IsTrue(jobs[i].value)
  <2> DEFINE p == program[f][m]
  <2>1. p \in StatementsOf(f) /\ p.kind = "static_if"
    BY <1>2 DEF IsNth
  <2>2. ASSUME ComesTrue(p)
        PROVE  \E i \in DOMAIN jobs : jobs[i].statement.at = p.at /\ IsDone(i) /\ IsTrue(jobs[i].value)
    BY <1>1, <2>2, JobForIs DEF ComesTrue, JobForFinds
  <2>3. ASSUME NEW i \in DOMAIN jobs, jobs[i].statement.at = p.at, IsDone(i), IsTrue(jobs[i].value)
        PROVE  ComesTrue(p)
    <3>1. JobFor("ResolveStaticIf", p) = i /\ i # 0
      BY <2>1, <2>3, ParentJob
    <3> QED
      BY <2>3, <3>1 DEF ComesTrue
  <2> QED
    BY <2>2, <2>3
<1>5. IsReached(s) <=> \A m \in s.within \ {0} : ComesTrue(program[f][m])
  BY <1>2 DEF IsReached, IsNth
<1>6. IsLive(s) <=> IsReached(s)
  BY <1>3, <1>4, <1>5 DEF IsLive
<1>7. ASSUME NEW m \in s.within \ {0}, NEW i \in DOMAIN jobs, jobs[i].statement = program[f][m], IsDone(i),
             ~IsTrue(jobs[i].value)
      PROVE  IsDead(s)
  BY <1>3, <1>7 DEF IsDead
<1> QED
  BY <1>6, <1>7

(* The innermost static if that holds a statement.                         *)
LEMMA Innermost ==
  ASSUME program \in Programs, NEW f \in Files, NEW s, NEW n, IsNth(s, f, n), s.within # {0}
  PROVE  \E m \in s.within \ {0} : s.within = program[f][m].within \cup {m}
<1> DEFINE I == {x \in Nat : x <= n /\ n - x \in s.within \ {0}}
<1>1. I \in SUBSET Nat /\ I # {}
  <2>1. PICK m \in s.within \ {0} : TRUE
    BY DEF IsNth
  <2>2. m \in Nat /\ m < n /\ n \in Nat
    BY <2>1 DEF IsNth
  <2>3. n - m \in Nat /\ n - m <= n /\ n - (n - m) = m
    BY <2>2
  <2> QED
    BY <2>1, <2>3
<1>2. PICK x \in I : \A y \in I : x <= y
  <2> HIDE DEF I
  <2> QED
    BY <1>1, LeastNatural
<1> DEFINE m == n - x
<1>3. m \in s.within \ {0} /\ m \in Nat /\ m < n /\ n \in Nat
  BY <1>2 DEF IsNth
<1>4. ASSUME NEW k \in s.within \ {0}
      PROVE  k <= m
  <2>1. k \in Nat /\ k < n
    BY <1>4 DEF IsNth
  <2>2. n - k \in I
    <3>1. n - k \in Nat /\ n - k <= n /\ n - (n - k) = k
      BY <1>3, <2>1
    <3> QED
      BY <1>4, <3>1
  <2>3. x <= n - k /\ x \in Nat
    BY <1>2, <2>2
  <2> QED
    BY <1>3, <2>1, <2>3
<1>5. program[f][m].within = s.within \cap 0 .. m - 1
  BY <1>3 DEF IsNth
<1> HIDE DEF m
<1>6. \A k \in s.within : k \in 0 .. m - 1 \/ k = m
  <2>1. s.within \subseteq 0 .. n - 1
    BY DEF IsNth
  <2>2. m >= 1
    BY <1>3 DEF IsNth
  <2> QED
    BY <1>3, <1>4, <2>1, <2>2
<1> QED
  BY <1>3, <1>5, <1>6

(* A static if holds what is in those that it holds.                       *)
LEMMA HoldsName ==
  ASSUME program \in Programs, NEW f \in Files, NEW s, NEW n, IsNth(s, f, n), NEW name, CouldHave(s, name)
  PROVE  /\ s.kind \notin {"using", "static_if"} => Declares(s) /\ s.name = name
         /\ \A m \in s.within \ {0} : does_or_could_have_name(program[f][m], name)
<1>1. s \in StatementsOf(f)
  BY NthStatement DEF IsNth
<1>2. ASSUME NEW t \in StatementsOf(f), IsWithin(t, s)
      PROVE  s.kind = "static_if" /\ s.within \subseteq t.within
  <2>1. PICK k : IsNth(t, f, k)
    BY StatementIs
  <2>2. n \in t.within \ {0}
    BY <1>2 DEF IsWithin, IsNth
  <2>3. s = program[f][n]
    BY DEF IsNth
  <2> QED
    BY <2>1, <2>2, <2>3 DEF IsNth
<1>3. does_or_could_have_name(s, name) =>
        \E t \in StatementsOf(f) : IsWithin(t, s) /\ (t.kind = "using" \/ (Declares(t) /\ t.name = name))
  BY DEF does_or_could_have_name, IsNth, StatementsOf
<1>4. s.kind \notin {"using", "static_if"} => Declares(s) /\ s.name = name
  BY <1>2, <1>3 DEF CouldHave
<1>5. ASSUME NEW m \in s.within \ {0}
      PROVE  does_or_could_have_name(program[f][m], name)
  <2>1. PICK p : p = program[f][m] /\ p.at[2] = m /\ FileOf(p) = f
    BY DEF IsNth, FileOf
  <2>2. PICK t \in StatementsOf(f) : s.within \subseteq t.within /\ (t.kind = "using" \/ (Declares(t) /\ t.name = name))
    BY <1>1, <1>2, <1>3 DEF CouldHave
  <2>3. FileOf(t) = f
    BY <2>2, StatementIs DEF IsNth
  <2>4. IsWithin(t, p)
    BY <1>5, <2>1, <2>2, <2>3 DEF IsWithin
  <2> QED
    BY <2>1, <2>2, <2>4 DEF does_or_could_have_name, StatementsOf
<1> QED
  BY <1>4, <1>5

(* What could have declared a name that is not found is settled.           *)
LEMMA NothingFoundIsSettled ==
  ASSUME Structure, NEW search, Good(search), NEW q \in Known, q.external => ~HidesImport(q),
         Scan(q, search) \in {Nothing, Stopped},
         NEW s \in StatementsOf(q.file), IsBefore(s, q.ignore), CouldHave(s, q.name)
  PROVE  IsSettled(s)
<1> DEFINE f == q.file
<1>1. program \in Programs /\ f \in Files
  BY KnownIs DEF Structure, TypesOK
<1>2. PICK n : IsNth(s, f, n)
  BY <1>1, StatementIs
<1>3. ASSUME NEW m \in s.within \ {0}, NEW p, p = program[f][m], IsReached(p)
      PROVE  /\ p \in StatementsOf(f) /\ p.kind = "static_if" /\ p.within \subseteq s.within
             /\ \E i : i = JobFor("ResolveStaticIf", p) /\ SearchStaticIf(q, p, i) = Nothing
  <2>1. /\ p \in StatementsOf(f) /\ p.kind = "static_if" /\ p.at = <<f, m>> /\ m \in Nat /\ m >= 1 /\ m < n
        /\ p.within \subseteq s.within
    BY <1>2, <1>3 DEF IsNth
  <2>2. IsBefore(p, q.ignore) /\ p.at # q.ignore
    <3>1. s.at[2] = n /\ p.at[2] = m /\ n \in Nat
      BY <1>2, <2>1 DEF IsNth
    <3>2. CASE q.ignore = NoPlace
      BY <2>1, <3>2 DEF IsBefore, NoPlace
    <3>3. CASE n < q.ignore[2]
      <4>1. q.ignore[2] \in Nat
        BY DEF Known, Queries, Places
      <4> QED
        BY <2>1, <3>1, <3>3, <4>1 DEF IsBefore
    <3> QED
      BY <3>1, <3>2, <3>3 DEF IsBefore
  <2>3. SearchStatement(q, p, search) = Nothing
    BY <1>3, <2>1, <2>2, NothingBefore
  <2>4. PICK i : i = JobFor("ResolveStaticIf", p)
    OBVIOUS
  <2>5. SearchStatement(q, p, search) = SearchStaticIf(q, p, i)
    BY <2>1, <2>2, <2>4 DEF SearchStatement
  <2> QED
    BY <2>1, <2>3, <2>4, <2>5
<1>4. CASE IsReached(s)
  <2>1. IsLive(s)
    BY <1>1, <1>4, LiveIsReached
  <2>2. SUFFICES ASSUME s.kind \notin {"using", "static_if"}
                 PROVE  FALSE
    BY <2>1 DEF IsSettled
  <2>3. Declares(s) /\ s.name = q.name
    BY <1>1, <1>2, <2>2, HoldsName
  <2>4. CASE s.within = {0}
    <3>1. IsIn(s, Top(f))
      BY <1>1, <1>2, <2>4, TopType DEF IsIn, IsNth
    <3>2. SearchDeclarations(q, Top(f)) = Nothing
      BY NothingBefore DEF SearchAt
    <3>3. Counts(Top(f), f)
      BY DEF Counts
    <3> QED
      BY <2>3, <3>1, <3>2, <3>3, NotDeclared
  <2>5. CASE s.within # {0}
    <3>1. PICK m \in s.within \ {0} : s.within = program[f][m].within \cup {m}
      BY <1>1, <1>2, <2>5, Innermost
    <3>2. PICK p : p = program[f][m]
      OBVIOUS
    <3>3. p.at = <<f, m>> /\ FileOf(p) = f /\ FileOf(s) = f
      BY <1>2, <3>1, <3>2 DEF IsNth, FileOf
    <3>4. IsReached(p) /\ ComesTrue(p)
      BY <1>4, <3>1, <3>2, <3>3 DEF IsReached
    <3>5. PICK i : i = JobFor("ResolveStaticIf", p) /\ SearchStaticIf(q, p, i) = Nothing
      BY <1>3, <3>1, <3>2, <3>4
    <3>6. p \in StatementsOf(f) /\ p.kind = "static_if"
      BY <1>3, <3>1, <3>2, <3>4
    <3>7. IsDone(i) /\ IsTrue(jobs[i].value)
      BY <3>4, <3>5 DEF ComesTrue
    <3>8. Counts(p, f) /\ SearchDeclarations(q, p) = Nothing
      BY <3>4, <3>5, <3>6, <3>7, StaticIfSearched
    <3>9. IsIn(s, p)
      BY <3>1, <3>2, <3>3 DEF IsIn
    <3> QED
      BY <2>3, <3>8, <3>9, NotDeclared
  <2> QED
    BY <2>4, <2>5
<1>5. CASE ~IsReached(s)
  <2> DEFINE I == {m \in s.within \ {0} : ~ComesTrue(program[f][m])}
  <2>1. I # {} /\ I \in SUBSET Nat
    BY <1>2, <1>5 DEF IsReached, IsNth
  <2>2. PICK m \in I : \A k \in I : m <= k
    <3> HIDE DEF I
    <3> QED
      BY <2>1, LeastNatural
  <2>3. PICK p : p = program[f][m]
    OBVIOUS
  <2>4. IsReached(p) /\ ~ComesTrue(p)
    <3>1. p.within = s.within \cap 0 .. m - 1 /\ FileOf(p) = f /\ m \in Nat
      BY <1>2, <2>2, <2>3 DEF IsNth, FileOf
    <3>2. ASSUME NEW k \in p.within \ {0}
          PROVE  ComesTrue(program[f][k])
      <4>1. k \in s.within \ {0} /\ k \in 0 .. m - 1
        BY <3>1, <3>2
      <4>2. ~(m <= k)
        BY <3>1, <4>1
      <4> QED
        BY <2>2, <4>1, <4>2
    <3> QED
      BY <2>2, <2>3, <3>1, <3>2 DEF IsReached
  <2>5. PICK i : i = JobFor("ResolveStaticIf", p) /\ SearchStaticIf(q, p, i) = Nothing
    BY <1>3, <2>2, <2>3, <2>4
  <2>6. p \in StatementsOf(f) /\ p.kind = "static_if"
    BY <1>3, <2>2, <2>3, <2>4
  <2>7. /\ i # 0 /\ i \in DOMAIN jobs /\ jobs[i].statement = p
        /\ ~IsDone(i) => SearchStaticIf(q, p, i) = IF does_or_could_have_name(p, q.name) THEN Wait(i) ELSE Nothing
    BY <2>4, <2>5, <2>6, StaticIfSearched
  <2>8. does_or_could_have_name(p, q.name)
    BY <1>1, <1>2, <2>2, <2>3, HoldsName
  <2>9. IsDone(i)
    BY <2>5, <2>7, <2>8, Tags
  <2>10. ~IsTrue(jobs[i].value)
    BY <2>4, <2>5, <2>7, <2>9 DEF ComesTrue
  <2> QED
    BY <1>1, <2>2, <2>3, <2>7, <2>9, <2>10, LiveIsReached DEF IsSettled
<1> QED
  BY <1>4, <1>5

(* A search in an import that a using opens.                               *)
LEMMA OperandIsImport ==
  ASSUME Structure, NEW n \in 0 .. MaxDepth, n # 0, NEW q \in Known, ~q.external, NEW import,
         import = Declaration(Top(q.file), q.name), import # None, import.kind = "import"
  PROVE  \/ Search[n][q].tag = "wait"
         \/ Search[n][q] = Found(import, import) /\ IsValue(import)
<1>1. program \in Programs /\ q.file \in Files /\ Parsed(q.file)
  BY KnownIs DEF Structure, TypesOK
<1>2. MaxDepth \in Nat /\ n - 1 \in 0 .. MaxDepth /\ Known \in SUBSET Queries
  <2>1. MaxDepth \in Nat
    BY ProgramsAssumption
  <2>2. n - 1 \in 0 .. MaxDepth
    BY <2>1
  <2>3. Known \in SUBSET Queries
    BY DEF Known
  <2> QED
    BY <2>1, <2>2, <2>3
<1>3. PICK search : search = Search[n - 1]
  OBVIOUS
<1>4. Search[n][q] = Scan(q, search)
  BY <1>2, <1>3, SearchIs DEF SearchUnfolds
<1>5. import \in StatementsOf(q.file) /\ IsIn(import, Top(q.file)) /\ Declares(import)
  BY <1>1, TopType, DeclarationIs
<1>6. IsReached(import)
  BY <1>1, <1>5, ChildReached DEF ChildrenReached, Counts
<1>7. import.at # q.ignore
  BY <1>5 DEF Known
<1> DEFINE r == get_simple_resolved_declaration(import)
<1>8. SearchAt(q, 0, search) = r
  <2>1. SearchAt(q, 0, search) = SearchDeclarations(q, Top(q.file))
    BY DEF SearchAt
  <2> QED
    BY <1>7, <2>1 DEF SearchDeclarations
<1>9. IsResult(r) /\ r.tag \in {"found", "wait"}
  BY <1>1, <1>5, <1>6, DeclarationResult
<1>10. r.tag = "found" => r = Found(import, import)
  <2>1. r \in {Aborted, Found(import, import)} \/ \E i : r = Wait(i)
    BY DEF get_simple_resolved_declaration
  <2> HIDE DEF r
  <2> QED
    BY <2>1, Tags
<1> HIDE DEF r
<1>11. Search[n][q] = r
  <2> DEFINE N == Len(program[q.file])
             item == Steps(q, search)
  <2>1. N \in Nat /\ IsFirst(item, N, Scan(q, search))
    BY <1>1, ProgramIs, ScanIs DEF IsProgram, ScanFinds
  <2>2. 0 \in 0 .. N /\ (\A k \in 0 .. N : 0 \in 0 .. k - 1 \/ k = 0)
    BY <2>1
  <2>3. item[0] = r /\ r # Nothing
    BY <1>8, <1>9, <2>2, Tags DEF Steps
  <2> HIDE DEF item, N
  <2> QED
    BY <1>4, <2>1, <2>2, <2>3 DEF IsFirst
<1> QED
  BY <1>9, <1>10, <1>11, ResultTags, Tags

(* What a using opens has nothing that could declare the name either.      *)
LEMMA OpenedIsSettled ==
  ASSUME Structure, NEW n \in 0 .. MaxDepth, NEW q \in Known, ~q.external, Search[n][q] \in {Nothing, Stopped},
         NEW s \in StatementsOf(q.file), s.kind = "using", IsLive(s), s.at # q.ignore, IsBefore(s, q.ignore),
         NEW f \in Opened(s), NEW d \in StatementsOf(f), Declares(d), d.name = q.name,
         \A e \in StatementsOf(f) : e.kind = "import" => e.name # q.name
  PROVE  IsDead(d)
<1>1. program \in Programs /\ q.file \in Files /\ Parsed(q.file) /\ q.name \in Names /\ q.runtime \in BOOLEAN
  BY KnownIs DEF Structure, TypesOK
<1>2. MaxDepth \in Nat /\ Known \in SUBSET Queries
  BY ProgramsAssumption DEF Known
<1>3. n # 0
  BY <1>2, SearchIs, Tags DEF SearchUnfolds
<1>4. n - 1 \in 0 .. MaxDepth
  BY <1>2, <1>3
<1>5. PICK search : search = Search[n - 1] /\ Good(search)
  BY <1>4, SearchResults
<1>6. Scan(q, search) \in {Nothing, Stopped}
  BY <1>2, <1>3, <1>5, SearchIs DEF SearchUnfolds
<1>7. IsReached(s)
  BY <1>1, LiveIsReached
<1>8. Open(q, s, search) = Nothing
  <2>1. SearchStatement(q, s, search) = Nothing
    BY <1>5, <1>6, <1>7, NothingBefore
  <2> QED
    BY <2>1 DEF SearchStatement
<1>9. s.ref \in Seq(Names) /\ FileOf(s) = q.file /\ s.ref # <<>>
  BY <1>1, StatementIs DEF IsNth, Statements
<1> DEFINE import == Declaration(Top(q.file), s.ref[1])
<1>10. import # None /\ import.kind = "import" /\ Len(s.ref) = 1 /\ f = import.file
  BY <1>9 DEF Opened
<1> HIDE DEF import
<1>11. s.ref[1] \in Names
  BY <1>9, <1>10
<1>12. PICK first \in Known : /\ ~first.external /\ first.name = s.ref[1] /\ first.file = q.file
                              /\ Open(q, s, search) = SearchIn(q, EvaluateName(first, search), search)
  <2> DEFINE ignore == IF q.runtime THEN NoPlace ELSE s.at
             operand == Query("", FileOf(s), FALSE, FALSE, ignore)
             first == [operand EXCEPT !.name = s.ref[1]]
  <2>1. operand \in Known /\ operand.external = FALSE
    <3>1. PICK place : place = ignore /\ (place = NoPlace \/ place = s.at)
      OBVIOUS
    <3>2. \/ place = NoPlace
          \/ /\ s \in StatementsOf(q.file) /\ IsReached(s) /\ place = s.at
             /\ s.kind \in {"using", "static_if"} /\ ~FALSE
      BY <1>7, <3>1
    <3>3. LET r == Query("", FileOf(s), FALSE, FALSE, place)
          IN  r \in Known /\ r.external = FALSE
      BY <1>1, <1>9, <3>2, OperandKnown
    <3> HIDE DEF ignore
    <3> QED
      BY <3>1, <3>3
  <2>2. operand.file = q.file
    BY <1>9 DEF Query
  <2>3. Open(q, s, search) = SearchIn(q, Evaluate(operand, s.ref, search), search)
    BY DEF Open
  <2> HIDE DEF operand
  <2>4. first \in Known /\ ~first.external /\ first.name = s.ref[1] /\ first.file = q.file
    BY <1>11, <2>1, <2>2, RenamedKnown
  <2>5. Evaluate(operand, s.ref, search) = EvaluateName(first, search)
    BY <1>10 DEF Evaluate
  <2> QED
    BY <2>3, <2>4, <2>5
<1> DEFINE object == search[first]
<1>13. n - 1 # 0
  <2>1. SUFFICES ASSUME n - 1 = 0
                 PROVE  FALSE
    OBVIOUS
  <2>2. object = Diverges
    BY <1>2, <1>4, <1>5, <2>1, SearchIs DEF SearchUnfolds
  <2>3. EvaluateName(first, search) = Diverges
    BY <2>2, Tags DEF EvaluateName, OrGlobalConstant
  <2>4. SearchIn(q, Diverges, search) = Diverges
    BY Tags DEF SearchIn
  <2> QED
    BY <1>8, <1>12, <2>3, <2>4, Tags
<1>14. object.tag = "wait" \/ (object = Found(import, import) /\ IsValue(import))
  <2>1. import = Declaration(Top(first.file), first.name)
    BY <1>12 DEF import
  <2> QED
    BY <1>4, <1>5, <1>10, <1>12, <1>13, <2>1, OperandIsImport
<1> HIDE DEF object
<1>15. EvaluateName(first, search) = object
  BY <1>14, Tags DEF EvaluateName, OrGlobalConstant, object
<1>16. object = Found(import, import) /\ IsValue(import)
  <2>1. object.tag = "wait" => SearchIn(q, object, search) = object
    BY DEF SearchIn
  <2> QED
    BY <1>8, <1>12, <1>14, <1>15, <2>1, Tags
<1> DEFINE sub == Query(q.name, f, TRUE, q.runtime, NoPlace)
<1>17. search[sub] \in {Nothing, Stopped}
  <2>1. Type(import) = "FileModule"
    BY <1>10, <1>16, ValueTypes
  <2>2. SearchIn(q, object, search) = SearchModule(q, f, search)
    BY <1>10, <1>16, <2>1, Tags DEF SearchIn
  <2> QED
    BY <1>8, <1>12, <1>15, <2>2 DEF SearchModule
<1>18. f \in Files /\ Parsed(f)
  BY <1>10, <1>16 DEF IsValue, AnyStatement
<1>19. sub \in Known /\ sub.file = f /\ sub.name = q.name /\ sub.ignore = NoPlace
  <2>1. sub.file = f /\ sub.name = q.name /\ sub.ignore = NoPlace
    BY DEF Query
  <2> QED
    BY <1>1, <1>18, <2>1, ModuleKnown
<1> HIDE DEF sub
<1>20. PICK deeper : deeper = Search[n - 2] /\ Good(deeper) /\ Scan(sub, deeper) \in {Nothing, Stopped}
  <2>1. n - 2 \in 0 .. MaxDepth /\ (n - 1) - 1 = n - 2
    BY <1>2, <1>4, <1>13
  <2> QED
    BY <1>2, <1>4, <1>5, <1>13, <1>17, <1>19, <2>1, SearchIs, SearchResults DEF SearchUnfolds
<1>21. ~HidesImport(sub) /\ IsBefore(d, sub.ignore) /\ CouldHave(d, sub.name)
  BY <1>19 DEF HidesImport, IsBefore, CouldHave
<1>22. IsSettled(d)
  BY <1>19, <1>20, <1>21, NothingFoundIsSettled
<1> QED
  BY <1>22 DEF IsSettled, Declares

(* What is said of a name that is missing.                                 *)
IsMissing(q) ==
  /\ \A s \in StatementsOf(q.file) : CouldHave(s, q.name) /\ IsBefore(s, q.ignore) => IsSettled(s)
  /\ \A s \in StatementsOf(q.file) : s.kind = "variable" /\ s.name = q.name => ~q.runtime \/ s.within # {0}
  /\ \A s \in StatementsOf(q.file) :
       s.kind = "using" /\ IsLive(s) /\ s.at # q.ignore /\ IsBefore(s, q.ignore) =>
         \A f \in Opened(s) : \A d \in StatementsOf(f) :
           /\ Declares(d) /\ d.name = q.name
           /\ \A e \in StatementsOf(f) : e.kind = "import" => e.name # q.name
           => IsDead(d)

(* A search that finds nothing: the name is missing.                       *)
LEMMA FailedIsMissing ==
  ASSUME Structure, NEW q \in Failed
  PROVE  IsMissing(q)
<1>1. PICK n \in 0 .. MaxDepth : q \in Known /\ ~q.external /\ Search[n][q] \in {Nothing, Stopped}
  BY DEF Failed
<1>2. program \in Programs /\ q.file \in Files
  BY <1>1, KnownIs DEF Structure, TypesOK
<1>3. PICK search : Good(search) /\ Scan(q, search) \in {Nothing, Stopped}
  <2>1. MaxDepth \in Nat /\ q \in Queries
    BY <1>1, ProgramsAssumption DEF Known
  <2>2. n # 0
    BY <1>1, <2>1, SearchIs, Tags DEF SearchUnfolds
  <2>3. n - 1 \in 0 .. MaxDepth
    BY <2>1, <2>2
  <2> QED
    BY <1>1, <2>1, <2>2, <2>3, SearchIs, SearchResults DEF SearchUnfolds
<1>4. ASSUME NEW s \in StatementsOf(q.file), CouldHave(s, q.name), IsBefore(s, q.ignore)
      PROVE  IsSettled(s)
  BY <1>1, <1>3, <1>4, NothingFoundIsSettled
<1>5. ASSUME NEW s \in StatementsOf(q.file), s.kind = "variable", s.name = q.name, q.runtime
      PROVE  s.within # {0}
  <2>1. SUFFICES ASSUME s.within = {0}
                 PROVE  FALSE
    OBVIOUS
  <2>2. q.ignore = NoPlace
    BY <1>1, <1>5 DEF Known
  <2>3. IsReached(s) /\ IsBefore(s, q.ignore)
    BY <2>1, <2>2 DEF IsReached, IsBefore
  <2>4. s.at # q.ignore
    BY <1>2, <2>2, StatementIs DEF IsNth, NoPlace
  <2>5. SearchStatement(q, s, search) = Nothing
    BY <1>1, <1>3, <2>3, NothingBefore
  <2>6. PICK i : i = JobFor("GenerateStaticVariable", s)
    OBVIOUS
  <2>7. SearchVariable(s, i) = Nothing
    BY <1>5, <2>4, <2>5, <2>6 DEF SearchStatement
  <2> QED
    BY <2>7, Tags DEF SearchVariable
<1>6. ASSUME NEW s \in StatementsOf(q.file), s.kind = "using", IsLive(s), s.at # q.ignore, IsBefore(s, q.ignore),
             NEW f \in Opened(s), NEW d \in StatementsOf(f), Declares(d), d.name = q.name,
             \A e \in StatementsOf(f) : e.kind = "import" => e.name # q.name
      PROVE  IsDead(d)
  BY <1>1, <1>6, OpenedIsSettled
<1> QED
  BY <1>4, <1>5, <1>6 DEF IsMissing

(* At the end nothing changes any more.                                    *)
LEMMA EndIsFinal ==
  ASSUME Next, outcome # "running"
  PROVE  UNCHANGED vars
BY DEF Next, ParseFile, ResolveConstantDefinition, ResolveStaticIf, ResolveEnumDefinition,
       ResolveFunctionDeclaration, GenerateFunction, GenerateStaticVariable, Selected, Report, Ended

(* And stays so when nothing changes.                                      *)
LEMMA IsMissingStays ==
  ASSUME program' = program, jobs' = jobs, NEW q
  PROVE  IsMissing(q)' <=> IsMissing(q)
<1>1. \A f : StatementsOf(f)' = StatementsOf(f)
  BY DEF StatementsOf
<1>2. \A s, name : does_or_could_have_name(s, name)' <=> does_or_could_have_name(s, name)
  BY DEF does_or_could_have_name
<1>3. \A s, name : CouldHave(s, name)' <=> CouldHave(s, name)
  BY <1>2 DEF CouldHave
<1>4. \A s : Parents(s)' = Parents(s)
  BY DEF Parents
<1>5. \A s : (IsLive(s)' <=> IsLive(s)) /\ (IsDead(s)' <=> IsDead(s))
  BY <1>4 DEF IsLive, IsDead, IsDone
<1>6. \A s : IsSettled(s)' <=> IsSettled(s)
  BY <1>5 DEF IsSettled
<1>7. \A s : Opened(s)' = Opened(s)
  <2>1. \A list, name : Declaration(list, name)' = Declaration(list, name)
    BY DeclarationStays
  <2> QED
    BY <2>1 DEF Opened
<1> QED
  BY <1>1, <1>3, <1>5, <1>6, <1>7 DEF IsMissing

(* The invariant of the name that was not found.                           *)
MissingInv ==
  /\ Inv
  /\ outcome = "running" => missing = {}
  /\ MissingIsMissing

(* It is about each name that is missing.                                  *)
LEMMA MissingMeans ==
  MissingIsMissing <=> \A q \in missing : IsMissing(q)
BY DEF MissingIsMissing, IsMissing

LEMMA MissingMeansNext ==
  MissingIsMissing' <=> (\A q \in missing : IsMissing(q))'
BY MissingMeans, PTL

(* All steps keep it.                                                      *)
LEMMA NextMissing ==
  ASSUME MissingInv, [Next]_vars
  PROVE  MissingInv'
<1>1. Inv'
  BY NextInv DEF MissingInv
<1>2. CASE UNCHANGED vars
  <2>1. \A q \in missing' : IsMissing(q)'
    BY <1>2, IsMissingStays, MissingMeans DEF MissingInv, vars
  <2> QED
    BY <1>1, <1>2, <2>1, MissingMeansNext DEF MissingInv, vars
<1>3. CASE Next /\ outcome = "running" /\ ~ UNCHANGED vars
  <2>1. missing = {}
    BY <1>3 DEF MissingInv
  <2>2. CASE \E i \in DOMAIN jobs : GoesOn(i)
    <3>1. missing' = {}
      BY <2>1, <2>2 DEF GoesOn
    <3> QED
      BY <1>1, <3>1, MissingMeansNext DEF MissingInv
  <2>3. CASE Halts
    <3>1. program' = program /\ jobs' = jobs /\ outcome' # "running"
      BY <2>3 DEF Halts
    <3>2. ASSUME NEW q \in missing'
          PROVE  IsMissing(q)'
      <4>1. q \in Failed
        BY <2>1, <2>3, <3>2 DEF Halts
      <4>2. IsMissing(q)
        BY <4>1, FailedIsMissing DEF MissingInv, Inv
      <4> QED
        BY <3>1, <4>2, IsMissingStays
    <3>3. MissingIsMissing'
      BY <3>2, MissingMeansNext
    <3> QED
      BY <1>1, <3>1, <3>3 DEF MissingInv
  <2> QED
    BY <1>3, <2>2, <2>3, StepIs DEF MissingInv, Inv
<1> QED
  BY <1>2, <1>3, EndIsFinal

(* When "Cannot find named reference" is reported nothing could still      *)
(* declare the name: what could is in a static if that is false, or is     *)
(* open and does not have it.                                              *)
THEOREM MissingStaysMissing == Spec => []MissingIsMissing
<1>1. Init => MissingInv
  BY InitIsStructured DEF Init, MissingInv, MissingIsMissing
<1>2. MissingInv /\ [Next]_vars => MissingInv'
  BY NextMissing
<1>3. MissingInv => MissingIsMissing
  BY DEF MissingInv
<1> QED
  BY <1>1, <1>2, <1>3, PTL DEF Spec

=============================================================================
