------------------------------ MODULE JobQueue ------------------------------
(***************************************************************************)
(* The compiler's job queue: the loop of cli_entry in main.cpp that turns  *)
(* one source path into the list of functions and variables handed to the *)
(* code generator.  Every file to parse, every declaration to resolve and *)
(* every function body to generate is a job in one growing list.  A job   *)
(* that needs the result of an unfinished job records that job's index    *)
(* and is started over from the beginning once it is done; the loop ends  *)
(* when a whole pass finds nothing to run.                                *)
(*                                                                        *)
(* What a handler does to the queue is kept: the jobs it appends, the job *)
(* it suspends on, its completion, its failure.  What it computes (types, *)
(* values, instructions) is abstracted to a nondeterministic choice.      *)
(* Indices are 1-based; 0 is "no job".                                    *)
(***************************************************************************)
EXTENDS Naturals, FiniteSets, SequencesExt

CONSTANTS
    Paths,            \* source files, by absolute path
    MainPath,         \* the file named on the command line
    Instances,        \* polymorphic definitions applied to parameters
    InstanceKind,     \* the kind of job that resolves each instance
    NoKey,            \* the key of a job that is neither file nor instance
    ScopeKinds,       \* the declarations that scopes may contain
    MaxJobs,          \* bound: jobs in the list
    MaxSpawn,         \* bound: jobs one handler run appends
    MaxStatics        \* bound: static constants of one function

DeclarationKinds ==
    {"ResolveFunctionDeclaration", "ResolveConstantDefinition",
     "ResolveStructDefinition", "ResolveUnionDefinition",
     "ResolveEnumDefinition", "ResolveStaticIf"}

PolymorphicKinds ==
    {"ResolvePolymorphicFunction", "ResolvePolymorphicStruct",
     "ResolvePolymorphicUnion"}

JobKind == {"ParseFile", "GenerateFunction", "GenerateStaticVariable"}
               \cup DeclarationKinds \cup PolymorphicKinds

ASSUME ConstantsAssumption ==
    /\ MainPath \in Paths
    /\ NoKey \notin Paths \cup Instances
    /\ Paths \cap Instances = {}
    /\ InstanceKind \in [Instances -> PolymorphicKinds]
    /\ ScopeKinds \subseteq DeclarationKinds
    /\ MaxJobs \in Nat \ {0}
    /\ MaxSpawn \in Nat
    /\ MaxStatics \in Nat

VARIABLES
    jobs,             \* the list of jobs, in the order they were appended
    main_state,       \* main_function_state: Waiting or Done
    main_waiting_for, \* the job the search for 'main' waits for
    main_operand,     \* whether the search met an instance in a using
    main_function,    \* the GenerateFunction job of 'main'; 0: uninitialised
    did_work,         \* whether this pass over the list ran anything
    runtime_statics,  \* what goes to the code generator: jobs, whose
                      \* results it is, and 0 for a static constant
    pc                \* where cli_entry is

vars == <<jobs, main_state, main_waiting_for, main_operand, main_function,
          did_work, runtime_statics, pc>>

JobState == {"Working", "Waiting", "Done"}

(* A job's key is the path of a ParseFile job and the definition and       *)
(* parameters of a polymorphic one.  owner is, for a GenerateFunction job, *)
(* the job that created the function: each run of that job allocates the   *)
(* body_scope, so it stands for the pair (declaration, body_scope) by      *)
(* which the code compares functions.  function is, when the result is a   *)
(* function value, the job that created the function: the job itself, or   *)
(* for a constant the one whose result it holds.  is_local marks the       *)
(* declarations of function bodies, which no other scope can name.         *)
Job == [kind : JobKind, state : JobState, waiting_for : Nat,
        key : Paths \cup Instances \cup {NoKey}, owner : Nat,
        function : Nat, is_local : BOOLEAN]

NewJob(kind, key, owner) ==
    [kind |-> kind, state |-> "Working", waiting_for |-> 0, key |-> key,
     owner |-> owner, function |-> 0, is_local |-> FALSE]

Finished == {"error", "circular", "abort", "assert_failed", "codegen"}

Init ==
    /\ jobs = <<NewJob("ParseFile", MainPath, 0)>>
    /\ main_state = "Waiting"
    /\ main_waiting_for = 1
    /\ main_operand = FALSE
    /\ main_function = 0
    /\ did_work = FALSE
    /\ runtime_statics = <<>>
    /\ pc = "scan"

-----------------------------------------------------------------------------
(* The scan.                                                               *)

Done(i) == jobs[i].state = "Done"

(* Mutants: a waiting job is never woken; it is woken whatever its blocker *)
(* is doing.                                                               *)
RunnableNeverWoken(i) == jobs[i].state = "Working"
RunnableAnyWaiting(i) == ~ Done(i)

Runnable(i) ==
    \/ jobs[i].state = "Working"
    \/ jobs[i].state = "Waiting" /\ Done(jobs[i].waiting_for)

(* The scan starts at the head of the list on every pass, so it runs the   *)
(* runnable job with the lowest index.                                     *)
Selected(i) == Runnable(i) /\ \A k \in 1 .. i - 1 : ~ Runnable(k)

Handling(i, kind) ==
    /\ pc = "scan"
    /\ jobs[i].kind = kind
    /\ Selected(i)

-----------------------------------------------------------------------------
(* What a handler may append.                                              *)

(* Mutant: only files already parsed are found.                            *)
AlreadyParsed(path, list) ==
    \E n \in DOMAIN list : list[n].kind = "ParseFile" /\ list[n].key = path
                               /\ list[n].state = "Done"

(* process_scope appends one ParseFile job for each path, whoever imports  *)
(* it: the list is searched before each append.                            *)
AlreadyAdded(path, list) ==
    \E n \in DOMAIN list : list[n].kind = "ParseFile" /\ list[n].key = path

Statements(is_top_level, is_local) ==
    {[NewJob(kind, NoKey, 0) EXCEPT !.is_local = is_local] :
        kind \in ScopeKinds}
      \cup {NewJob("ParseFile", path, 0) : path \in Paths}
      \cup (IF is_top_level
              THEN {NewJob("GenerateStaticVariable", NoKey, 0)} ELSE {})

process_scope(is_top_level, is_local) ==
    {new \in SeqOf(Statements(is_top_level, is_local), MaxSpawn) :
        \A n \in DOMAIN new :
            new[n].kind = "ParseFile" =>
                ~ AlreadyAdded(new[n].key, jobs \o SubSeq(new, 1, n - 1))}

(* A function is generated once, by whichever of its declaration, a call   *)
(* or an address-of expression comes first.                                *)
GenerateJobs(owner, list) ==
    {n \in DOMAIN list :
        list[n].kind = "GenerateFunction" /\ list[n].owner = owner}

FunctionValues ==
    {i \in DOMAIN jobs : Done(i) /\ jobs[i].function = i}

(* Mutant: functions are compared by nothing but being functions.          *)
GenerateDeclaredByKind(i, appended) ==
    IF \A n \in DOMAIN jobs : jobs[n].kind # "GenerateFunction"
      THEN <<NewJob("GenerateFunction", NoKey, i)>> ELSE <<>>

GenerateDeclared(i, appended) ==
    IF GenerateJobs(i, jobs \o appended) = {}
      THEN <<NewJob("GenerateFunction", NoKey, i)>> ELSE <<>>

(* Only a definition that has been resolved, to a value that is no function *)
(* yet, can be given parameters.                                           *)
DefinitionKind ==
    [ResolvePolymorphicFunction |-> "ResolveFunctionDeclaration",
     ResolvePolymorphicStruct |-> "ResolveStructDefinition",
     ResolvePolymorphicUnion |-> "ResolveUnionDefinition"]

Defined(inst) ==
    \E d \in DOMAIN jobs :
        /\ jobs[d].kind = DefinitionKind[InstanceKind[inst]]
        /\ Done(d) /\ jobs[d].function = 0

(* The use of a polymorphic definition searches the list for the instance, *)
(* and appends a job for it only when there is none.                       *)
NewInstances(list) ==
    {inst \in {k \in Instances : Defined(k)} :
        ~ \E n \in DOMAIN list : list[n].kind = InstanceKind[inst]
                                   /\ list[n].key = inst}

InstanceJob(inst) == NewJob(InstanceKind[inst], inst, 0)

(* An enum's backing type and an inline assembly operand are read with     *)
(* expect, not expect_delayed: a result that is still to come is taken for *)
(* a value, and the job appended for it is forgotten by the handler.       *)
UnnoticedWait == {<<>>} \cup {<<InstanceJob(inst)>> : inst \in NewInstances(jobs)}

GenerateCalled ==
    LET Wanted == {NewJob("GenerateFunction", NoKey, o) : o \in FunctionValues}
                    \cup {InstanceJob(inst) : inst \in Instances}
        Missing(job, list) ==
            IF job.kind = "GenerateFunction"
              THEN GenerateJobs(job.owner, list) = {}
              ELSE job.key \in NewInstances(list)
    IN  {new \in SeqOf(Wanted, MaxSpawn) :
            \A n \in DOMAIN new :
                Missing(new[n], jobs \o SubSeq(new, 1, n - 1))}

-----------------------------------------------------------------------------
(* How a handler ends.                                                     *)

(* The jobs an evaluation may wait for.  Only the runtime name search      *)
(* reads static variables; nothing reads a generated function.             *)
ConstantResults == JobKind \ {"GenerateFunction", "GenerateStaticVariable"}
RuntimeResults == JobKind \ {"GenerateFunction"}

(* Mutant: a finished job is waited for too.                               *)
UnfinishedOrDone(kinds) == {w \in DOMAIN jobs : jobs[w].kind \in kinds}

Unfinished(kinds) ==
    {w \in DOMAIN jobs : ~ Done(w) /\ jobs[w].kind \in kinds}

Room(new) == Len(jobs) + Len(new) <= MaxJobs

HandlerRan == did_work' = TRUE /\ pc' = "main"

(* Mutant: the handler completes the last job instead of its own.          *)
FinishLast(i, function, new) ==
    /\ Room(new)
    /\ jobs' = [jobs EXCEPT ![Len(jobs)].state = "Done",
                            ![Len(jobs)].function = function] \o new
    /\ HandlerRan

Finish(i, function, new) ==
    /\ Room(new)
    /\ jobs' = [jobs EXCEPT ![i].state = "Done",
                            ![i].function = function] \o new
    /\ HandlerRan

Suspend(i, w, new) ==
    /\ Room(new)
    /\ jobs' = [jobs EXCEPT ![i].state = "Waiting",
                            ![i].waiting_for = w] \o new
    /\ HandlerRan
    /\ UNCHANGED runtime_statics

(* Mutant: the index of the appended job is one too high.                  *)
BlocksPastEnd(i, kinds, called) ==
    \/ \E w \in Unfinished(kinds) : Suspend(i, w, called)
    \/ \E inst \in NewInstances(jobs \o called) :
          LET new == Append(called, InstanceJob(inst))
          IN  Suspend(i, Len(jobs) + Len(new) + 1, new)

(* A search that finds an unfinished job, possibly the very job that is    *)
(* searching, waits for it; a use of an instance nobody asked for appends  *)
(* its job and waits for that.                                             *)
Blocks(i, kinds, called) ==
    \/ \E w \in Unfinished(kinds) : Suspend(i, w, called)
    \/ \E inst \in NewInstances(jobs \o called) :
          LET new == Append(called, InstanceJob(inst))
          IN  Suspend(i, Len(jobs) + Len(new), new)

Fails ==
    /\ pc' = "error"
    /\ UNCHANGED <<jobs, did_work, runtime_statics>>

MainUnchanged ==
    UNCHANGED <<main_state, main_waiting_for, main_operand, main_function>>

-----------------------------------------------------------------------------
(* The handlers, one per job kind.                                         *)

ParseFile(i) ==
    /\ Handling(i, "ParseFile")
    /\ \/ \E new \in process_scope(TRUE, FALSE) : Finish(i, 0, new)
       \/ Fails
    /\ UNCHANGED runtime_statics
    /\ MainUnchanged

ResolveStaticIf(i) ==
    /\ Handling(i, "ResolveStaticIf")
    /\ \/ \E condition \in BOOLEAN :
            \E new \in IF condition THEN process_scope(TRUE, jobs[i].is_local)
                                  ELSE {<<>>} :
              Finish(i, 0, new)
       \/ Blocks(i, ConstantResults, <<>>)
       \/ Fails
    /\ UNCHANGED runtime_statics
    /\ MainUnchanged

(* A declaration without a body is a function type, and one with constant  *)
(* or polymorphic parameters is no function until it has them; any other   *)
(* is a function, whose generation is queued at once.                      *)
ResolveFunctionDeclaration(i) ==
    /\ Handling(i, "ResolveFunctionDeclaration")
    /\ \/ Finish(i, 0, <<>>)
       \/ \E new \in process_scope(FALSE, TRUE) :
            Finish(i, i, new \o GenerateDeclared(i, new))
       \/ Blocks(i, ConstantResults, <<>>)
       \/ Fails
    /\ UNCHANGED runtime_statics
    /\ MainUnchanged

ResolvePolymorphicFunction(i) ==
    /\ Handling(i, "ResolvePolymorphicFunction")
    /\ \/ \E new \in process_scope(FALSE, TRUE) : Finish(i, i, new)
       \/ Blocks(i, ConstantResults, <<>>)
       \/ Fails
    /\ UNCHANGED runtime_statics
    /\ MainUnchanged

(* The function values an expression may evaluate to: the expressions of   *)
(* a body reach every function, those of a file no function declared in a  *)
(* body.                                                                   *)
Reachable(is_local) ==
    {o \in FunctionValues :
        \/ jobs[o].kind = "ResolvePolymorphicFunction"
        \/ jobs[o].is_local => is_local}

ResolveConstantDefinition(i) ==
    /\ Handling(i, "ResolveConstantDefinition")
    /\ \/ \E function \in {0} \cup Reachable(jobs[i].is_local) :
            Finish(i, function, <<>>)
       \/ Blocks(i, ConstantResults, <<>>)
       \/ Fails
    /\ UNCHANGED runtime_statics
    /\ MainUnchanged

(* Structs, unions and the polymorphic structs and unions append, like     *)
(* constants, nothing but the instance they wait for.                      *)
ResolveDefinition(i, kind) ==
    /\ Handling(i, kind)
    /\ \/ Finish(i, 0, <<>>)
       \/ Blocks(i, ConstantResults, <<>>)
       \/ Fails
    /\ UNCHANGED runtime_statics
    /\ MainUnchanged

ResolveStructDefinition(i)   == ResolveDefinition(i, "ResolveStructDefinition")
ResolvePolymorphicStruct(i)  == ResolveDefinition(i, "ResolvePolymorphicStruct")
ResolveUnionDefinition(i)    == ResolveDefinition(i, "ResolveUnionDefinition")
ResolvePolymorphicUnion(i)   == ResolveDefinition(i, "ResolvePolymorphicUnion")

ResolveEnumDefinition(i) ==
    /\ Handling(i, "ResolveEnumDefinition")
    /\ \/ \E new \in UnnoticedWait :
            Finish(i, 0, new) \/ Blocks(i, ConstantResults, new)
       \/ Fails
    /\ UNCHANGED runtime_statics
    /\ MainUnchanged

(* Generating a body starts over after every wait it notices, so the calls *)
(* met before are met again: the functions they queued must be found.  The *)
(* function is passed on, and after it the static constants of its body.   *)
GenerateFunction(i) ==
    /\ Handling(i, "GenerateFunction")
    /\ \/ /\ \E called \in GenerateCalled : Finish(i, 0, called)
          /\ \E constants \in SeqOf({0}, MaxStatics) :
                runtime_statics' = Append(runtime_statics, i) \o constants
       \/ \E called \in GenerateCalled : Blocks(i, RuntimeResults, called)
       \/ Fails
    /\ MainUnchanged

GenerateStaticVariable(i) ==
    /\ Handling(i, "GenerateStaticVariable")
    /\ \/ /\ Finish(i, 0, <<>>)
          /\ runtime_statics' = Append(runtime_statics, i)
       \/ Blocks(i, ConstantResults, <<>>)
       \/ Fails
    /\ MainUnchanged

(* A pass that finds nothing to run.                                       *)
NothingToRun ==
    /\ pc = "scan"
    /\ \A i \in DOMAIN jobs : ~ Runnable(i)
    /\ pc' = "main"
    /\ UNCHANGED <<jobs, did_work, runtime_statics>>
    /\ MainUnchanged

-----------------------------------------------------------------------------
(* The step for 'main', after every pass.                                  *)

MainReady == main_state = "Waiting" /\ Done(main_waiting_for)

NextPass == pc' = "scan" /\ did_work' = FALSE

MainNotReady ==
    /\ pc = "main"
    /\ ~ MainReady
    /\ IF did_work THEN NextPass ELSE pc' = "report" /\ UNCHANGED did_work
    /\ UNCHANGED <<jobs, runtime_statics>>
    /\ MainUnchanged

(* The search waits for an instance itself, and not through a name, only   *)
(* for the operand of a using.  With that operand it fails once the        *)
(* instance is done: a function or a type made so is no file and no enum.  *)
(* (An enum picked out of a literal that also holds an instance is left    *)
(* out.)                                                                   *)
MainWaits ==
    /\ pc = "main"
    /\ MainReady
    /\ \/ \E w \in Unfinished(ConstantResults) :
            main_waiting_for' = w /\ UNCHANGED jobs
       \/ \E inst \in NewInstances(jobs) :
            LET new == <<InstanceJob(inst)>>
            IN  /\ Room(new)
                /\ jobs' = jobs \o new
                /\ main_waiting_for' = Len(jobs) + 1
    /\ main_operand' =
          (main_operand \/ jobs'[main_waiting_for'].kind \in PolymorphicKinds)
    /\ NextPass
    /\ UNCHANGED <<main_state, main_function, runtime_statics>>

MainFails ==
    /\ pc = "main"
    /\ MainReady
    /\ Fails
    /\ MainUnchanged

(* 'main' names a declaration or a constant of a file.  A declaration      *)
(* evaluates to its own function; only a constant can hold an instance of  *)
(* a polymorphic one.                                                      *)
Nameable(owner) ==
    \/ /\ jobs[owner].kind = "ResolveFunctionDeclaration"
       /\ ~ jobs[owner].is_local
    \/ \E c \in DOMAIN jobs :
          /\ jobs[c].kind = "ResolveConstantDefinition"
          /\ ~ jobs[c].is_local
          /\ Done(c) /\ jobs[c].function = owner

MainFound(owner) ==
    /\ pc = "main"
    /\ MainReady
    /\ ~ main_operand
    /\ Nameable(owner)
    /\ main_state' = "Done"
    /\ IF GenerateJobs(owner, jobs) # {}
         THEN main_function' \in GenerateJobs(owner, jobs) /\ NextPass
         ELSE pc' = "assert_failed" /\ UNCHANGED <<main_function, did_work>>
    /\ UNCHANGED <<jobs, main_waiting_for, main_operand, runtime_statics>>

-----------------------------------------------------------------------------
(* After the loop.                                                         *)

(* The kinds for which the report of a circular dependency has no case.    *)
Unreportable == {"ParseFile", "ResolveEnumDefinition"}

(* Mutant: generation starts once 'main' is found.                         *)
ReportMainOnly ==
    /\ pc = "report"
    /\ pc' = IF main_state = "Done" THEN "codegen" ELSE "circular"
    /\ UNCHANGED <<jobs, did_work, runtime_statics>>
    /\ MainUnchanged

Report ==
    /\ pc = "report"
    /\ pc' = IF \A i \in DOMAIN jobs : Done(i) THEN "codegen"
             ELSE IF Unfinished(Unreportable) # {} THEN "abort"
             ELSE "circular"
    /\ UNCHANGED <<jobs, did_work, runtime_statics>>
    /\ MainUnchanged

Stopped == pc \in Finished /\ UNCHANGED vars

Handle(i) ==
    \/ ParseFile(i)
    \/ ResolveStaticIf(i)
    \/ ResolveFunctionDeclaration(i)
    \/ ResolvePolymorphicFunction(i)
    \/ ResolveConstantDefinition(i)
    \/ ResolveStructDefinition(i)
    \/ ResolvePolymorphicStruct(i)
    \/ ResolveUnionDefinition(i)
    \/ ResolvePolymorphicUnion(i)
    \/ ResolveEnumDefinition(i)
    \/ GenerateFunction(i)
    \/ GenerateStaticVariable(i)

Next ==
    \/ \E i \in DOMAIN jobs : Handle(i)
    \/ NothingToRun
    \/ MainNotReady
    \/ MainWaits
    \/ MainFails
    \/ \E owner \in FunctionValues : MainFound(owner)
    \/ Report
    \/ Stopped

Spec == Init /\ [][Next]_vars

(* One thread runs the loop, so it always takes its next step.             *)
FairSpec == Spec /\ WF_vars(Next)

-----------------------------------------------------------------------------
(* Properties.                                                             *)

(* Every variable has its type, and every index names a job of the list:   *)
(* those the scheduler, 'main' and the waiting jobs read through           *)
(* (jobs[job->waiting_for], main.cpp:519) are never past its end.          *)
TypeOK ==
    /\ jobs \in Seq(Job)
    /\ \A i \in DOMAIN jobs :
          jobs[i].state = "Waiting" => jobs[i].waiting_for \in DOMAIN jobs
    /\ main_state \in {"Waiting", "Done"}
    /\ main_waiting_for \in DOMAIN jobs
    /\ main_operand \in BOOLEAN
    /\ main_function \in {0} \cup DOMAIN jobs
    /\ did_work \in BOOLEAN
    /\ runtime_statics \in Seq({0} \cup DOMAIN jobs)
    /\ pc \in {"scan", "main", "report"} \cup Finished

UndoneJobs == {i \in DOMAIN jobs : ~ Done(i)}

(* "Circular dependency detected" (main.cpp:1120) is only printed about a  *)
(* real one: every job it lists waits for a job it lists, so no order of   *)
(* running them could have finished any.  No wake-up is lost.              *)
CircularReportIsReal ==
    pc \in {"circular", "abort"} =>
        /\ UndoneJobs # {}
        /\ \A i \in UndoneJobs : jobs[i].state = "Waiting"
                                   /\ jobs[i].waiting_for \in UndoneJobs

(* What reaches generate_llvm_object is complete: every job is done, every *)
(* function and static variable is passed exactly once and no other job is, *)
(* and main_function, which the code declares without a value              *)
(* (main.cpp:507), has been assigned one of those functions, the one       *)
(* assert(main_found) looks for (main.cpp:1295).                           *)
CodegenComplete ==
    pc = "codegen" =>
        /\ UndoneJobs = {}
        /\ \A i \in DOMAIN jobs :
              Cardinality({n \in DOMAIN runtime_statics :
                                runtime_statics[n] = i})
                = IF jobs[i].kind \in {"GenerateFunction",
                                       "GenerateStaticVariable"}
                    THEN 1 ELSE 0
        /\ main_function \in DOMAIN jobs
        /\ jobs[main_function].kind = "GenerateFunction"

SameWork(a, b) ==
    /\ a.kind = b.kind
    /\ \/ a.key # NoKey /\ a.key = b.key
       \/ a.kind = "GenerateFunction" /\ a.owner = b.owner

(* No two jobs do the same work, however often handlers are started over   *)
(* and whoever asks first: one ParseFile job per path, one job per         *)
(* polymorphic instance, one GenerateFunction job per function value.      *)
NoWorkTwice ==
    \A m, n \in DOMAIN jobs : SameWork(jobs[m], jobs[n]) => m = n

(* A declared function is never forgotten: its GenerateFunction job is in  *)
(* the list as soon as the declaration is resolved, whether or not it is   *)
(* ever called, and belongs to a function that exists.                     *)
FunctionsAreGenerated ==
    \A i \in DOMAIN jobs :
        /\ jobs[i].kind = "ResolveFunctionDeclaration" /\ jobs[i].function = i
              => GenerateJobs(i, jobs) # {}
        /\ jobs[i].kind = "GenerateFunction"
              => jobs[i].owner \in FunctionValues

(* A result is final and an index stays valid: handlers that hold the      *)
(* index of a job across a wait find the same job there, and a done job is *)
(* never run again or changed.                                             *)
ResultsAreFinal ==
    [][ \A i \in DOMAIN jobs :
            /\ i \in DOMAIN jobs'
            /\ jobs'[i].kind = jobs[i].kind
            /\ jobs'[i].key = jobs[i].key
            /\ jobs'[i].owner = jobs[i].owner
            /\ Done(i) => jobs'[i] = jobs[i] ]_vars

(* The loop ends: restarts do not go on for ever when the program has      *)
(* finitely many polymorphic instances.                                    *)
Termination == <>(pc \in Finished)

(* The abort() in the report of circular dependencies (main.cpp:1202) is   *)
(* for kinds that cannot be there.                                         *)
ReportCompletes == pc # "abort"


-----------------------------------------------------------------------------
(* The queue implements the list of work it stands for.                    *)
W == INSTANCE WorkList WITH
        units <- Len(jobs),
        finished <- {i \in DOMAIN jobs : Done(i)},
        needs <- [i \in {k \in DOMAIN jobs : jobs[k].state = "Waiting"} |->
                    jobs[i].waiting_for],
        outcome <- CASE pc \in {"scan", "main", "report"} -> "running"
                     [] pc \in {"error", "assert_failed"} -> "rejected"
                     [] pc \in {"circular", "abort"} -> "circular"
                     [] pc = "codegen" -> "accepted"

(* The order in which the loop runs jobs, its restarts and its separate    *)
(* step for 'main' are invisible: what it finishes, what it blocks on and  *)
(* how it ends are what WorkList allows.                                   *)
ImplementsWorkList == W!Spec
=============================================================================
