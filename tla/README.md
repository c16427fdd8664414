# A verification of simple-compiler

`simple-compiler` turns one source file, and the files it imports, into an
executable: it parses files, resolves declarations in whatever order they
depend on each other, generates a small block-structured IR (`hlir`) for each
function, hands it to LLVM and links the result. The modules here model the
parts of `src/src` and of the standard library whose correctness depends on the
order of many steps. TLC checks them on small instances, and TLAPS proves, for every
instance, the invariants of the job queue, of function bodies, of constant arithmetic and
of the allocators, and the central one of the expression parser.

## Inventory

| component | source | state | operations | what makes it correct |
|---|---|---|---|---|
| job queue | `main.cpp` 486-1210, `jobs.h` | the list of jobs (kind, state, the job it waits for, result), the state of the search for `main`, the list of runtime statics | one handler per kind of job, each started over from the beginning after a wait; the search for `main`; the report of circular dependencies | nothing is done twice or forgotten; a report of a cycle is a real cycle; what reaches the backend is complete; the loop ends |
| declarations and names | `constant.cpp` 1620-2270, 3403-4517 | scopes (parent, statements, hash table of declarations), imports, static ifs, polymorphic instances | search for a name, `process_scope`, one resolver per kind of declaration | a name means the same declaration whenever it is looked up; searches end |
| function bodies: scopes and blocks | `hl_generator.cpp` 5080-6262, `constant.cpp` 4277-4363, `hl_llvm_backend.cpp` 1107-1125, 1905-1962, 2331 | child scopes, `GenerationContext` (open block, finished blocks, break target, next child scope) | `generate_runtime_statements`, `enter_new_block`, `change_block`, the end of `do_generate_function` | the blocks are valid and do what the statements say |
| constant evaluation | `constant.cpp` 128-1600, 2336-3400 | none (pure), apart from waits | arithmetic, coercion, casts, bake, instantiation | a constant has the value that the generated code would compute, at each width |
| expressions in functions | `hl_generator.cpp` 130-5079 | the instructions of the open block | selection of instructions, calls | types agree; each call's function is queued |
| lexer | `lexer.cpp` | position | tokens | tokens as defined |
| parser | `parser.cpp` | position, the calls under way | expressions by climbing precedences, statements | what is accepted has one meaning, and the tree is that; what is refused has none |
| types | `types.cpp` | none | equality, size, layout | equality is an equivalence; members do not overlap |
| LLVM backend | `hl_llvm_backend.cpp` | names, LLVM values | translation of instructions, mangling | every reference is found; names are unique |
| command line, linking, platform, paths | `main.cpp`, `platform.cpp`, `path.cpp` | files | options, one linker call | I/O |
| standard library allocators | `stdlib/heap.src`, `arena.src`, `expanding_arena.src` | runs of chunks, each with a header, mapped from the system | allocate, reallocate, deallocate, reset, destroy | live allocations do not overlap each other or the headers; nothing is lost; what is unmapped is what was mapped |

How they interact: the job queue calls one resolver or generator for each job.
A resolver reads other jobs' results through the list; when a result is missing
it returns the index of the job to wait for, and everything it did is thrown
away except the jobs it appended. `process_scope` (called when a file is parsed,
a static if holds or a function is resolved) appends the jobs of a scope and,
for a function, lists its nested scopes; generating the function takes those
scopes one after the other. The backend receives the generated functions and
looks up every block that a jump names.

Nothing runs in parallel and nothing is persisted. What is hard is the order in
which jobs become runnable, which depends on the program; handlers that start
over and meet their own earlier effects; two recursive walks over the same tree
in different files that have to agree; and blocks that are ended by whichever
statement notices that they are open. `PROJECT.json` lists each hazard at its
line.

## Modules

| module | models |
|---|---|
| `JobQueue` | the loop of `cli_entry`, every kind of job, `main`, the report |
| `WorkList` | what the queue promises, without a queue |
| `JobQueueProofs` | theorems about `JobQueue`, the last that it implements `WorkList` |
| `MCJobQueue` | instances of `JobQueue` for TLC |
| `StatementTree` | the statements of a function body (`ast.h`) |
| `FunctionBody` | one function from statements to blocks, and the blocks running |
| `StructuredProgram` | what a function body means, without blocks |
| `FunctionBodyProofs` | theorems about `FunctionBody`, the last that it implements `StructuredProgram` |
| `MCFunctionBody` | the bodies that TLC goes through |
| `ConstantArithmetic` | expressions of constants, folded by the compiler and computed in registers |
| `ConstantArithmeticProofs` | theorems about `ConstantArithmetic` |
| `MCConstantArithmetic` | the types and literals that TLC goes through |
| `Elaboration` | what names mean in files that import, open and conditionally extend each other, while the job queue runs |
| `ElaborationProofs` | theorems about `Elaboration` |
| `MCElaboration` | the programs that TLC goes through |
| `ExpressionParser` | the parser of expressions, in the statements that are little more than one |
| `ExpressionGrammar` | what expressions mean: the grammar with its precedences, without a parser |
| `ExpressionParserProofs` | a theorem about `ExpressionParser` |
| `MCExpressionParser` | the inputs that TLC goes through |
| `Allocator` | what an allocator promises: the abstract specification of the next two |
| `Heap` | `heap.src` and a client of it |
| `HeapProofs` | theorems about `Heap` |
| `MCHeap` | an instance of `Heap` for TLC |
| `ExpandingArena` | `expanding_arena.src` and a client that writes to what it is given |
| `ExpandingArenaProofs` | theorems about `ExpandingArena` |
| `MCExpandingArena` | instances of `ExpandingArena` for TLC |
| `SetInduction` | induction over sets of natural numbers, which the proofs of five modules rest on |

### JobQueue

`jobs` is the list of `AnyJob`; a job keeps its kind, state and `waiting_for`,
what identifies its work (`key`: a path, or a polymorphic definition with its
parameters; `owner`: the job whose function it generates), the function that its result
is (`function`: the job that created it, which for a constant is another one) and whether
it is a declaration in a body (`is_local`). `main_state`, `main_waiting_for`,
`main_function`, `did_work` and `runtime_statics` are the locals of `cli_entry`. One action is one pass of the
scan: the handler of the first runnable job, with everything it appends and
either its completion, its wait or its failure; then one step for `main`. Which
declarations a scope contains, which jobs a name waits for and what evaluates to
a function are choices, within what scopes allow: a constant holds a function that is
done and not hidden in a body, an instance is asked for once its definition is resolved,
and `main` is a declaration or a constant of a file. Which job runs, which appends find an
earlier job, and how the loop ends are the code's. A handler that waits keeps the jobs it appended
and nothing else, as in the code. `main_operand` records that the search for `main` met an
instance in the operand of a `using`, which is an error once the instance is done.

`WorkList` is the abstract specification: units of work are discovered,
completed, or blocked on an unfinished unit; the whole is accepted only when all
are finished, and given up only when every unfinished unit needs another.
`ImplementsWorkList` maps the queue to it.

### FunctionBody

`Bodies` are the trees of statements to generate: a set of lists of statements with every
list that a statement of theirs holds, and with the else of an if last, as the parser
leaves it (`BodiesAssumption`). `stack` holds the recursive
calls of the walk under way, first `process_scope`, then
`generate_runtime_statements`, each with its argument `scope` and the `variable_scope` that
it put on the stack of variable scopes; `context` is the `GenerationContext` with blocks
numbered in the order they are allocated. Each branch of
`generate_runtime_statements` is an action, split where it calls itself: `If`,
`ElseIf`, `Else`, `EndIf`, `While`, `EndWhile`, `For`, `EndFor`. An expression is
one instruction or none; whether it fails (`TypeError`) or waits (`StartOver`) is
a choice. The asserts of the generator and the backend's `assert(found_block)`
lead to `assert_failed`, a refusal of LLVM's verifier to `verify_failed`. A
module that is accepted runs: a branch goes either way.

`StructuredProgram` says in what order effects, conditions and returns happen,
straight from the tree: `Upcoming` goes from a place in a list onwards, past what is silent
(declarations, breaks, the ends of the lists of an if), to the first thing that happens.
`ImplementsStructured` maps the running blocks to it: each instruction knows the point of
the program it comes from, and `AfterJumps` follows jumps, as many as there are blocks, to
what happens next.

### ConstantArithmetic

An operand is a type, the `uint64_t` that `constant.cpp` keeps (`folded`), and the
bits that a register of the type would have, were the constants of the expression
in variables (`generated`). An expression grows from the left: a constant, negated,
inverted and cast any number of times, then an operator and a right operand, and so
on. `context` says whether it stands in a declaration, where
`evaluate_constant_expression` evaluates it, or in a body, where `generate_expression`
does and falls back on registers for a cast that constants do not allow. Folding and
instructions share `Machine`, two's complement arithmetic of a given width: what
differs, and what the properties are about, is the width, when a value is cut down
or widened, by which sign, and which operands are accepted.

A constant may leave its type (200 + 100 as `u8` is 300), and a division, right shift
or comparison of such a constant gives another result than a register would. The
model follows both and drops the comparison there (`agrees`), as it does where LLVM
leaves a result open. So `FoldingAgrees` is what does hold: nothing else makes a
constant and a variable differ. `trapped` is the signal that a division raises on
x86-64, the compiler's own being undefined in C++.

Two more contexts follow integers in sequence. `EnumVariant` and `NextVariant` are the
loop that gives the variants of an enum their values, counting on from the last one, in
`uint64_t` and then checked against the type; `ForLoop` and `NextIndex` are the registers
of a for-loop, whose index is compared, signed or unsigned by its type, and incremented.

### Elaboration

A program gives each file its statements: constants, enums, functions, variables,
imports, `using`s and static ifs around any of them. A file is the list of all its
statements in the order of the text; `at` is a statement's file and number, and `within`
the numbers of the static ifs that it is in, with 0 for the file. So `IsIn` is to be an
element of `static_if->statements`, and `IsWithin` to be that at any depth. `jobs` is a
list as in `JobQueue`, but with contents: the statement a job is about, the declaration
its expression was found to name and the value that comes down to. There is one action for
each handler, taken for the first runnable job: its search either finds a declaration,
waits for a job, fails, or does not end; `Report` is the loop when nothing is runnable.

A search returns a tagged result. `Scan` is `search_for_name_internal`: first the
declarations of the file (`SearchDeclarations`), then its statements as they stand
(`SearchStatement`), with those of a static if behind it once that is true. The numbers
of the statements are the order in which the code, which calls itself for a static if,
comes across them. `SearchStaticIf` asks whether a static if whose condition is not known
could declare the name, `Open` evaluates the operand of a using and searches what it
names, `SearchVariable` is the additional search in bodies, and `Evaluate` the expression
itself. `search_for_name` is `Search`, a function of how deep its calls may still nest:
`MaxDepth` is the end of the stack, and a search that reaches it `diverges`.
`ResultsAreStable` and `WaitsAreNeeded` make each search again in every later state and
compare; `MissingIsMissing` compares with the statements themselves, without a search.

Left out: the scopes of bodies and polymorphic instances, types of declarations, and
every expression but a name, a member of a name, and a literal. Structs and unions are
found as constants are; an enum has one variant. The search for `main` is in `JobQueue`.

### ExpressionParser, ExpressionGrammar

The parser is recursive: `stack` holds the calls of `parse_expression` and
`parse_expression_continuation`, innermost last. `at` is where a call is in the code,
`minimum` the precedence it was given, `parts` the expressions it has so far. The inputs
are not listed: a token is chosen when `peek_token` looks at it, from the alphabet of the
input, so one behaviour stands for every input that begins alike. A leaf of the tree is the
position of its token. There is an action for each place where the parser looks at a token.
The copies of the same lines for each operator are one action, `Infix`, over `Precedence`,
which keeps what the copies could get wrong: the precedence tested and the one handed on.

`Expression` begins in three statements: `using`, `return` and the definition of a
constant, which for a name or a bracket begins the expression itself and goes on in the
continuation. Where such a definition turns out to declare a function the model stops
(`outcome = "declaration"`). `skipped` and `reported` keep where the parser goes on after
what it should have refused.

`ExpressionGrammar` gives every stretch of the input its readings: an operator stands
between a left operand that binds at least as tightly and a right one that binds tighter.
`ReadsAsWritten` says that an accepted input has exactly one reading, and that the tree is
that one; `RefusalsAreRight` that a refused input would have had none, however it went on:
`Completions` puts each of `Middles` behind it and closes the brackets that are then open.

### Heap, ExpandingArena

`heap` is what the memory of the heap holds, run by run: whether it is mapped, the links
of its header, its map of subchunks, and the sizes in the headers of allocations. `live`
is what the client holds. Mapping memory returns any unused run, or fails. The code is
followed where it departs from its intention: the search for free subchunks declares a
second variable where it would reset the first, so it looks at the first and the last
subchunk only (`Found`). An allocation of three subchunks may therefore be laid around
another. From there on (`outcome = "overlap"`) what the client writes to shared memory is
not followed; that an overlap comes about in no other way is `OverlapsSurround`.

`ExpandingArena` is the same for the arena, with one more thing: a reset arena starts
over at the header of its run, so what the client writes may be what the arena reads as a
header afterwards. Runs lie in one address space. `given` is the memory that the client
has been given since it was mapped; a field of a header reads as the arena wrote it, or as
any of `Data` where the client was given some of it. `allocate` takes the count of chunks
from there and follows the pointer from there (`AllocateElsewhere`), and `Destroy` unmaps
what the header says and goes on to where it points. From the first allocation that is
placed by such data (`astray`) allocations may overlap each other, headers and runs that
are mapped later, and they do; the model follows the arena there as well, and it is the
exception that `ImplementsAllocator` names.

Both implement `Allocator`, but for those exceptions; in it the memory of an allocation
is new and stays the client's until it is given back.

## Runs

| run | checks | instance |
|---|---|---|
| `queue_functions` | types; circular reports are real; what reaches the backend is complete; no work twice; declared functions are generated; results are final; `WorkList` | two files that may import each other, functions and constants, one polymorphic function; six jobs, two appended by a handler |
| `queue_types` | the loop ends | every kind of declaration, a polymorphic struct and a union; one file, five jobs |
| `queue_enum_cycle` (violation) | the report's `default: abort();` is never reached | three jobs |
| `queue_baked_main` (violation) | `assert(found)` for `main` | four jobs |
| `function_bodies` | types; asserts hold; the variables of each list live in its own scope, which is its scope argument too but for else-ifs; LLVM's refusals are the two known shapes; `StructuredProgram` | about 5,800 bodies, with and without return types |
| `function_verify` (violation) | LLVM accepts every module | the same bodies |
| `constant_arithmetic` | types; folding agrees with the generated code; divisions trap only where that is undefined; coercion keeps values; constants and registers accept the same expressions; variants count without wrapping; for-loops advance until they are past their end | 4 bits in place of 64, integer types of 2 and 4 bits, addresses of 2 bits, two enums with one backing type, two types of pointer |
| `elaboration` | types and one job for a statement; asserts and aborts of the searches; what a name means stays; a wait is never for nothing; a missing name is nowhere; searches end but in two ways | about 155,000 programs of two files that may import each other |
| `expressions` | waiting operators bind tighter inwards; accepted inputs have one meaning, the tree; refused inputs have none; the parser comes to an end | every input of seven alphabets, in three statements |
| `heap` | types; allocations fit their runs; overlaps surround; headers are intact; nothing is lost or kept for nothing; the runs are a doubly linked list; `Allocator` but for overlaps | three runs of one or two chunks, allocations of one to three subchunks |
| `expanding_arena` | client and headers stay apart until a reset; older runs are never linked; `Allocator` until an allocation is placed by the client's data | two addresses next to each other, runs of one or two chunks, two sizes |
| `arena_unmap` (violation) | what is unmapped is what was mapped | the same |

Bounds. `MaxJobs` bounds the list, `MaxSpawn` what one handler appends and `MaxStatics`
the static constants of a function. Six jobs are a file, the declarations of a function and
of a polymorphic one, the instance and both functions to generate: enough for a cycle of
two and for one of three jobs, for two jobs that want the same instance or file, and for a
handler that appends, waits and starts over, which are the cases the properties are about.
Five are a file, two definitions of types and an instance of each. The
proofs have no bound. A handler that would go over `MaxJobs` is not explored; the
other outcomes of that handler are. The bodies nest every statement in every
other, twice, with each simple statement innermost and a statement before or
after, and loops and ifs with breaks three deep: an inner break, an else-if after
an if that leaves, a loop after a loop.

Two widths are enough for arithmetic: what matters is whether a type is narrower
than `Width`, and every pair of values, operator and cast of two types occurs. There
is no bound on the length of an expression. The proofs have none on widths and sizes
either. Addresses are narrower than `Width`, as
on the 32-bit targets. A for-loop goes between every two values of each type.

In `elaboration` the main file has up to three statements of a pool of 16, the other up
to two of a pool of 9, and a further family opens the other file between two statements.
The names are shared, so that each is declared, opened, conditional and missing in some
program; a static if can depend on a name that it declares, on one behind an import and
on one in another static if, and each file can import and open the other. `MaxDepth` is
10, which is enough for every search of these programs that ends: with 20 TLC finds as
many states.

In `expressions` an alphabet has the tokens that can disturb each other: every operator
between two expressions with every other, and with prefixes and members; operators of
three precedences with brackets; function types with parameters, return types and tags, in
two statements; literals of arrays and structs; array types, indices and lists of values;
`#bake` and calls. The inputs have 5 to 8 tokens, enough for two operators in a row, a list
of two items and a bracket in a bracket.

In `heap` a chunk has four subchunks instead of 128, of which one is left for allocations
in a run of one chunk and three in a run of two. That is the least in which an allocation
can lie between others, leave a gap of each length, expand into a gap, or need a run of
its own; three runs are the least in which one between two others is unlinked. The
addresses are symmetric. The arena's chunk is three headers long: an allocation fits, does
not, or needs two chunks. Its two addresses are one chunk apart, so that a run of one chunk
whose count the client has raised to two goes on into the other, mapped before or after;
`Data` is that count, no pointer, and a pointer to the second run. `MaxOffset`, which bounds
how far such counts lead, is the length of both. With `astray` taken out of the property TLC
finds the overlap. The proofs about the allocators have no bound on runs, sizes, data or
geometry.

Fairness. `FairSpec` asks that `Next` is taken whenever it can be: one thread runs
the loop, and handlers do not block. `Termination` needs nothing else. It holds
for finitely many instances: each instance is queued once, and a job starts over
only after the job it waited for was done. `FairSpec` of `ExpressionParser` says the same
of the parser, which reads from memory: `Finishes` is that no loop goes round without
consuming, the two that go on after an error included.

Deadlock is checked in all runs but those of `ConstantArithmetic`, where an error ends
the expression, and of `ExpandingArena`, where memory may run out; in the others an
explicit step is the end of the program or of the input.

## Findings

- `queue_enum_cycle`: the report of circular dependencies has no case for
  `ResolveEnumDefinition`, so `E :: enum { A = E.A }` ends in `abort()`.
- `queue_baked_main`: a constant `main` that is the `#bake` of a function whose
  parameters are all constant passes the checks on `main` and fails
  `assert(found)`. The trace is that program: a file with a polymorphic function and a
  constant, which waits for the instance and is done with its function.
- `function_verify`: the increment of a for-loop follows the `break` or `return`
  that ends its body, and the implicit return follows a last `return` that a
  declaration comes after; LLVM's verifier aborts the compiler.
- `arena_unmap`: `reset_expanding_arena` goes back to offset 0, where the header of the
  run is; what the client writes next is what `destroy_expanding_arena` takes for the
  length to unmap and for the next run.

The models also follow the code in the following, which no run is about by itself:

- `x: u64 = -1` needs no cast, since the test for negative values compares an unsigned
  variable with zero.
- A literal of an array whose first element is not a name needs no closing bracket: that
  copy of the switch has no default. A function type without parameters whose return
  types are in brackets does not consume the closing one: the type is refused, or takes the
  bracket of what it stands in. They are what `skipped` records.
- The loops over return types and over the values of `return` print an error and go on, so
  `return 1 1;` is accepted after an error. It is what `reported` records.
- `using` and `#import` in a function body are runtime statements without a case in the
  generator, which aborts; so does `1 as bool` in a body.
- In a body, a variable in a static if that is not decided yet is not waited for: the
  name is taken from further out, or reported missing, or a job is waited for that is not
  needed, by the order of jobs. It is the exception that `ResultsAreStable`,
  `WaitsAreNeeded` and `MissingIsMissing` name.
- The search for a name does not end for two `using`s in one file whose operands are found
  by neither of their lists, and for files that open each other by `export`ed or
  conditional `using`s. It is the exception that `SearchesEnd` names.
- `X :: true;` next to `if X { using m; }` is reported as circular: the using could
  declare `X`.
- A for-loop up to the largest value of its type never ends; its index wraps. The variants
  of an enum of 64 bits wrap after the largest value.
- The heap lays an allocation of three subchunks or more around others, and allocations
  from a new run of the arena leave the older runs mapped for good. After a reset the arena
  takes what the client writes at the start of a run for a count of chunks and a pointer to
  the next run, and may return memory that is in use or was never mapped for it.
- The array lengths, polymorphic arguments and types of functions in the list of an else-if
  are looked up in the scope of the first list of the if, while its variables live in a
  scope of its own (`hl_generator.cpp:5629`, `ScopePassed`).

## Proofs

`JobQueueProofs` proves, for all constants that satisfy `ConstantsAssumption`:

| theorem | says |
|---|---|
| `TypeCorrect` | `[]TypeOK`: every index the loop reads is in the list |
| `CircularIsReal` | `[]CircularReportIsReal`: no wake-up is lost |
| `FinalResults` | `ResultsAreFinal`: a done job never changes |
| `WorkIsDoneOnce` | `[]NoWorkTwice` |
| `DeclaredAreGenerated` | `[]FunctionsAreGenerated`: a declared function is generated, and only functions are |
| `CodegenIsComplete` | `[]CodegenComplete`: the backend gets every function and static variable once, and a `main` |
| `QueueImplementsWorkList` | `ImplementsWorkList` |

`TypeOK` is inductive. The work is in the lists of jobs that handlers append: the
lemmas say that `process_scope`, `GenerateCalled`, `NewInstances` and the others
give sequences of new jobs, and `HandlerStep` that every handler either fails or
changes its own job and appends such a sequence (`RanJob`), with what it adds to
`runtime_statics` (`Passes`) and whom the new jobs belong to (`Owned`). `CircularReportIsReal`
speaks of the end only; it needs `LoopInv`: at `main` without `did_work`, and
after the loop, no job is runnable (`Quiet`). Then every unfinished job waits, and
for a job that is not done. It holds because a pass that runs a job sets
`did_work`, and one that runs none changes no job. `NoWorkTwice` is inductive
together with `TypeOK` when appended jobs are distinct from the list and from each
other, which is `NewWork`: each append looks at the list and at what the same
handler appended before it. `FunctionsAreGenerated` is inductive with
`FunctionsAreDone` (only a done job is known to be a function): without it a job that
starts over could be taken for a function it no longer evaluates to. That a constant holds
another job's function needs no more than that it is not done while it takes it.
`CodegenComplete` speaks of the end; it follows from `LoopInv`, from `StaticsMatch`
(`runtime_statics` holds the done jobs that generate, once each, between static constants) and from `MainInv`:
the loop is not left while the search for `main` could go on, so that when all jobs are
done `main` has been found. For `WorkList`, a handler is `Complete` or `Block` of its
job, since a job is suspended only on one that is not done; the report is `Accept` or
`GiveUp` by `Quiet`; everything else discovers work or stutters.

`HeapProofs` proves, for all constants that satisfy `HeapAssumption`, so for any number
of runs and any sizes of headers, subchunks, chunks and requests:

| theorem | says |
|---|---|
| `AllocationsFit` | `[]BlocksFit`: an allocation lies in a mapped run, between its map and its end |
| `OverlapsAreSurrounded` | `[]OverlapsSurround`: only an allocation of three subchunks or more, laid around others, shares memory |
| `HeadersAreRead` | `[]HeadersAreIntact`: until then `deallocate` and `reallocate` read the size that was written |
| `HeapImplementsAllocator` | every step is one of `Allocator`, or lays an allocation around others |
| `SmallRequestsAreSafe` | if no request takes more than two subchunks, the heap implements `Allocator` and allocations never share memory |
| `HeapIsTyped` | `[]TypeOK`: nothing beyond the longest run is marked or given out |
| `MarksAreExact` | `[]NothingIsLost`: until allocations overlap, the marks are exactly those of allocations and every mapped run has one |
| `RunsAreListed` | `[]ListIsWellFormed`: the mapped runs are one doubly linked list from the first |

The invariant is `IInv`: the types of what the client holds, `BlocksFit`,
`OverlapsSurround` and, unless allocations overlap, `HeapOK`: the header of each
allocation holds its size and its subchunks are marked. `HeapOK` is needed since
`Found` looks at the map, and not at what the client holds; that the first and the last
subchunk of a new allocation are unmarked then means that no allocation takes them. With
at most two subchunks there are no others, which is the last theorem. Lemmas say of each
operator (`Occupy`, `Append`, `Shrink`, `Unmap`) that it keeps `HeapOK`, and of
each action that it keeps `IInv` and is a step of `Allocator`.

The last three theorems rest on `ListInv`, kept by every step from `IInv`. `IInv` needs
marks where there are allocations; `Marked` adds that there are no others, so that a run
is unmapped exactly with its last allocation. An overlap ends that, since what is freed
then may still be another's; types and list are kept regardless. `Listed` says that some
numbering of the mapped runs follows the links both ways. Mapping a run appends a number,
unmapping one closes the gap it leaves. The property itself walks the links with a
recursive function; that the walk visits the runs in the order of their numbers is by
induction (`SetInduction`), and needs that there are finitely many runs.

`ExpandingArenaProofs` proves, for all constants that satisfy `ExpandingArenaAssumption`:

| theorem | says |
|---|---|
| `HeadersAreSafe` | `[]SafeUntilReset`: until a reset, clients keep off the headers and what is unmapped is what was mapped |
| `RunsAreLost` | `[]OlderRunsAreLost`: the arena has one run in its list |
| `ArenaImplementsAllocator` | `ImplementsAllocator`: allocations share no memory, after a reset either, until one is placed by a count or a pointer that the client may have written |

Its invariant `IInv` adds to the types that mapped runs are apart (`RunsApart`), that their
headers were written with the counts they were mapped with (`CountsWritten`), that the arena
knows mapped runs only (`ArenaIsMapped`), that until an allocation goes astray each lies in
the memory of a run, and before the current offset if that is the current one (`Placed`),
and that until a reset the arena has one run, of whose header the client was given nothing
(`OneRun`). A count that was read as it was written then bounds what is placed by it to the
run, behind all others in it; another count, or a pointer, is `astray`.

`ExpressionParserProofs` proves, for all alphabets and inputs of any length:

| theorem | says |
|---|---|
| `MinimaRise` | `[]MinimumsRise`: an operator that waits for its right operand binds tighter than what the call it is in was asked for |

The invariant adds to it that the lowest call is the statement's own (`StackOK`), without
which an expression might have no call to return to. The lemmas say what happens to the
stack: the innermost call is `Replaced` by one with the same minimum, another is
`Pushed` on it if it `Rises`, or what is above is gone. Each place of the parser is one of
the three.

`FunctionBodyProofs` proves, for all bodies that satisfy `BodiesAssumption`, of any depth
and length:

| theorem | says |
|---|---|
| `FunctionIsTyped` | `[]TypeOK`: the calls of both walks follow one another into the body and know only blocks that were allocated |
| `NoAssertionFails` | `[]AssertionsHold`: no assert about scopes and blocks fails, and the backend finds every block |
| `ScopesAreTakenInOrder` | `[]ScopesMatch`: the variables of each list live in the scope that was made for it, which is also the scope argument of the list but for the list of an else-if, which gets that of the first list of its if |
| `NothingElseIsRejected` | `[]RejectionsExplained`: LLVM's verifier refuses only the two known shapes |

The invariant `Inv` has three parts. The first is that the calls nest (`CallsNest`): each
is in a list of a statement that the one before it is at, and the variables of the list
have the scope of its own path. The second relates the two walks. Each step of a walk is determined by the
body and by where it is (`Follows`), so that there is one walk through a body:
`process_scope` has walked it up to where it is (`WalkedTo`), with the scopes made so far
those of the lists entered, and `generate_runtime_statements` is somewhere on the
complete walk (`WalksTo`). The k-th list that it enters therefore is the one of the k-th
scope, whatever it started over in between, and it ends with all scopes taken. That the scope
arguments are as `ScopePassed` says is proved from it (`ScopesPassed`): a call on the stack
remembers the scope of the first list of its if. The third is
about blocks (`GeneratorInv`). The targets of what was emitted are emitted blocks, the
current one, or blocks that a call on the stack still has to emit (`Pending`), and
`break_end_block` is the end of a loop under way (`EndsLoop`); at the end nothing is pending, which
is the backend's assert. A block ends with its only terminator (`Sound`), and where the
current block already has one, the list at the top was left (`OpenOrLeft`): every place
that goes on after that looks first, but for the end of a for-loop. That is the first
disjunct of `Explained`; the second is the implicit return.

It goes on to prove the refinement, for the same bodies:

| theorem | says |
|---|---|
| `BlocksImplementStatements` | `ImplementsStructured`: the code of a function runs its effects, conditions and returns in the order of its statements |
| `RunInvHolds` | its invariant: the blocks that are generated mean what they are entered for |

The argument gives every block a meaning `m[block]`, what happens next in the structured
program where the block begins; it is chosen when the block is allocated, and an
end block means what comes after its statement. A block flows (`Flows`) if it begins with
its meaning and each instruction is followed by what the structured program may do after
it (`Steps`). `Means` says of the generator that the emitted blocks and the current one
flow, the latter up to what comes next in the walk; that the blocks pending for a call
mean what the call needs them for (`CallMeans`); that the target of a break means what
comes after the innermost loop (`BreaksTo`, which saving and restoring it keeps);
that no block is pending twice (`Apart`) or emitted twice (`Distinct`). There is one
lemma for every action of the generator, that it keeps `Means` for some meaning: the one of
before, extended to the blocks it allocates. `AfterTheList` and `AtTheStatement` say what
`Upcoming` is around a statement: the function recurs over places, possibly forever, so
that it has to be shown first (`TailRecursion`) that it goes on along silent places and has
a value at the others. When the last block is handed over, all of them flow (`Complete`),
and a step of the code is a step of the structured program, or a jump. That `AfterJumps`
finds the end of a row of jumps is by induction from the last block backwards (`JumpsEnd`),
since a jump leads to a block that is emitted later, or to the condition of a loop, which
does not begin with a jump (`JumpsAhead`, `Anchored`).

`ElaborationProofs` proves, for all files, names and sets of programs that satisfy
`ProgramsAssumption` (which says of a program no more than that the parser made it: static
ifs nest, and a using or a static if has an expression), with any number and order of
statements and however deep searches may nest:

| theorem | says |
|---|---|
| `TypesHold` | `[]TypeOK`: each statement has its jobs once, and each file is parsed once |
| `AssertionsHoldAlways` | `[]AssertionsHold`: whatever a search comes across has its job |
| `ResultsStayStable` | `[]ResultsAreStable`: what a name was found to mean, it means ever after |
| `WaitsStayNeeded` | `[]WaitsAreNeeded`: a search that waits would wait again until that job is done |
| `MissingStaysMissing` | `[]MissingIsMissing`: nothing that counts, or could still count, declares a name that is reported missing |
| `InvHolds` | the inductive invariant of the first four |

`Inv` rests on `Structure`, which says what the jobs are: those of the statements that
count, and only those. The statements of a file count once it is parsed, those in a static
if once it is true (`IsReached`); `JobsCount` and `WhatCountsHasJobs` are the two
directions, and `JobsAreUnique` that there is one job for each. It is kept since
`process_scope` appends the jobs of one list, whose statements did not count before
(`StructureStays`). Under `Structure` every search has a result among `IsResult`: no
`Aborted`, no wait for a job that is done, and nothing found but a value. That is by
induction over the depth of nested calls, and for each of them over the statements of a
file (`SetInduction`); `ScanFinds` says what a scan comes to without its recursive
function: the result of the first statement that has one, if any.

For the two properties about time, a state is `Later` than another if it has the same
program and the same jobs, of which more may be done, and perhaps more jobs behind them.
Every step of a handler is of this kind (`Advances`). A search `Persists` if in the
later state it comes to the same, unless it waited for a job that is done by then. It does:
statements that counted still do, and those that come to count are in a static if that was
not decided before and that did not make the search wait, so it declares nothing that is
searched for and holds no using. This fails for a variable, of which
`does_or_could_have_name` knows nothing: the proof of `WaitsAreNeeded` did not go
through without the exception `OverlooksVariables`, which only `ResultsAreStable` had
before, and a program shows that the property needs it.

`MissingStaysMissing` takes a search that fails apart. In the state in which it fails, no
statement before its end has a result, so every static if on the way is decided or could
not have the name (`NothingFoundIsSettled`), and every using was opened in vain
(`OpenedIsSettled`); the argument goes from a statement to the innermost static if around
it (`Innermost`), and outwards. Then the compiler has stopped, and nothing changes.

`ConstantArithmeticProofs` proves, for all widths, sizes and types that satisfy
`WidthAssumption` and `TypesAssumption`:

| theorem | says |
|---|---|
| `ConstantsAreTyped` | `[]TypeOK` |
| `CompilerAndMachineAgree` | `[]FoldingAgrees`: what is folded in 64 bits is, in its low bits, what a register would hold |
| `TrapsAreUndefined` | `[]TrapsAgree`: the compiler is killed only where the generated division is undefined |
| `CoercionsKeepValues` | `[]CoercionKeepsValue`: an integer type takes exactly its values |
| `AcceptanceIsAlike` | `[]AcceptanceAgrees`: constants and registers are accepted alike, but for two kinds of expression |
| `VariantsAreCounted` | `VariantsCount`: the next variant is one more, or refused |
| `LoopsComeCloser` | `LoopsAdvance`: the index of a for-loop comes closer to its end, unless that is the largest value |

The invariant `IInv` says of each operand that it is one (`IsOperand`): its folded bits are
a `uint64_t`, a Boolean is one bit, and where the two sides agree, the low bits of the
one are the other. In the enum and the loop it adds the integer types of the operands. That
an operator keeps it is arithmetic modulo a power of two (`Congruent`): sums, differences,
products and left shifts of congruent numbers are congruent, so that it does not matter
when they are cut down. Where an operator reads all bits, the operand `Fits` its type, and
then reads as the same number in 64 bits as in its register (`FitsReadsAlike`), and so
quotients, right shifts and comparisons are the same. Bits are taken apart and put
together again with `Ones` and `FromOnes`, by induction over positions (`SetInduction`).
The provers know nothing of powers of two; what is needed comes from the library's fact
that a set of n elements has 2^n subsets.

Only model-checked: `SearchesEnd` of `Elaboration`, `ReadsAsWritten` and
`RefusalsAreRight` of `ExpressionParser`, and `Termination` and `Finishes`. The last two are
liveness under fairness, which is out of the prover's reach. The readings of
`ExpressionGrammar` are RECURSIVE operators over data, of which nothing can be proved for
every input. `SearchesEnd` is about a stack that is deep enough for the program: with a
`MaxDepth` of zero every search diverges, so it does not hold for every value of the
constants, and how deep the searches of a program nest at most is not known.

## Plan

Done: `JobQueue`, `WorkList`, `JobQueueProofs`, `StatementTree`, `FunctionBody`,
`StructuredProgram`, `FunctionBodyProofs`, `ConstantArithmetic` for
integers, enums and for-loops, `ConstantArithmeticProofs`, `Elaboration` for the scopes of
files, `ElaborationProofs`, `Allocator`, `Heap`, `HeapProofs`, `ExpandingArena`,
`ExpandingArenaProofs`, `ExpressionParser`, `ExpressionGrammar`, `ExpressionParserProofs`.

1. The rest of `Elaboration`: scopes of bodies and of polymorphic instances.
2. The rest of `ConstantArithmetic`: floats, indices of constant arrays; struct layout.
3. The statements of the parser that hold other statements, and declarations of
   functions; `Lexer` and `NameMangling`: pure operators against reference definitions
   (maximal munch, nested comments; injective names).
4. Calls and coercions of runtime values, and the translation of blocks, as far as
   they carry a property.
5. Proofs: how deep the searches of a program nest, which `SearchesEnd` needs.

## Not modelled

The selection of instructions for expressions, LLVM itself, debug information,
the linker, the platform layer, the profiler, the bindings to operating systems,
the runtimes and the samples: data transformation or I/O without a protocol of
their own. `arena.src` is one offset in one mapping, of which `ExpandingArena` shows
the interesting part. Vendored code is left out: LLVM alone, which the repository
holds in full, is by far the most of its lines, and nothing in it is the program's own.
Jobs are values in the model, so what
happens to pointers into a list that grows is not covered.
