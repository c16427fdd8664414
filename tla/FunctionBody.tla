---------------------------- MODULE FunctionBody ----------------------------
(***************************************************************************)
(* One function, from its statements to its blocks: process_scope lists a  *)
(* child scope for every nested list of statements when the declaration is *)
(* resolved (constant.cpp); when the function is generated                 *)
(* (hl_generator.cpp), generate_runtime_statements walks the statements    *)
(* again, takes those scopes one after the other and cuts the instructions *)
(* into blocks; the backend (hl_llvm_backend.cpp) hands the blocks to      *)
(* LLVM, and they run.  Both walks are recursive: stack holds their calls. *)
(*                                                                         *)
(* Kept: the scopes, the blocks and their terminators, the break target,   *)
(* the assertions and the errors about control flow.  An expression is one *)
(* instruction or none; a type error is a choice to fail.                  *)
(***************************************************************************)
EXTENDS StatementTree, FiniteSets

CONSTANT Bodies   \* the lists of statements: the function bodies to
                  \* generate, and the lists inside of them

(* What the parser produces: nested lists are where the kind of their      *)
(* statement has them.                                                     *)
ASSUME BodiesAssumption ==
    /\ Bodies \subseteq Seq(Statements(Bodies))
    /\ \A list \in Bodies : \A n \in DOMAIN list : IsWellFormed(list[n])

VARIABLES
    body,         \* the statements of the function
    has_return,   \* whether its type has return types
    pc,           \* which of the walks is going on, or how it ended
    stack,        \* the calls of the walk, outermost first
    child_scopes, \* the scopes process_scope made, by the path of their list
    context,      \* the GenerationContext
    at            \* the <<block, instruction>> that is about to run

vars == <<body, has_return, pc, stack, child_scopes, context, at>>

(* An instruction, the point of the program it comes from and the blocks   *)
(* it leads to.  Only the terminators are told apart.                      *)
Instruction(kind, point, targets) ==
    [kind |-> kind, point |-> point, targets |-> targets]

Jump(target) == Instruction("jump", End, <<target>>)

Terminators == {"return", "branch", "jump"}

(* A call of process_scope or of generate_runtime_statements for one list. *)
(* scope is its argument of that name, where the lengths of array types    *)
(* and the arguments of polymorphic types are looked up; variable_scope is *)
(* the constant_scope pushed on variable_scope_stack for it, where names   *)
(* in expressions are.  The others are the variables of the call: its n-th *)
(* statement is under way, within its within-th list (0: not begun).       *)
Call(path, scope, variable_scope) ==
    [path |-> path, scope |-> scope, variable_scope |-> variable_scope,
     n |-> 1, within |-> 0, unreachable |-> FALSE,
     end_block |-> 0, next_block |-> 0, if_scope |-> <<>>,
     condition_block |-> 0, old_break_end_block |-> 0]

FirstCall == Call(<<>>, <<>>, <<>>)

(* break_end_block is 0 where in_breakable_scope is false.  Blocks are     *)
(* numbered as they are allocated, block_count is how many there are;      *)
(* assertion_failed says that an assert of the generator did not hold.     *)
NewContext ==
    [next_child_scope_index |-> 0, break_end_block |-> 0, blocks |-> <<>>,
     current_block |-> 1, instructions |-> <<>>, block_count |-> 1,
     assertion_failed |-> FALSE]

Init ==
    /\ body \in Bodies
    /\ has_return \in BOOLEAN
    /\ pc = "process_scope"
    /\ stack = <<FirstCall>>
    /\ child_scopes = <<>>
    /\ context = NewContext
    /\ at = <<0, 0>>

-----------------------------------------------------------------------------
(* The walks.                                                              *)

Top == stack[Len(stack)]
List == StatementsAt(body, Top.path)
AtEnd == Top.within = 0 /\ Top.n > Len(List)
Current == List[Top.n]
Here(part) == Point(Top.path, Top.n, part)

Callers == SubSeq(stack, 1, Len(stack) - 1)

(* The call, with its variables updated as in top, calls itself for the    *)
(* k-th list of its statement.                                             *)
Enter(top, k, scope, variable_scope) ==
    stack' = Callers \o <<[top EXCEPT !.within = k],
                          Call(Within(Top.path, Top.n, k), scope, variable_scope)>>

Proceed(top) ==
    stack' = Append(Callers, [top EXCEPT !.n = Top.n + 1, !.within = 0])

(* Mutant: an else without statements has a scope too.                     *)
ScopeCountWithElse(statement) ==
    IF statement.kind = "if" THEN Conditions(statement) + 1
                             ELSE BodyCount(statement)

ScopeCount(statement) == BodyCount(statement)

EnterScope ==
    /\ pc = "process_scope"
    /\ ~ AtEnd
    /\ LET k     == Top.within + 1
           scope == Within(Top.path, Top.n, k)
       IN  /\ k <= ScopeCount(Current)
           /\ child_scopes' = Append(child_scopes, scope)
           /\ Enter(Top, k, scope, scope)
    /\ UNCHANGED <<body, has_return, pc, context, at>>

LeaveStatement ==
    /\ pc = "process_scope"
    /\ ~ AtEnd
    /\ Top.within >= ScopeCount(Current)
    /\ Proceed(Top)
    /\ UNCHANGED <<body, has_return, pc, child_scopes, context, at>>

ScopesProcessed ==
    /\ pc = "process_scope"
    /\ AtEnd
    /\ Len(stack) = 1
    /\ stack' = <<FirstCall>>
    /\ pc' = "generate"
    /\ UNCHANGED <<body, has_return, child_scopes, context, at>>

(* Either walk returns from a nested list.                                 *)
LeaveList ==
    /\ pc \in {"process_scope", "generate"}
    /\ AtEnd
    /\ Len(stack) > 1
    /\ stack' = Callers
    /\ UNCHANGED <<body, has_return, pc, child_scopes, context, at>>

-----------------------------------------------------------------------------
(* The blocks of a GenerationContext c.                                    *)

does_current_block_need_finisher(c) ==
    \/ c.instructions = <<>>
    \/ c.instructions[Len(c.instructions)].kind \notin Terminators

Assert(holds, c) == [c EXCEPT !.assertion_failed = @ \/ ~ holds]

Emit(c, instruction) ==
    [c EXCEPT !.instructions = Append(@, instruction)]

Finished(c) ==
    Append(c.blocks, [block |-> c.current_block,
                      instructions |-> c.instructions])

StartBlock(c, block) ==
    [c EXCEPT !.blocks = Finished(c), !.current_block = block,
              !.instructions = <<>>]

(* Mutant: the end of an open block is forgotten.                          *)
LeaveOpen(c, block) == c

FinishWithJump(c, block) ==
    IF does_current_block_need_finisher(c) THEN Emit(c, Jump(block)) ELSE c

(* Mutant: the block that is jumped to is not a new one.                   *)
UncountedBlock(c) ==
    IF c.instructions = <<>> THEN c
    ELSE LET new == c.block_count + 1
         IN  StartBlock(FinishWithJump(c, new), new)

enter_new_block(c) ==
    IF c.instructions = <<>> THEN c
    ELSE LET new == c.block_count + 1
         IN  StartBlock(FinishWithJump([c EXCEPT !.block_count = new], new), new)

change_block(c, block) ==
    StartBlock(Assert(~ does_current_block_need_finisher(c), c), block)

TakeScope(c) ==
    Assert(c.next_child_scope_index + 1 <= Len(child_scopes),
           [c EXCEPT !.next_child_scope_index = @ + 1])

NextScope ==
    LET n == context.next_child_scope_index + 1
    IN  IF n <= Len(child_scopes) THEN child_scopes[n] ELSE <<>>

Commit(c) ==
    /\ context' = c
    /\ pc' = IF c.assertion_failed THEN "assert_failed" ELSE "generate"
    /\ UNCHANGED <<body, has_return, child_scopes, at>>

Reject ==
    /\ pc' = "error"
    /\ UNCHANGED <<body, has_return, stack, child_scopes, context, at>>

-----------------------------------------------------------------------------
(* generate_runtime_statements.                                            *)

Generating == pc = "generate" /\ ~ AtEnd

Declaration ==
    /\ Generating
    /\ Current.kind = "declaration"
    /\ Proceed(Top)
    /\ UNCHANGED <<body, has_return, pc, child_scopes, context, at>>

UnreachableCode ==
    /\ Generating
    /\ Current.kind # "declaration"
    /\ Top.unreachable
    /\ Reject

(* A runtime statement begins only in a block that is still open.          *)
Begins(kind) ==
    /\ Generating
    /\ Top.within = 0
    /\ Current.kind = kind
    /\ ~ Top.unreachable

Begun == Assert(does_current_block_need_finisher(context), context)

Effect ==
    /\ Begins("effect")
    /\ Commit(Emit(Begun, Instruction("other", Here(0), <<>>)))
    /\ Proceed(Top)

Nothing ==
    /\ Begins("nothing")
    /\ Commit(Begun)
    /\ Proceed(Top)

(* A using or an #import is a runtime statement without a case of its own. *)
NoCase ==
    /\ Begins("directive")
    /\ pc' = "aborted"
    /\ UNCHANGED <<body, has_return, stack, child_scopes, context, at>>

(* An expression of the statement, or of its next else-if, is generated.   *)
Evaluates ==
    /\ Generating
    /\ ~ Top.unreachable
    /\ IF Top.within = 0
         THEN Current.kind \notin {"declaration", "directive", "break"}
         ELSE Current.kind = "if" /\ Top.within < Conditions(Current)

TypeError == Evaluates /\ Reject

(* An expression waits for a job: the context is dropped, and the job      *)
(* starts over with a new one and the same child scopes.                   *)
StartOver ==
    /\ Evaluates
    /\ stack' = <<FirstCall>>
    /\ context' = NewContext
    /\ UNCHANGED <<body, has_return, pc, child_scopes, at>>

(* Mutant: only a return ends its list.                                    *)
OnlyReturnLeaves(kind) == kind = "return"

LeavesList(kind) == kind \in {"return", "break"}

Leave == Proceed([Top EXCEPT !.unreachable = LeavesList(Current.kind)])

Return ==
    /\ Begins("return")
    /\ Commit(Emit(Begun, Instruction("return", Here(0), <<>>)))
    /\ Leave

Break ==
    /\ Begins("break")
    /\ context.break_end_block # 0
    /\ Commit(Emit(Begun, Jump(context.break_end_block)))
    /\ Leave

BreakOutsideLoop ==
    /\ Begins("break")
    /\ context.break_end_block = 0
    /\ Reject

(* Mutant: a false condition always leads to a block of its own.           *)
FreshBlock(is_last, end_block, fresh) == fresh

(* Where the k-th condition leads when it is false.                        *)
BlockAfter(is_last, end_block, fresh) == IF is_last THEN end_block ELSE fresh

IsLast(k) == k = Conditions(Current) /\ ~ HasElse(Current)

(* The k-th condition of an if, in the current block of c.  Every list     *)
(* behind a condition is generated with the scope of the first one as its  *)
(* argument, whatever scope is taken for its variables.                    *)
Condition(c, k, end_block, if_scope) ==
    LET next_block == BlockAfter(IsLast(k), end_block, c.block_count + 1)
        body_block == c.block_count + 2
        branch     == Instruction("branch", Here(k), <<body_block, next_block>>)
    IN  /\ Commit(TakeScope(change_block(
                    Emit([c EXCEPT !.block_count = body_block], branch),
                    body_block)))
        /\ Enter([Top EXCEPT !.end_block = end_block,
                             !.next_block = next_block,
                             !.if_scope = if_scope], k, if_scope, NextScope)

If ==
    /\ Begins("if")
    /\ LET end_block == context.block_count + 1
       IN  Condition([Begun EXCEPT !.block_count = end_block], 1, end_block,
                     NextScope)

(* The list within is done.                                                *)
Resumes(kind) ==
    /\ Generating
    /\ Top.within > 0
    /\ Current.kind = kind

ElseIf ==
    /\ Resumes("if")
    /\ Top.within < Conditions(Current)
    /\ Condition(change_block(FinishWithJump(context, Top.end_block),
                              Top.next_block),
                 Top.within + 1, Top.end_block, Top.if_scope)

Else ==
    /\ Resumes("if")
    /\ Top.within = Conditions(Current)
    /\ HasElse(Current)
    /\ Commit(TakeScope(change_block(FinishWithJump(context, Top.end_block),
                                     Top.next_block)))
    /\ Enter(Top, Top.within + 1, NextScope, NextScope)

EndIf ==
    /\ Resumes("if")
    /\ Top.within = BodyCount(Current)
    /\ Commit(change_block(FinishWithJump(context, Top.end_block),
                           Top.end_block))
    /\ Proceed(Top)

(* A loop whose condition is the first instruction of a block of its own,  *)
(* but for a while at the start of a block, which uses that block.         *)
Loop(c, targets) ==
    LET end_block  == c.block_count + 1
        body_block == c.block_count + 2
        condition  == enter_new_block([c EXCEPT !.block_count = body_block])
        branch     == Instruction("branch", Here(1), targets)
        changed    == change_block(Emit(condition, branch), body_block)
    IN  /\ Commit(TakeScope([changed EXCEPT !.break_end_block = end_block]))
        /\ Enter([Top EXCEPT
                    !.end_block = end_block,
                    !.condition_block = condition.current_block,
                    !.old_break_end_block = context.break_end_block],
                 1, NextScope, NextScope)

While ==
    /\ Begins("while")
    /\ Loop(Begun, <<context.block_count + 2, context.block_count + 1>>)

For ==
    /\ Begins("for")
    /\ Loop(Emit(Begun, Instruction("other", Here(0), <<>>)),
            <<context.block_count + 1, context.block_count + 2>>)

(* Mutant: the loop's own end stays the target of break after the loop.    *)
KeepBreakTarget(c) == c

OldBreakTarget(c) == [c EXCEPT !.break_end_block = Top.old_break_end_block]

EndWhile ==
    /\ Resumes("while")
    /\ Commit(change_block(FinishWithJump(OldBreakTarget(context),
                                          Top.condition_block),
                           Top.end_block))
    /\ Proceed(Top)

(* The increment is emitted first, whether or not the block is open.       *)
EndFor ==
    /\ Resumes("for")
    /\ Commit(change_block(
                FinishWithJump(
                    Emit(OldBreakTarget(context),
                         Instruction("other", Here(Increment), <<>>)),
                    Top.condition_block),
                Top.end_block))
    /\ Proceed(Top)

-----------------------------------------------------------------------------
(* The end of do_generate_function.                                        *)

(* Mutant: an if is taken for a return.                                    *)
ReturnOrIfAtEnd(statements) ==
    /\ statements # <<>>
    /\ statements[Len(statements)].kind \in {"return", "if"}

has_return_at_end(statements) ==
    /\ statements # <<>>
    /\ statements[Len(statements)].kind = "return"

EndsGeneration == pc = "generate" /\ AtEnd /\ Len(stack) = 1

ScopesTaken == context.next_child_scope_index = Len(child_scopes)

MissingReturn ==
    /\ EndsGeneration
    /\ ScopesTaken
    /\ ~ has_return_at_end(body)
    /\ has_return
    /\ Reject

EndFunction ==
    /\ EndsGeneration
    /\ has_return /\ ScopesTaken => has_return_at_end(body)
    /\ LET returned == IF has_return_at_end(body) THEN context
                       ELSE Emit(context, Instruction("return", End, <<>>))
           checked  == Assert(ScopesTaken, returned)
       IN  /\ context' = [checked EXCEPT !.blocks = Finished(checked)]
           /\ pc' = IF checked.assertion_failed THEN "assert_failed"
                                                ELSE "backend"
    /\ UNCHANGED <<body, has_return, stack, child_scopes, at>>

-----------------------------------------------------------------------------
(* The backend.                                                            *)

Emitted == {context.blocks[n].block : n \in DOMAIN context.blocks}

Code(block) ==
    context.blocks[CHOOSE n \in DOMAIN context.blocks :
                      context.blocks[n].block = block].instructions

Targets ==
    UNION {{i.targets[k] : k \in DOMAIN i.targets} :
              i \in UNION {{entry.instructions[k] :
                              k \in DOMAIN entry.instructions} :
                           entry \in {context.blocks[n] :
                                        n \in DOMAIN context.blocks}}}

(* LLVM accepts a block with one terminator, at its end.                   *)
IsBasicBlock(instructions) ==
    /\ instructions # <<>>
    /\ \A n \in DOMAIN instructions :
          instructions[n].kind \in Terminators <=> n = Len(instructions)

(* assert(found_block) for every jump and branch, then LLVMVerifyModule.    *)
Backend ==
    /\ pc = "backend"
    /\ pc' = IF ~ Targets \subseteq Emitted THEN "assert_failed"
             ELSE IF \A block \in Emitted : IsBasicBlock(Code(block)) THEN "run"
             ELSE "verify_failed"
    /\ at' = <<context.blocks[1].block, 1>>
    /\ UNCHANGED <<body, has_return, stack, child_scopes, context>>

Running == Code(at[1])[at[2]]

Run ==
    /\ pc = "run"
    /\ CASE Running.kind = "other"  -> at' = <<at[1], at[2] + 1>> /\ UNCHANGED pc
         [] Running.kind = "return" -> pc' = "returned" /\ UNCHANGED at
         [] OTHER -> /\ \E k \in DOMAIN Running.targets :
                           at' = <<Running.targets[k], 1>>
                     /\ UNCHANGED pc
    /\ UNCHANGED <<body, has_return, stack, child_scopes, context>>

Stopped ==
    /\ pc \in {"error", "aborted", "assert_failed", "verify_failed", "returned"}
    /\ UNCHANGED vars

GenerateStatement ==
    \/ Declaration \/ UnreachableCode \/ TypeError \/ StartOver
    \/ Effect \/ Nothing \/ NoCase \/ Return \/ Break \/ BreakOutsideLoop
    \/ If \/ ElseIf \/ Else \/ EndIf
    \/ While \/ EndWhile \/ For \/ EndFor

Next ==
    \/ EnterScope \/ LeaveStatement \/ ScopesProcessed \/ LeaveList
    \/ GenerateStatement
    \/ MissingReturn \/ EndFunction
    \/ Backend \/ Run
    \/ Stopped

Spec == Init /\ [][Next]_vars

-----------------------------------------------------------------------------
(* The kinds of the variables: the calls follow one another into the       *)
(* body, and they and the generator only know blocks that were allocated.  *)
TypeOK ==
    /\ has_return \in BOOLEAN
    /\ pc \in {"process_scope", "generate", "backend", "run", "returned",
               "error", "aborted", "assert_failed", "verify_failed"}
    /\ Len(stack) > 0
    /\ \A n \in 2 .. Len(stack) :
          stack[n].path = Within(stack[n - 1].path, stack[n - 1].n,
                                 stack[n - 1].within)
    /\ \A n \in DOMAIN stack :
          {stack[n].end_block, stack[n].next_block, stack[n].condition_block}
             \subseteq 0 .. context.block_count
    /\ context.current_block \in 1 .. context.block_count
    /\ context.break_end_block \in 0 .. context.block_count

(* Every assert of the generator about blocks and scopes, and every        *)
(* assert(found_block) of the backend, holds, for every body that gets     *)
(* past the errors and however often the job starts over.                  *)
AssertionsHold == pc # "assert_failed"

(* The list whose scope is the argument for the list the call is within.   *)
ScopePassed(call) ==
    LET statement == StatementsAt(body, call.path)[call.n]
        is_else_if == statement.kind = "if" /\ call.within \in 2 .. Conditions(statement)
    IN  Within(call.path, call.n, IF is_else_if THEN 1 ELSE call.within)

(* The generator takes the child scopes by counting, in a second walk that *)
(* has to visit the lists in the order process_scope did: the variables of *)
(* every list live in the scope that was made for it, and so does its      *)
(* scope argument, but directly in the list of an else-if, where that is   *)
(* the scope of the first list of the if (hl_generator.cpp:5629).          *)
ScopesMatch ==
    pc = "generate" =>
        /\ \A n \in DOMAIN stack : stack[n].variable_scope = stack[n].path
        /\ stack[1].scope = <<>>
        /\ \A n \in 2 .. Len(stack) : stack[n].scope = ScopePassed(stack[n - 1])

(* A runtime statement that ends its list with return or break, whatever   *)
(* declarations follow it.                                                 *)
EndsByLeaving(list, kinds) ==
    \E n \in DOMAIN list :
        /\ list[n].kind \in kinds
        /\ \A m \in n + 1 .. Len(list) : list[m].kind = "declaration"

ForBodies ==
    {n \in DOMAIN child_scopes :
        StatementsAt(body, Enclosing(child_scopes[n]))
            [child_scopes[n][Len(child_scopes[n])][1]].kind = "for"}

(* The only bodies without errors that LLVM does not accept are those with *)
(* a for-loop that ends by leaving it, where the increment follows the     *)
(* jump, and those that return before a last declaration, where a second   *)
(* return is added.                                                        *)
RejectionsExplained ==
    pc = "verify_failed" =>
        \/ \E n \in ForBodies :
              EndsByLeaving(StatementsAt(body, child_scopes[n]), {"return", "break"})
        \/ EndsByLeaving(body, {"return"}) /\ ~ has_return_at_end(body)

(* The places in the blocks: <<block, instruction>>.                       *)
CodePlaces == UNION {{block} \X DOMAIN Code(block) : block \in Emitted}

(* What happens next at a place in the blocks, if no more than n jumps     *)
(* lead to it.                                                             *)
AfterJumps[n \in 0 .. Len(context.blocks)] ==
    [place \in CodePlaces |->
        LET instruction == Code(place[1])[place[2]]
        IN  IF instruction.kind = "jump" /\ n > 0
              THEN AfterJumps[n - 1][<<instruction.targets[1], 1>>]
              ELSE instruction.point]

Upcoming ==
    CASE pc = "run"      -> AfterJumps[Len(context.blocks)][at]
      [] pc = "returned" -> Point(<<>>, 0, 2)
      [] OTHER           -> Point(<<>>, 0, 1)

Structured == INSTANCE StructuredProgram WITH point <- Upcoming

(* The blocks do what the statements say: running them is running the      *)
(* structured program, with the same conditions and effects in the same    *)
(* order.                                                                  *)
ImplementsStructured == Structured!Spec

(* assert(LLVMVerifyModule(module, ...) == 0), hl_llvm_backend.cpp: LLVM   *)
(* accepts what is generated for a function without errors.                *)
VerifierAccepts == pc # "verify_failed"

=============================================================================
