-------------------------- MODULE ConstantArithmetic --------------------------
(* The compiler computes an operator whose operands are both constants      *)
(* itself (constant.cpp), and generates an instruction for it otherwise     *)
(* (hl_generator.cpp).  A constant of any integer type is a uint64_t that   *)
(* nothing keeps inside its type; a register is as wide as its type.  One   *)
(* expression is evaluated here both ways at once: each operand has the     *)
(* bits the compiler folded, and those that the generated code would have   *)
(* in a register, were the constants held in variables of the same types.   *)
(*                                                                          *)
(* The value of an expression may be that of a variant of an enum, which    *)
(* the next variants count on from, or two may be the range of a for-loop.  *)
(*                                                                          *)
(* Widths are scaled: Width stands for 64, the other Sizes for 8, 16, 32.   *)
(* Floats, structs and arrays are not here.                                 *)
EXTENDS Integers

CONSTANTS
    Width,          \* bits of a uint64_t
    Sizes,          \* sizes of integer types in bits
    AddressSize,    \* architecture_sizes.address_size
    DefaultSize,    \* architecture_sizes.default_integer_size
    Literals,       \* integer literals of the source
    EnumTypes,      \* enum types, each with its backing type
    PointerTypes    \* pointer types

Integer(size, is_signed) ==
    [kind |-> "Integer", size |-> size, is_signed |-> is_signed]

IntegerTypes == {Integer(size, is_signed) : size \in Sizes, is_signed \in BOOLEAN}

UndeterminedInteger == [kind |-> "UndeterminedInteger"]

Boolean == [kind |-> "Boolean"]

usize == Integer(AddressSize, FALSE)

Backing(type) == Integer(type.size, type.is_signed)

ASSUME WidthAssumption ==
    /\ Width \in Nat /\ Sizes \subseteq 1..Width
    /\ {Width, AddressSize, DefaultSize} \subseteq Sizes
    /\ Literals \subseteq 0..(2^Width - 1)
ASSUME TypesAssumption ==
    /\ \A type \in EnumTypes : type.kind = "Enum" /\ Backing(type) \in IntegerTypes
    /\ \A type \in PointerTypes : type.kind = "Pointer"

Types == IntegerTypes \cup EnumTypes \cup PointerTypes
             \cup {UndeterminedInteger, Boolean}

BitsOf(type) ==
    CASE type.kind \in {"Integer", "Enum"} -> type.size
      [] type.kind = "Pointer"             -> AddressSize
      [] type.kind = "Boolean"             -> 1
      [] OTHER                             -> Width

IsSigned(type) ==
    CASE type.kind \in {"Integer", "Enum"} -> type.is_signed
      [] OTHER                             -> type = UndeterminedInteger

(***************************************************************************)
(* Two's complement arithmetic of a given width: what C++ does with 64     *)
(* bits and LLVM with the bits of a register.                              *)
(***************************************************************************)
Truncate(bits, width) == bits % 2^width

Signed(bits, width) ==
    IF bits < 2^(width - 1) THEN bits ELSE bits - 2^width

Reads(bits, width, is_signed) ==
    IF is_signed THEN Signed(bits, width) ELSE bits

(* The low bits that a value of the type has, widened to a uint64_t. *)
Extend(type, bits) ==
    Truncate(Reads(Truncate(bits, BitsOf(type)), BitsOf(type), IsSigned(type)),
             Width)

Abs(n) == IF n < 0 THEN -n ELSE n

Quotient(a, b) ==
    IF (a < 0) = (b < 0) THEN Abs(a) \div Abs(b) ELSE -(Abs(a) \div Abs(b))

Ones(bits, width) == {i \in 0..(width - 1) : (bits \div 2^i) % 2 = 1}

FromOnes(positions) ==
    LET sum[n \in 0..Width] ==
          IF n = 0 THEN 0
                   ELSE sum[n - 1] + IF n - 1 \in positions THEN 2^(n - 1) ELSE 0
    IN  sum[Width]

Flag(condition) == IF condition THEN 1 ELSE 0

Machine(op, width, is_signed, a, b) ==
    LET x == Reads(a, width, is_signed)
        y == Reads(b, width, is_signed)
    IN  CASE op = "Addition"       -> Truncate(x + y, width)
          [] op = "Subtraction"    -> Truncate(x - y, width)
          [] op = "Multiplication" -> Truncate(x * y, width)
          [] op = "Division"       -> Truncate(Quotient(x, y), width)
          [] op = "Modulo"         -> Truncate(x - y * Quotient(x, y), width)
          [] op = "BitwiseAnd"     -> FromOnes(Ones(a, width) \cap Ones(b, width))
          [] op = "BitwiseOr"      -> FromOnes(Ones(a, width) \cup Ones(b, width))
          [] op = "LeftShift"      -> Truncate(a * 2^(b % width), width)
          [] op = "RightShift"     -> Truncate(x \div 2^(b % width), width)
          [] op = "Equal"          -> Flag(a = b)
          [] op = "NotEqual"       -> Flag(a # b)
          [] op = "LessThan"       -> Flag(x < y)
          [] op = "GreaterThan"    -> Flag(x > y)
          [] op = "BooleanAnd"     -> Flag(a = 1 /\ b = 1)
          [] op = "BooleanOr"      -> Flag(a = 1 \/ b = 1)

IsDivision(op) == op \in {"Division", "Modulo"}
IsShift(op) == op \in {"LeftShift", "RightShift"}

(* A division by zero, or one whose quotient does not fit. *)
DivisionFails(op, width, is_signed, a, b) ==
    /\ IsDivision(op)
    /\ \/ b = 0
       \/ is_signed /\ Signed(a, width) = -(2^(width - 1)) /\ Signed(b, width) = -1

Comparisons == {"Equal", "NotEqual", "LessThan", "GreaterThan"}

Arithmetic == {"Addition", "Subtraction", "Multiplication", "Division", "Modulo",
               "BitwiseAnd", "BitwiseOr", "LeftShift", "RightShift"}

Operators == Arithmetic \cup Comparisons \cup {"BooleanAnd", "BooleanOr"}

(***************************************************************************)
(* Constants: [type, folded, ...], folded being the uint64_t.              *)
(***************************************************************************)
(* Mutant: the bounds are off by one. *)
OffByOne(value, target) ==
    IF target.is_signed
    THEN Signed(value, Width) \in -(2^(target.size - 1))..2^(target.size - 1)
    ELSE value <= 2^target.size

(* check_undetermined_integer_to_integer_coercion; the value is unsigned,  *)
(* so that value < 0, the test for unsigned types, never holds.            *)
InRange(value, target) ==
    IF target.is_signed
    THEN Signed(value, Width) \in -(2^(target.size - 1))..(2^(target.size - 1) - 1)
    ELSE value <= 2^target.size - 1

(* coerce_constant_to_type accepts the value. *)
Coercible(v, target) ==
    \/ v.type = target
    \/ /\ v.type = UndeterminedInteger
       /\ \/ target.kind \in {"Integer", "Enum"} /\ InRange(v.folded, Backing(target))
          \/ target.kind = "Pointer"
    \/ /\ v.type.kind = "Enum" /\ target.kind = "Integer" /\ Backing(v.type) = target
    \/ /\ v.type.kind = "Integer" /\ target.kind = "Enum" /\ v.type = Backing(target)
    \/ /\ v.type.kind \in {"Integer", "Enum"} /\ target = UndeterminedInteger

Coerced(v, target) ==
    IF v.type.kind = "Integer" /\ target = UndeterminedInteger
    THEN Truncate(v.folded, v.type.size)
    ELSE v.folded

Larger(m, n) == IF m > n THEN m ELSE n

(* determine_binary_operation_type *)
DetermineType(left, right) ==
    LET First(kind) == IF left.kind = kind THEN left ELSE right
        kinds == {left.kind, right.kind}
    IN  IF "Boolean" \in kinds THEN left
        ELSE IF "Pointer" \in kinds THEN First("Pointer")
        ELSE IF kinds = {"Integer"}
             THEN Integer(Larger(left.size, right.size),
                          left.is_signed \/ right.is_signed)
        ELSE IF "Integer" \in kinds THEN First("Integer")
        ELSE left

OperatorsOf(type) ==
    CASE type.kind \in {"Integer", "UndeterminedInteger"} -> Arithmetic \cup Comparisons
      [] type.kind = "Boolean" -> {"BooleanAnd", "BooleanOr", "Equal", "NotEqual"}
      [] OTHER                 -> {"Equal", "NotEqual"}

ResultType(op, type) == IF op \in Arithmetic THEN type ELSE Boolean

(* evaluate_constant_binary_operation: 64 bits whatever the type *)
Foldable(op, left, right) ==
    LET type == DetermineType(left.type, right.type)
    IN  /\ Coercible(left, type) /\ Coercible(right, type)
        /\ op \in OperatorsOf(type)

(* Mutant: the right shift of a signed constant is a logical one. *)
LogicalShift(op, type, a, b) ==
    Machine(op, Width, IsSigned(type) /\ op # "RightShift", a, b)

Fold(op, type, a, b) == Machine(op, Width, IsSigned(type), a, b)

(* Mutant: a usize is no pointer. *)
PointersFromPointers(v, target) ==
    \/ Coercible(v, target)
    \/ target.kind \in {"Integer", "Enum"}
       /\ v.type.kind \in {"Integer", "UndeterminedInteger"}
    \/ target.kind = "Integer" /\ v.type.kind = "Enum"
    \/ target = usize /\ v.type.kind = "Pointer"
    \/ target.kind = "Pointer" /\ v.type.kind = "Pointer"

(* evaluate_constant_cast: what cannot be coerced is widened by the sign   *)
(* of its own type, and never cut down to the target.                      *)
CastAllowed(v, target) ==
    \/ Coercible(v, target)
    \/ target.kind \in {"Integer", "Enum"}
       /\ v.type.kind \in {"Integer", "UndeterminedInteger"}
    \/ target.kind = "Integer" /\ v.type.kind = "Enum"
    \/ target = usize /\ v.type.kind = "Pointer"
    \/ target.kind = "Pointer" /\ (v.type = usize \/ v.type.kind = "Pointer")

CastFolded(v, target) ==
    IF /\ ~Coercible(v, target)
       /\ v.type.kind \in {"Integer", "Enum"} /\ target.kind \in {"Integer", "Enum"}
    THEN Extend(v.type, v.folded)
    ELSE Coerced(v, target)

(***************************************************************************)
(* The same operators on registers.  A constant of undetermined type is in *)
(* no register: it becomes a literal of the type it is coerced to, and an  *)
(* operation of that type is always folded.                                *)
(***************************************************************************)
InRegister(v, target) ==
    IF UndeterminedInteger \in {v.type, target}
    THEN Truncate(Coerced(v, target), BitsOf(target))
    ELSE v.generated

(* generate_binary_operation and the instruction of the backend *)
Accepted(op, left, right) ==
    LET determined == DetermineType(left.type, right.type)
        type == IF determined = UndeterminedInteger
                THEN Integer(DefaultSize, TRUE) ELSE determined
    IN  /\ Coercible(left, type) /\ Coercible(right, type)
        /\ op \in OperatorsOf(type)

Generate(op, type, a, b) == Machine(op, BitsOf(type), IsSigned(type), a, b)

Poison(op, type, a, b) ==
    \/ DivisionFails(op, BitsOf(type), IsSigned(type), a, b)
    \/ IsShift(op) /\ b >= BitsOf(type)

CastAccepted(v, target) ==
    \/ Coercible(v, target)
    \/ target.kind \in {"Integer", "Enum"} /\ v.type.kind = "Integer"
    \/ target = usize /\ v.type.kind = "Pointer"
    \/ target.kind = "Pointer" /\ (v.type = usize \/ v.type.kind = "Pointer")

CastGenerated(v, target) ==
    IF v.type.kind \in {"Integer", "Enum"} /\ BitsOf(target) > BitsOf(v.type)
    THEN Truncate(Reads(v.generated, BitsOf(v.type), IsSigned(v.type)), BitsOf(target))
    ELSE Truncate(InRegister(v, target), BitsOf(target))

-----------------------------------------------------------------------------
(* An operand: agrees is false once a folded operation has read bits that   *)
(* its operand does not have in a register, or LLVM leaves the result open; *)
(* nothing is said of what the generated code computes after that.          *)
Operand(type, folded, generated, agrees) ==
    [type |-> type, folded |-> folded, agrees |-> agrees,
     generated |-> IF agrees THEN generated ELSE 0]

NoOperand == [type |-> [kind |-> "None"]]

Fits(type, bits) == bits = Extend(type, bits)

(* The operands of which an operation reads more than the low bits. *)
ReadsAll(op) ==
    CASE op \in {"Division", "Modulo", "RightShift"} \cup Comparisons -> {"left", "right"}
      [] op = "LeftShift" -> {"right"}
      [] OTHER            -> {}

Constants ==
    {Operand(UndeterminedInteger, bits, bits, TRUE) : bits \in Literals}
    \cup {Operand(Boolean, bit, bit, TRUE) : bit \in 0..1}
    \cup UNION {{Operand(type, Extend(type, bits), bits, TRUE) :
                     bits \in 0..(2^type.size - 1)} : type \in EnumTypes}

VARIABLES
    context,    \* "declaration": evaluate_constant_expression; "body": generate_expression;
                \* "enum": the last variant is on the left; "loop": the index and the last value
    operands,   \* the operands of the expression, evaluated so far
    status      \* "evaluating", "error", "ended" (a loop), or how the compiler died

vars == <<context, operands, status>>

Sides == {"left", "right"}

Init ==
    /\ context \in {"declaration", "body"}
    /\ \E constant \in Constants :
          operands = [left |-> constant, right |-> NoOperand]
    /\ status = "evaluating"

Has(side) ==
    /\ context \in {"declaration", "body"}
    /\ status = "evaluating"
    /\ operands[side] # NoOperand

Becomes(side, v) ==
    /\ operands' = [operands EXCEPT ![side] = v]
    /\ UNCHANGED <<context, status>>

Stops(reason) ==
    /\ status' = reason
    /\ UNCHANGED <<context, operands>>

(* The right operand of the next operator. *)
Constant ==
    /\ Has("left") /\ ~Has("right")
    /\ \E constant \in Constants : Becomes("right", constant)

(* Mutant: the negated constant is not brought back to 64 unsigned bits. *)
NegatedInteger(v) == Operand(v.type, -v.folded, v.generated, v.agrees)

(* In a body, a negated constant of an integer type gets the undetermined  *)
(* type, which a variable of that type would not.                          *)
Negated(v) ==
    LET folded == Truncate(-v.folded, Width)
    IN  IF v.type = UndeterminedInteger
        THEN Operand(v.type, folded, folded, v.agrees)
        ELSE IF context = "body"
             THEN Operand(UndeterminedInteger, folded, folded, FALSE)
             ELSE Operand(v.type, folded,
                          Generate("Subtraction", v.type, 0, v.generated), v.agrees)

Negation(side) ==
    /\ Has(side)
    /\ IF operands[side].type.kind \in {"Integer", "UndeterminedInteger"}
       THEN Becomes(side, Negated(operands[side]))
       ELSE Stops("error")

BooleanInvert(side) ==
    /\ Has(side)
    /\ LET v == operands[side]
       IN  IF v.type = Boolean
           THEN Becomes(side, Operand(Boolean, 1 - v.folded, 1 - v.generated, v.agrees))
           ELSE Stops("error")

(* A cast that constants do not allow is tried again on registers in a     *)
(* body, where a target of another kind than these is an abort().          *)
Cast(side, target) ==
    /\ Has(side)
    /\ LET v == operands[side]
       IN  IF CastAllowed(v, target)
           THEN Becomes(side, Operand(target, CastFolded(v, target),
                                      CastGenerated(v, target), v.agrees))
           ELSE IF context = "body" /\ target = Boolean
                THEN Stops("aborted")
                ELSE Stops("error")

Operation(op) ==
    LET left == operands.left
        right == operands.right
        type == DetermineType(left.type, right.type)
        folded == [side \in Sides |-> Coerced(operands[side], type)]
        register == [side \in Sides |-> InRegister(operands[side], type)]
        agrees == /\ left.agrees /\ right.agrees
                  /\ \A side \in ReadsAll(op) : Fits(type, folded[side])
                  /\ type # UndeterminedInteger
                        => ~Poison(op, type, register.left, register.right)
    IN  Operand(ResultType(op, type),
                Fold(op, type, folded.left, folded.right),
                IF agrees THEN Generate(op, type, register.left, register.right) ELSE 0,
                agrees)

(* Mutant: constants of every type are divided as signed ones. *)
SignedDivision(op) ==
    LET type == DetermineType(operands.left.type, operands.right.type)
    IN  DivisionFails(op, Width, TRUE,
                      Coerced(operands.left, type), Coerced(operands.right, type))

Traps(op) ==
    LET type == DetermineType(operands.left.type, operands.right.type)
    IN  DivisionFails(op, Width, IsSigned(type),
                      Coerced(operands.left, type), Coerced(operands.right, type))

BinaryOperation(op) ==
    /\ Has("left") /\ Has("right")
    /\ \/ /\ ~Foldable(op, operands.left, operands.right)
          /\ Stops("error")
       \/ /\ Foldable(op, operands.left, operands.right)
          /\ IF Traps(op)
             THEN Stops("trapped")
             ELSE /\ operands' = [left |-> Operation(op), right |-> NoOperand]
                  /\ UNCHANGED <<context, status>>

(* The value of a variant is coerced to the backing type of the enum.       *)
EnumVariant(backing) ==
    /\ Has("left") /\ ~Has("right") /\ context = "declaration"
    /\ LET v == operands.left
       IN  IF Coercible(v, backing)
           THEN /\ operands' = [operands EXCEPT !.left =
                                   Operand(backing, v.folded, InRegister(v, backing), v.agrees)]
                /\ context' = "enum"
                /\ UNCHANGED status
           ELSE Stops("error")

(* Mutant: nothing checks the value that a variant gets by counting. *)
NextVariant_Unchecked ==
    /\ context = "enum" /\ status = "evaluating"
    /\ LET v == operands.left
       IN  Becomes("left", Operand(v.type, Truncate(v.folded + 1, Width),
                                   Truncate(v.generated + 1, v.type.size), v.agrees))

(* A variant without a value: one more than the last, in 64 bits. *)
NextVariant ==
    /\ context = "enum" /\ status = "evaluating"
    /\ LET v == operands.left
           next_value == Truncate(v.folded + 1, Width)
       IN  IF InRange(next_value, v.type)
           THEN Becomes("left", Operand(v.type, next_value,
                                        Truncate(v.generated + 1, v.type.size), v.agrees))
           ELSE Stops("error")

(* The type of the index: that of the first bound that has an integer type. *)
HasIndexType ==
    \/ \A side \in Sides : operands[side].type = UndeterminedInteger
    \/ \E side \in Sides : operands[side].type.kind = "Integer"

IndexType ==
    IF operands.left.type.kind = "Integer" THEN operands.left.type
    ELSE IF operands.right.type.kind = "Integer" THEN operands.right.type
    ELSE Integer(DefaultSize, TRUE)

Bound(v, type) ==
    LET bits == Truncate(v.folded, type.size) IN Operand(type, bits, bits, TRUE)

ForLoop ==
    /\ Has("left") /\ Has("right") /\ context = "body"
    /\ IF HasIndexType /\ \A side \in Sides : Coercible(operands[side], IndexType)
       THEN /\ operands' = [side \in Sides |-> Bound(operands[side], IndexType)]
            /\ context' = "loop"
            /\ UNCHANGED status
       ELSE Stops("error")

(* Mutant: indices of signed types are compared as unsigned ones. *)
IsPast_Unsigned(index, last) == index.generated > last.generated

IsPast(index, last) ==
    LET type == index.type
    IN  Reads(index.generated, type.size, type.is_signed)
          > Reads(last.generated, type.size, type.is_signed)

(* One round: the body sees the index, and one is added in its type. *)
NextIndex ==
    /\ context = "loop" /\ status = "evaluating"
    /\ IF IsPast(operands.left, operands.right)
       THEN Stops("ended")
       ELSE LET type == operands.left.type
                bits == Truncate(operands.left.generated + 1, type.size)
            IN  Becomes("left", Operand(type, bits, bits, TRUE))

Next ==
    \/ Constant
    \/ \E side \in Sides :
          \/ Negation(side)
          \/ BooleanInvert(side)
          \/ \E target \in Types \ {UndeterminedInteger} : Cast(side, target)
    \/ \E op \in Operators : BinaryOperation(op)
    \/ \E backing \in IntegerTypes : EnumVariant(backing)
    \/ NextVariant
    \/ ForLoop
    \/ NextIndex

Spec == Init /\ [][Next]_vars

-----------------------------------------------------------------------------
Present == {operands[side] : side \in Sides} \ {NoOperand}

Both == Has("left") /\ Has("right")

(* Folded constants are uint64_t, and registers have the bits of their     *)
(* types (constant.cpp, hl_llvm_backend.cpp).                              *)
TypeOK ==
    /\ context \in {"declaration", "body", "enum", "loop"}
    /\ status \in {"evaluating", "error", "ended", "trapped", "aborted"}
    /\ operands.left # NoOperand
    /\ \A v \in Present :
          /\ v.type \in Types
          /\ v.folded \in 0..(2^Width - 1)
          /\ v.generated \in 0..(2^BitsOf(v.type) - 1)
          /\ v.agrees \in BOOLEAN

(* The compiler computes with 64 bits what the generated code computes in  *)
(* fewer: through every sequence of operators, casts and coercions, the    *)
(* low bits of a folded constant are those of the register, as long as no  *)
(* division, right shift or comparison read an operand outside its type    *)
(* (evaluate_constant_binary_operation and evaluate_constant_cast against  *)
(* generate_binary_operation and the casts of generate_expression).        *)
FoldingAgrees ==
    \A v \in Present :
        v.agrees => Truncate(v.folded, BitsOf(v.type)) = v.generated

(* Nothing checks a division before the compiler does it, and it kills the *)
(* compiler where C++ leaves it undefined.  On operands inside their types *)
(* that only happens where the generated division is undefined as well.    *)
TrapsAgree ==
    Both => \A op \in {"Division", "Modulo"} :
        LET type == DetermineType(operands.left.type, operands.right.type)
            register == [side \in Sides |-> InRegister(operands[side], type)]
        IN  /\ Foldable(op, operands.left, operands.right)
            /\ \A v \in Present : v.agrees /\ Fits(type, Coerced(v, type))
            /\ Traps(op)
            => Poison(op, type, register.left, register.right)

(* An undetermined constant is coerced to an integer type exactly when it  *)
(* is a value of that type, and keeps that value in a register of it; but  *)
(* for the unsigned type of 64 bits, which takes everything                *)
(* (check_undetermined_integer_to_integer_coercion).                       *)
CoercionKeepsValue ==
    \A v \in Present, target \in IntegerTypes \ {Integer(Width, FALSE)} :
        v.type = UndeterminedInteger =>
            (Coercible(v, target) <=>
                Reads(InRegister(v, target), target.size, target.is_signed)
                    = Signed(v.folded, Width))

(* Whether an expression compiles does not depend on whether its operands  *)
(* are constants or variables: constant.cpp and hl_generator.cpp accept    *)
(* the same operators and casts.  Two kinds of expression are excepted,    *)
(* which only constants may use: an undetermined integer on the left of an *)
(* enum, and the cast of an enum to an integer type not its own.           *)
AcceptanceAgrees ==
    /\ Both /\ (\E v \in Present : v.type # UndeterminedInteger)
            /\ ~(operands.left.type = UndeterminedInteger /\ operands.right.type.kind = "Enum")
       => \A op \in Operators : Foldable(op, operands.left, operands.right)
                                <=> Accepted(op, operands.left, operands.right)
    /\ \A v \in Present, target \in Types \ {UndeterminedInteger} :
          /\ v.type # UndeterminedInteger
          /\ ~(v.type.kind = "Enum" /\ target.kind = "Integer")
          => (CastAllowed(v, target) <=> CastAccepted(v, target))

Value(v) == Reads(v.generated, BitsOf(v.type), IsSigned(v.type))

Largest(type) == IF type.is_signed THEN 2^(type.size - 1) - 1 ELSE 2^type.size - 1

(* Counting from a variant that is a value of the backing type, the next   *)
(* one is larger by one in the generated code too, or refused: counting is *)
(* done in 64 bits and checked against the type.  In a type of 64 bits the *)
(* count wraps, and no check sees it (next_value in                        *)
(* do_resolve_enum_definition).                                            *)
VariantsCount ==
    [][ /\ context = "enum" /\ status' = "evaluating"
        /\ operands.left.agrees /\ Fits(operands.left.type, operands.left.folded)
        /\ operands.left.type.size < Width
        => Value(operands'.left) = Value(operands.left) + 1 ]_vars

(* Every round of a for-loop brings the index closer to its end, whatever  *)
(* the signs and types of the bounds, so that the loop ends.  It does not  *)
(* when the last value is the largest of the type: the index wraps, and    *)
(* the loop goes on for ever (the condition and the increment of ForLoop   *)
(* in generate_runtime_statements).                                        *)
LoopsAdvance ==
    [][ /\ context = "loop" /\ status' = "evaluating"
        /\ Value(operands.right) # Largest(operands.right.type)
        => /\ operands'.right = operands.right
           /\ Value(operands.left) < Value(operands'.left)
           /\ Value(operands'.left) <= Value(operands.right) + 1 ]_vars

=============================================================================
