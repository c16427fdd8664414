------------------------ MODULE MCConstantArithmetic ------------------------
(* Constants of 4 bits for TLC, with integer types of 2 and 4 bits and two  *)
(* bits of address; two enums with the same backing type, two kinds of      *)
(* pointer.  No literal has the sign bit of the undetermined integer.       *)
EXTENDS ConstantArithmetic

MCEnum(name, size, is_signed) ==
    [kind |-> "Enum", definition |-> name, size |-> size, is_signed |-> is_signed]

MCEnumTypes == {MCEnum("E", 2, TRUE), MCEnum("F", 2, TRUE)}

MCPointerTypes == {[kind |-> "Pointer", pointed_to |-> "void"],
                   [kind |-> "Pointer", pointed_to |-> "u8"]}

MCLiterals == 0..(2^(Width - 1) - 1)
=============================================================================
