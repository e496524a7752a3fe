---------------------------- MODULE MCDynaFlags ----------------------------
(***************************************************************************)
(* Two flags, and four families of blocks: three instructions of most      *)
(* kinds; native calls and shifts that may leave the flags alone; four     *)
(* instructions around MUL; four that set all the flags or a part.         *)
(***************************************************************************)
EXTENDS DynaFlags

MCFlags == {"CF", "PF"}
MCForward == {-1} \cup 1..3
MCCommon == {"nop", "add", "inc", "adc", "clc", "popf", "daa", "pushf",
             "jc", "jp", "jecxz", "jmp", "ret"}
MCNative == {"add", "inc", "adc", "shlcl", "native", "jc", "jp", "jmp", "ret"}
MCMul == {"mul", "pushf", "jp", "jmp"}
MCFour == {"add", "inc", "jc", "jmp"}
MCFamilies == {[ops |-> MCCommon, max |-> 3], [ops |-> MCNative, max |-> 3],
               [ops |-> MCMul, max |-> 4], [ops |-> MCFour, max |-> 4]}
=============================================================================
