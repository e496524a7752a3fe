---------------------------- MODULE MCLazyFlags ----------------------------
(* Instances of LazyFlags: bytes of four bits, words of six, longs of     *)
(* twelve.  One operation on many operands, and two on few, so that the    *)
(* second finds what the first deferred.                                   *)
EXTENDS LazyFlags

Pend == {"PEND"}

MCInterpOps == {"add", "adc", "sub", "sbb", "cmp", "inc", "dec", "neg", "and", "or", "xor",
                "test", "mul", "imul", "shl", "shr", "sar", "rol", "ror", "rcl", "rcr"}
MCJitOps == MCInterpOps \ {"rcl", "rcr"}

One8 == [interp |-> MCInterpOps, jit |-> MCJitOps, widths |-> {4}, values |-> 0..15,
         counts |-> 1..11, gens |-> {Pend, Flags, Flags \cup Pend, {"OF"}}, steps |-> 1]

One16 == [One8 EXCEPT !.widths = {6}, !.values = {0, 1, 3, 4, 31, 32, 33, 63}]

One32 == [One8 EXCEPT !.widths = {12}, !.jit = MCJitOps \cup {"sbbc"},
                      !.values = {0, 1, 3, 8, 63, 64, 2047, 2048, 4095}]

Double16 == [One16 EXCEPT !.interp = {"shld", "shrd"}, !.jit = {}]

Double32 == [One32 EXCEPT !.interp = {"shld", "shrd"}, !.jit = {"shld", "shrd"}]

Two == [One8 EXCEPT !.values = {1, 15}, !.counts = {1, 2}, !.steps = 2,
                    !.gens = {{}, Pend, Flags, {"ZF"}}]

Two32 == [Two EXCEPT !.widths = {12}, !.values = {1, 4095}, !.jit = MCJitOps \cup {"sbbc"},
                     !.gens = {{}, Pend, Flags, {"ZF", "AF"}}]

MCFamilies == [one8 |-> One8, one16 |-> One16, one32 |-> One32, double16 |-> Double16,
               double32 |-> Double32, two |-> Two, two32 |-> Two32]

=============================================================================
