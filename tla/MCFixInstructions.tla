-------------------------- MODULE MCFixInstructions --------------------------
(***************************************************************************)
(* Functions made of a few instructions that reach each way to fix one.    *)
(* Backward is what points to the instruction before.                      *)
(***************************************************************************)
EXTENDS FixInstructions

I(op, imm) == [op |-> op, imm |-> imm, bits |-> {}, rd |-> {}, low |-> {}]
Wide(ins, bits) == [ins EXCEPT !.bits = bits]
Backward(op) == I(op, Span(op) - 1)

Plain == I("plain", 0)
References == {I("b", 0), I("b", 2), Backward("b"), I("b.c", 1)}

\* Whatever leaves the function is too far from the trampoline.
FarInstrs == {Plain, I("prfm", 0), I("b", 1000), I("bl", 1000), I("tbz", 1000),
              Wide(I("ldrv", 100), {31}), I("ldr", 1), I("adr", 1)} \cup References

\* Only the second tbz is.  ADRP's page holds none of the function.
NearInstrs == {Plain, I("bl", 1000), I("tbz", 10), I("tbz", 8100),
               Wide(I("ldrv", 101), {30}), I("ldrsw", 107), I("adr", 1),
               I("adrp", 1)} \cup References

BackwardInstrs == {Plain, Backward("b.c"), Backward("adr")}
=============================================================================
