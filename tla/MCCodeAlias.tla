----------------------------- MODULE MCCodeAlias -----------------------------
(***************************************************************************)
(* Code of two pages of text and one of read-only data, and a page of the  *)
(* module itself.  The claims are those of the program: all of the code,   *)
(* for the patchers; the JIT area; the first words of a function, in a     *)
(* page and over the end of one.                                           *)
(***************************************************************************)
EXTENDS CodeAlias, TLC

CONSTANTS patcher, jit, hook, crossing

MCClaim == {patcher, jit, hook, crossing}
MCRo == patcher :> 3 @@ jit :> 12 @@ hook :> 4 @@ crossing :> 5
MCSize == patcher :> 9 @@ jit :> 3 @@ hook :> 1 @@ crossing :> 2
=============================================================================
