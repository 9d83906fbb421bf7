----------------------------- MODULE HookInstall -----------------------------
(***************************************************************************)
(* Hooks, from exl_main to the calls of a hooked function: each one takes  *)
(* a slot of the pool, copies the instructions it overwrites to it, with a *)
(* jump back, and writes a jump to its callback over them.  A far jump is  *)
(* four or five words, a near one is one.                                  *)
(*                                                                         *)
(* Everything is installed by the one thread that there is.  What the      *)
(* instructions of the function become in a slot is FixInstructions's:     *)
(* here a function's own instruction is copied as one word, and only the   *)
(* words of an earlier hook of the same function are told apart.           *)
(***************************************************************************)
EXTENDS Integers, Sequences

CONSTANTS
  Function,      \* the functions that are hooked
  FunLen,        \* bound: words per function
  HookMax,       \* slots of the pool: 20 in the code
  Plan           \* the function of each hook, in the order of installation

Hook == DOMAIN Plan

ASSUME FunLenAssumption == FunLen \in Nat /\ FunLen > 5
ASSUME HookMaxAssumption == HookMax \in Nat
ASSUME PlanAssumption ==
  /\ Plan \in Seq(Function)
  /\ Len(Plan) <= HookMax

\* Where a jump goes: a word of a function or a slot, or a callback.
Place == [in : {"code", "slot", "callback", "none"}, of : Function \cup Int,
          at : Nat]
Code(f, i) == [in |-> "code", of |-> f, at |-> i]
Slot(k, i) == [in |-> "slot", of |-> k, at |-> i]
Callback(h) == [in |-> "callback", of |-> h, at |-> 0]
Nowhere == [in |-> "none", of |-> 0, at |-> 0]
Returned == [in |-> "none", of |-> 0, at |-> 1]

\* A word: an instruction of a function, or one that a hook writes.
Word(op, to) == [op |-> op, to |-> to]
Nop == Word("nop", Nowhere)
FarJump(to) == <<Word("ldr_x17", Nowhere), Word("br_x17", Nowhere),
                 Word("low", to), Word("high", to)>>

VARIABLES
  lies,          \* per function: near its callback, or far and how aligned
  crossing,      \* the far ones whose first words lie in two pages
  installed,     \* how many hooks of Plan are
  index,         \* AllocForTrampoline's: the last slot given away
  code, pool,    \* the words of the functions and of the slots
  OrigRef,       \* per hook, where its Orig goes
  failed,        \* the program aborted
  \* a call of a hooked function
  called, pc, x17,
  trace          \* the callbacks entered and the instructions executed

layoutVars == <<lies, crossing>>
hookVars == <<installed, index, code, pool, OrigRef, failed>>
callVars == <<called, pc, x17, trace>>

HookTypeOK ==
  /\ installed \in 0 .. Len(Plan)
  /\ index \in -1 .. HookMax
  /\ \A f \in Function : DOMAIN code[f] = 0 .. FunLen - 1
  /\ OrigRef \in [Hook -> {Nowhere} \cup {Slot(k, 0) : k \in 0 .. HookMax}]
  /\ failed \in BOOLEAN
  /\ called \in Function /\ pc.in \in {"code", "slot", "callback", "none"}

\* The counter before its first increment.
Bug_NoSlotYet == 0
NoSlotYet == -1

HookInit ==
  /\ lies \in [Function -> {"near", "even", "odd"}]
  /\ crossing \in SUBSET {f \in Function : lies[f] # "near"}
  /\ installed = 0 /\ index = NoSlotYet
  /\ code = [f \in Function |->
               [i \in 0 .. FunLen - 1 |-> Word("own", Code(f, i))]]
  /\ pool = [k \in 0 .. HookMax |-> << >>]
  /\ OrigRef = [h \in Hook |-> Nowhere]
  /\ failed = FALSE
  /\ called \in Function /\ pc = Returned /\ x17 = Nowhere /\ trace = << >>

-----------------------------------------------------------------------------
(***************************************************************************)
(* HookFuncImpl.                                                           *)
(***************************************************************************)
count(f) == IF lies[f] = "near" THEN 1 ELSE IF lies[f] = "even" THEN 4 ELSE 5

\* The words written over function f.
JumpTo(f, to) ==
  IF lies[f] = "near" THEN <<Word("b", to)>>
  ELSE (IF lies[f] = "odd" THEN <<Nop>> ELSE << >>) \o FarJump(to)

\* Instruction w, copied to where word i of slot k is: a load of a literal takes
\* the literal along and jumps over it.
CopyOf(w, literal, k, i) ==
  IF w.op = "ldr_x17"
  THEN <<w, Word("b", Slot(k, i + 4)), literal, [literal EXCEPT !.op = "high"]>>
  ELSE <<w>>

\* The first n words of function f, copied to slot k.
Copied(f, n, k) ==
  LET done[i \in 0 .. n] ==
        IF i = 0 THEN << >>
        ELSE done[i - 1] \o
               CopyOf(code[f][i - 1], code[f][IF i + 1 < FunLen THEN i + 1 ELSE 0],
                      k, Len(done[i - 1]))
  IN done[n]

\* How many instructions go to the slot, and where it goes back to.
Bug_InstructionsMoved(f) == IF lies[f] = "odd" THEN 4 ELSE count(f)
InstructionsMoved(f) == count(f)
Bug_BackTo(f) == Code(f, InstructionsMoved(f) + 1)
BackTo(f) == Code(f, InstructionsMoved(f))

\* By the distance, and by the alignment of the slot's next word.
JumpsBack(f) == {<<Word("b", BackTo(f))>>, FarJump(BackTo(f)),
                 <<Nop>> \o FarJump(BackTo(f))}

AllocForTrampoline == index' = index + 1

Abort ==
  /\ failed' = TRUE
  /\ UNCHANGED <<installed, index, code, pool, OrigRef>>

\* InstallAtFuncPtr and InstallAtSymbol of the next hook.  It aborts if the name
\* is unknown, if there is no slot, or if an alias fails (CodeAlias): for want
\* of memory, and always for code over the end of a page.
Install ==
  /\ installed < Len(Plan)
  /\ LET h == installed + 1
         f == Plan[h]
     IN \/ Abort
        \/ /\ index + 1 <= HookMax /\ f \notin crossing
           /\ AllocForTrampoline
           /\ \E back \in JumpsBack(f) :
                pool' = [pool EXCEPT ![index'] =
                           Copied(f, InstructionsMoved(f), index') \o back]
           /\ code' = [code EXCEPT ![f] =
                         [i \in 0 .. FunLen - 1 |->
                            IF i < count(f) THEN JumpTo(f, Callback(h))[i + 1]
                            ELSE @[i]]]
           /\ OrigRef' = [OrigRef EXCEPT ![h] = Slot(index', 0)]
           /\ installed' = h
           /\ UNCHANGED failed
  /\ UNCHANGED <<layoutVars, callVars>>

-----------------------------------------------------------------------------
(***************************************************************************)
(* The game calls a function.                                              *)
(***************************************************************************)
Call(f) ==
  /\ pc = Returned
  /\ called' = f /\ pc' = Code(f, 0) /\ trace' = << >>
  /\ UNCHANGED <<x17, layoutVars, hookVars>>

\* What lies at a place that is no callback.
WordAt(p) ==
  IF p.in = "code" /\ p.at < FunLen THEN code[p.of][p.at]
  ELSE IF p.in = "slot" /\ p.at < Len(pool[p.of]) THEN pool[p.of][p.at + 1]
  ELSE Word("nothing", Nowhere)
After(p, n) == [p EXCEPT !.at = @ + n]

\* A function returns from its last word.
Execute ==
  /\ pc.in \in {"code", "slot"}
  /\ LET w == WordAt(pc) IN
     /\ w.op \in {"own", "nop", "b", "ldr_x17", "br_x17"}
     /\ pc' = IF w.op = "own" /\ w.to.at = FunLen - 1 THEN Returned
              ELSE IF w.op = "b" THEN w.to
              ELSE IF w.op = "br_x17" THEN x17 ELSE After(pc, 1)
     /\ x17' = IF w.op = "ldr_x17" THEN WordAt(After(pc, 2)).to ELSE x17
     /\ trace' = IF w.op = "own" THEN Append(trace, w.to) ELSE trace
  /\ UNCHANGED <<called, layoutVars, hookVars>>

\* A callback calls Orig, or not: DrawTargetingReticle of a hidden reticle.
RunCallback ==
  /\ pc.in = "callback"
  /\ pc' \in {OrigRef[pc.of], Returned}
  /\ trace' = Append(trace, pc)
  /\ UNCHANGED <<called, x17, layoutVars, hookVars>>

Run == Execute \/ RunCallback

-----------------------------------------------------------------------------
(***************************************************************************)
(* No two hooks share a slot, and every slot is whole inside the pool:     *)
(* AllocForTrampoline accepts one slot more than there are, but the hooks  *)
(* never come to it.                                                       *)
(***************************************************************************)
SlotsApart ==
  \A h \in 1 .. installed :
    /\ OrigRef[h].of < HookMax
    /\ \A g \in 1 .. h - 1 : OrigRef[g].of # OrigRef[h].of

(***************************************************************************)
(* A call of a function goes through its callbacks, the one hooked last    *)
(* first, and then executes each instruction of the function itself once,  *)
(* in order; a callback that does not call Orig cuts it short.             *)
(***************************************************************************)
Promised(f) ==
  LET entered[h \in 0 .. Len(Plan)] ==
        IF h = 0 THEN << >>
        ELSE IF Plan[h] = f THEN <<Callback(h)>> \o entered[h - 1]
        ELSE entered[h - 1]
  IN entered[Len(Plan)] \o [i \in 1 .. FunLen |-> Code(f, i - 1)]

CallsAsInstalled ==
  /\ Len(trace) <= Len(Promised(called))
  /\ trace = SubSeq(Promised(called), 1, Len(trace))

(***************************************************************************)
(* A call of a hooked function returns: it never runs into the words of a  *)
(* jump's address, or in a circle.                                         *)
(***************************************************************************)
CallReturns == pc # Returned ~> pc = Returned
=============================================================================
