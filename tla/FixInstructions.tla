--------------------------- MODULE FixInstructions ---------------------------
(***************************************************************************)
(* __fix_instructions of the hooking library (hook_impl.cpp): the first    *)
(* instructions of a function, which a hook overwrites, are copied to a    *)
(* trampoline.  An instruction relative to the program counter is encoded  *)
(* anew if its target is near the trampoline, and otherwise becomes a      *)
(* sequence that loads the target's address; a reference from one copied   *)
(* instruction to another follows the copy, through a map of references    *)
(* still to be fixed when it points forward.                               *)
(*                                                                         *)
(* Addresses count 4-byte words.  An instruction is its operation, its     *)
(* immediate field and what the code can disturb of the rest: the bits     *)
(* that choose a load's width, bits 3 and 4 of ADR's register, and the two *)
(* low bits of ADR's target.  Which instruction comes next is any of       *)
(* Instrs: the loop never looks ahead.                                     *)
(***************************************************************************)
EXTENDS Integers, Sequences

CONSTANTS
  Instrs,    \* bound: the instructions told apart
  Base,      \* address of the function
  Replace,   \* address of the callback it is hooked with
  Rx, Rw     \* the trampoline, where it runs and where it is written

MaxInstructions == 5
TrampolineSize == MaxInstructions * 10
PageWords == 1024

Branches == {"b", "bl"}
Conds == {"b.c", "cbz", "tbz"}          \* cbnz and tbnz are treated alike
Loads == {"ldr", "ldrv", "ldrsw"}
PcRelative == Branches \cup Conds \cup Loads \cup {"adr", "adrp"}
Ops == PcRelative \cup {"prfm", "plain"}

\* Number of values of the immediate field.
Span(op) ==
  IF op \in Branches THEN 67108864                             \* 26 bits
  ELSE IF op \in {"b.c", "cbz", "adr"} \cup Loads THEN 524288  \* 19 bits
  ELSE IF op = "tbz" THEN 16384                                \* 14 bits
  ELSE IF op = "adrp" THEN 2097152 ELSE 1                      \* 21 bits

Instr == [op : Ops, imm : Nat, bits : SUBSET {30, 31},
          rd : SUBSET {3, 4}, low : SUBSET {0, 1}]

ASSUME InstrsAssumption ==
  Instrs \subseteq {i \in Instr : i.imm < Span(i.op)}

\* HookFuncImpl: how many instructions the jump to the callback overwrites.
Abs(n) == IF n < 0 THEN -n ELSE n
Count ==
  IF Abs(Replace - Base) < Span("b") \div 2 - 1 THEN 1
  ELSE IF (Base + 2) % 2 # 0 THEN 5 ELSE 4

\* A slot of the pool is 8-byte aligned and overlaps neither alias nor function.
ASSUME PlaceAssumption ==
  /\ Base \in Nat /\ Replace \in Nat /\ Rx \in Nat /\ Rw \in Nat
  /\ Rx % 2 = 0 /\ Rw % 2 = 0
  /\ Rx + TrampolineSize <= Rw \/ Rw + TrampolineSize <= Rx
  /\ Rx + TrampolineSize <= Base \/ Base + Count <= Rx

VARIABLES
  copied,   \* one record per instruction done: what was emitted for it
  next,     \* *outprx: where the next word goes
  pending,  \* fmap: <<from, to>>, instruction from waits for where to goes
  back      \* the jump back to the function, once it was emitted

vars == <<copied, next, pending, back>>

NoJump == [at |-> -1, long |-> FALSE, target |-> 0, imm |-> 0]
done == back # NoJump

Init ==
  /\ copied = <<>>
  /\ next = Rx
  /\ pending = {}
  /\ back = NoJump

-----------------------------------------------------------------------------
SignExtended(imm, op) == IF 2 * imm >= Span(op) THEN imm - Span(op) ELSE imm
Page(address) == address - (address % PageWords)

\* Where an instruction at an address points, by the architecture.
PointsTo(ins, address) ==
  IF ins.op = "adrp"
  THEN Page(address) + PageWords * SignExtended(ins.imm, ins.op)
  ELSE address + SignExtended(ins.imm, ins.op)

\* absolute_addr: where the code takes it to point.  Only B and BL keep the
\* sign: a conditional branch's field is taken as it is, and for the others
\* "& ~3u" makes the offset an unsigned 32-bit number of bytes.
FourGigabytes == 1073741824         \* 2^32 bytes, in words
absolute_addr(ins, address) ==
  LET from == IF ins.op = "adrp" THEN Page(address) ELSE address
  IN IF ins.op \in Branches THEN PointsTo(ins, address)
     ELSE IF ins.op \in Conds THEN address + ins.imm
     ELSE from + ((PointsTo(ins, address) - from) % FourGigabytes)

Bug_HereOfLast == Base + Len(copied) - 1
here == Base + Len(copied)          \* *inprxp
current_idx == Len(copied) + 1
is_in_fixing_range(address) == address >= Base /\ address < Base + Count
get_ref_ins_index(address) == address - Base + 1

\* The offset as the immediate field of an operation.
Bug_Field19(offset, op) == offset % 524288
Bug_FieldSigned(offset, op) == offset
Field(offset, op) == offset % Span(op)

\* Words needed before a word that is to lie on a multiple of n.
Bug_Padding(address, n) == 0
Padding(address, n) == (n - (address % n)) % n

\* The reference would go to the alias the trampoline is written through.
Bug_StartWritten(ins, start, at, long, target) ==
  [ins |-> ins, from |-> next, start |-> Rw + (start - Rx), at |-> at,
   long |-> long, target |-> target, imm |-> Field(target - at, ins.op),
   bits |-> ins.bits, rd |-> ins.rd]

\* What is emitted for an instruction.  start: dat[current_idx], where a
\* reference to it goes; at: the word with the immediate field; long: the
\* target's address, or a literal's value, is loaded from the trampoline.
Record(ins, start, at, long, target) ==
  [ins |-> ins, from |-> next, start |-> start, at |-> at, long |-> long,
   target |-> target, imm |-> Field(target - at, ins.op),
   bits |-> ins.bits, rd |-> ins.rd]

\* process_fix_map: the references to the last instruction of cs.
Bug_FixedFromEnd(cs, k) == Field(cs[Len(cs)].start - (cs[k].at + 1), cs[k].ins.op)
FixedField(cs, k) == Field(cs[Len(cs)].start - cs[k].at, cs[k].ins.op)
process_fix_map(cs) ==
  [k \in DOMAIN cs |->
     IF <<k, Len(cs)>> \in pending /\ k # Len(cs)
     THEN [cs[k] EXCEPT !.imm = FixedField(cs, k)] ELSE cs[k]]

\* The record is written; the next word goes to end.
Emit(record, end) ==
  /\ copied' = process_fix_map(Append(copied, record))
  /\ next' = end
  /\ UNCHANGED back

\* A near reference: outside, to a copy made before or now, or to one to come.
EmitNear(ins, target) ==
  LET ref == get_ref_ins_index(target)
      Start(k) == IF k = current_idx THEN next ELSE copied[k].start
  IN \/ /\ ~is_in_fixing_range(target)
        /\ Emit(Record(ins, next, next, FALSE, target), next + 1)
        /\ UNCHANGED pending
     \/ /\ is_in_fixing_range(target) /\ ref <= current_idx
        /\ Emit(Record(ins, next, next, FALSE, Start(ref)), next + 1)
        /\ UNCHANGED pending
     \/ /\ is_in_fixing_range(target) /\ ref > current_idx
        /\ pending' = pending \cup {<<current_idx, ref>>}    \* insert_fix_map
        /\ Emit(Record(ins, next, next, FALSE, next), next + 1)

-----------------------------------------------------------------------------
(***************************************************************************)
(* B and BL.  Far: LDR X17; BR X17; address, and for BL an ADR X30 before  *)
(* the BR, each with the address on 8 bytes.                               *)
(***************************************************************************)
FixBranchImm(ins) ==
  LET target == absolute_addr(ins, here)
      far == /\ ~is_in_fixing_range(target)
             /\ Abs(target - next) >= Span(ins.op) \div 2 - 1
      words == IF ins.op = "b" THEN 2 ELSE 3
      at == next + Padding(next + words, 2)
  IN
  /\ ins.op \in Branches
  /\ \/ /\ far
        /\ Emit(Record(ins, at, at, TRUE, target), at + words + 2)
        /\ UNCHANGED pending
     \/ ~far /\ EmitNear(ins, target)

(***************************************************************************)
(* B.C, CBZ and TBZ.  Far: the branch over a B, then LDR X17; BR X17;      *)
(* address.  dat is left at the NOP that aligns it.                        *)
(***************************************************************************)
FixCondCompTestBranch(ins) ==
  LET target == absolute_addr(ins, here)
      far == /\ ~is_in_fixing_range(target)
             /\ Abs(target - next) >= Span(ins.op) \div 2 - 1
      at == next + Padding(next + 4, 2)
  IN
  /\ ins.op \in Conds
  /\ \/ /\ far
        /\ Emit(Record(ins, next, at, TRUE, target), at + 6)
        /\ UNCHANGED pending
     \/ ~far /\ EmitNear(ins, target)

(***************************************************************************)
(* LDR, LDR of a vector register and LDRSW.  Far, or inside the copied     *)
(* instructions: the literal is copied too.  Near: the offset is masked    *)
(* with the operation's mask, which leaves the bits in Unmasked to it.     *)
(***************************************************************************)
Bug_LiteralBytes(ins) == IF 31 \in ins.bits THEN 16 ELSE 4

LiteralWords(ins) ==
  IF ins.op = "ldrsw" \/ 30 \in ins.bits THEN 2
  ELSE IF ins.op = "ldrv" /\ 31 \in ins.bits THEN 4 ELSE 1
Unmasked(op) == CASE op = "ldr" -> {30} [] op = "ldrv" -> {30, 31} [] OTHER -> {}

FixLoadLit(ins) ==
  LET target == absolute_addr(ins, here)
      size == LiteralWords(ins)
      far == \/ is_in_fixing_range(target)
             \/ Abs(target - next) + size - 1 >= Span(ins.op) \div 2 - 1
      atFar == next + Padding(next + 2, size)
      atNear == next + ((target - next) % size)
      near == Record(ins, atNear, atNear, FALSE, target)
  IN
  /\ ins.op \in Loads
  /\ \/ far /\ Emit(Record(ins, atFar, atFar, TRUE, target), atFar + 2 + size)
     \/ /\ ~far
        /\ Emit([near EXCEPT !.bits = IF target < atNear
                                      THEN ins.bits \cup Unmasked(ins.op)
                                      ELSE ins.bits], atNear + 1)
  /\ UNCHANGED pending

\* A prefetch is dropped.
FixPrefetch(ins) ==
  /\ ins.op = "prfm"
  /\ Emit(Record(ins, next, next, FALSE, next), next)
  /\ UNCHANGED pending

(***************************************************************************)
(* ADR: the byte offset, shifted by 3, reaches down into the register's    *)
(* field.  ADRP: dat is first set to the alias the trampoline is written   *)
(* through, and only corrected when a NOP is needed.                       *)
(***************************************************************************)
LowBytes(ins) == (IF 0 \in ins.low THEN 1 ELSE 0) + (IF 1 \in ins.low THEN 2 ELSE 0)
ByteReach == 1048575                \* max_val >> 1

FixAdr(ins) ==
  LET target == absolute_addr(ins, here)
      inside == is_in_fixing_range(target)
      words == target - next
      far == /\ ~inside
             /\ ~(/\ Abs(words) <= Span("adr") \div 2
                  /\ Abs(4 * words + LowBytes(ins)) < ByteReach)
      at == next + Padding(next + 2, 2)
      near == Record(ins, next, next, FALSE, target)
  IN
  /\ ins.op = "adr"
  /\ \/ /\ far
        /\ Emit(Record(ins, at, at, TRUE, target), at + 4)
        /\ UNCHANGED pending
     \/ inside /\ EmitNear(ins, target)
     \/ /\ ~far /\ ~inside
        /\ Emit([near EXCEPT !.rd = ins.rd \cup {b + 3 : b \in ins.low}], next + 1)
        /\ UNCHANGED pending

FixAdrp(ins) ==
  LET target == absolute_addr(ins, here)
      written == Rw + (next - Rx)      \* *outprw
      at == next + Padding(next + 2, 2)
  IN
  /\ ins.op = "adrp"
  /\ \/ /\ is_in_fixing_range(target)
        /\ Emit([Record(ins, written, next, FALSE, target) EXCEPT !.imm = ins.imm],
                next + 1)
     \/ /\ ~is_in_fixing_range(target)
        /\ Emit(Record(ins, IF at = next THEN written ELSE at, at, TRUE, target),
                at + 4)
  /\ UNCHANGED pending

\* Anything else is copied as it is.
Copy(ins) ==
  /\ ins.op = "plain"
  /\ Emit(Record(ins, next, next, FALSE, next), next + 1)
  /\ UNCHANGED pending

\* All are copied: back to the first instruction that was not, by B or, if that
\* is out of its reach, by LDR X17; BR X17; address.
backFar == Abs(here - next) >= Span("b") \div 2 - 1
backAt == IF backFar THEN next + Padding(next + 2, 2) ELSE next

JumpBack ==
  /\ Len(copied) = Count /\ ~done
  /\ back' = [at |-> backAt, long |-> backFar, target |-> here,
              imm |-> Field(here - backAt, "b")]
  /\ next' = IF backFar THEN backAt + 4 ELSE backAt + 1
  /\ UNCHANGED <<copied, pending>>

FixNext(ins) ==
  /\ Len(copied) < Count
  /\ \/ FixBranchImm(ins) \/ FixCondCompTestBranch(ins) \/ FixLoadLit(ins)
     \/ FixPrefetch(ins) \/ FixAdr(ins) \/ FixAdrp(ins) \/ Copy(ins)

Next == (\E ins \in Instrs : FixNext(ins)) \/ JumpBack

Spec == Init /\ [][Next]_vars

-----------------------------------------------------------------------------
Emitted == [ins : Instrs, from : Nat, start : Nat, at : Nat, long : BOOLEAN,
            target : Int, imm : 0 .. Span("b") - 1,
            bits : SUBSET {30, 31}, rd : SUBSET {3, 4}]

\* Every value keeps its type, above all the offsets, which are negative as often
\* as not, in their unsigned fields.
TypeOK ==
  /\ copied \in Seq(Emitted) /\ Len(copied) <= Count
  /\ next \in Nat
  /\ pending \subseteq (1 .. Count) \X (1 .. Count)
  /\ back \in [at : Nat \cup {-1}, long : BOOLEAN, target : Int,
               imm : 0 .. Span("b") - 1]

\* Where what was emitted for instruction k points.
NowPointsTo(k) ==
  IF copied[k].long THEN copied[k].target
  ELSE PointsTo([copied[k].ins EXCEPT !.imm = copied[k].imm], copied[k].at)

\* Where the instruction pointed, and whether it referred to one that is copied,
\* and so is to point to the copy of that, number Ref(k).
Target(k) == PointsTo(copied[k].ins, Base + k - 1)
Inside(k) ==
  is_in_fixing_range(Target(k)) /\ ~(copied[k].long \/ copied[k].ins.op = "adrp")
Ref(k) == get_ref_ins_index(Target(k))

\* Where a copy runs from, in the alias it is run in: its first word, or past the
\* NOPs that align it.
Entries(j) == copied[j].from .. copied[j].at

Kept(k) ==
  IF Inside(k) THEN NowPointsTo(k) \in Entries(Ref(k)) ELSE NowPointsTo(k) = Target(k)

\* The copy of an ADRP that no NOP aligns: what refers to it is led to the alias
\* the trampoline is written through (hook_impl.cpp:424), which does not run, or
\* anywhere, if the field is too narrow for that alias.
NotedWritten(r) == r.ins.op = "adrp" /\ r.from = r.at

\* A copied instruction branches to, loads from or computes the address the
\* original did, also through forward, backward and own references and wherever
\* alignment put the copies; but for a reference to such an ADRP.
TargetsKept ==
  done =>
    \A k \in 1 .. Count :
      copied[k].ins.op \in PcRelative =>
        Kept(k) \/ (Inside(k) /\ NotedWritten(copied[Ref(k)]))

\* The address noted for a reference to a copied instruction runs that copy; but
\* for such an ADRP.
StartsAtCopy ==
  \A k \in 1 .. Len(copied) : NotedWritten(copied[k]) \/ copied[k].start \in Entries(k)

\* The trampoline goes on behind the instructions that were copied.
ComesBack ==
  done => IF back.long THEN back.target = Base + Count
          ELSE back.at + SignExtended(back.imm, "b") = Base + Count

\* Whatever is copied fits in a slot of the pool, of 10 words per instruction.
FitsSlot == next - Rx <= TrampolineSize

\* A 64-bit address that is loaded lies on 8 bytes.
AddressAligned(r) ==
  r.long /\ r.ins.op \notin Loads =>
    (r.at + (IF r.ins.op = "bl" THEN 3 ELSE IF r.ins.op \in Conds THEN 4 ELSE 2))
      % 2 = 0
AddressesAligned == \A k \in 1 .. Len(copied) : AddressAligned(copied[k])

-----------------------------------------------------------------------------
\* What the comments of hook_impl.cpp say and the code does not do.

\* All fields are named PC-relative (ADDR_PCREL19) and that of B is commented as
\* sign-extended: a conditional branch, a literal or an address that lies before
\* its instruction is still reached from the copy.
BackwardKept ==
  done => \A k \in 1 .. Count : copied[k].ins.op \in PcRelative \ Branches => Kept(k)
=============================================================================
