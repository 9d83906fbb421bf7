------------------------ MODULE FixInstructions_proofs ------------------------
(***************************************************************************)
(* Proofs about FixInstructions, for every function, every instruction and *)
(* every place of the trampoline.                                          *)
(*                                                                         *)
(* The slot of the trampoline holds 50 words, and nothing checks the room  *)
(* while it is written.  That it is enough follows from an invariant: no   *)
(* instruction takes more than 9 words (a 16-byte literal behind three     *)
(* NOPs), so k of them end at most 9k words behind the start, and the jump *)
(* back takes at most 5 more.                                              *)
(*                                                                         *)
(* That copies point where the originals did follows from another: a copy  *)
(* already does, or it waits for the one it is to point to (Arr), and all  *)
(* lie near enough for the narrowest field.                                *)
(***************************************************************************)
EXTENDS FixInstructions, TLAPS

\* What an instruction's copy may be: up to 9 words, with an address that is
\* loaded on 8 bytes.
Sound(r, end) ==
  /\ r \in Emitted
  /\ end \in Nat
  /\ next <= end /\ end <= next + 9
  /\ AddressAligned(r)

\* The inductive invariant.
Room ==
  /\ Rx <= next
  /\ ~done => next <= Rx + 9 * Len(copied)
  /\ done => next <= Rx + TrampolineSize

AllCopied == done => Len(copied) = Count

IInv == TypeOK /\ Room /\ AllCopied /\ AddressesAligned /\ ComesBack

-----------------------------------------------------------------------------
LEMMA SpanBounds ==
  ASSUME NEW op
  PROVE  Span(op) \in Nat \ {0} /\ Span(op) <= Span("b")
BY SMT DEF Span, Branches, Loads

LEMMA CountBounds == Count \in 1 .. 5
BY SMT DEF Count

LEMMA FieldFits ==
  ASSUME NEW offset \in Int, NEW op
  PROVE  Field(offset, op) \in 0 .. Span("b") - 1
<1> DEFINE n == Span(op)
           m == Span("b")
<1>1. n \in Nat \ {0} /\ m \in Nat \ {0} /\ n <= m
  BY SpanBounds
<1>2. offset % n \in 0 .. n - 1
  <2> HIDE DEF n
  <2> QED BY <1>1
<1>3. offset % n \in 0 .. m - 1
  <2> HIDE DEF n, m
  <2> QED BY <1>1, <1>2
<1> QED BY <1>3 DEF Field

LEMMA InstrTypes ==
  ASSUME NEW ins \in Instrs
  PROVE  /\ ins.op \in Ops
         /\ ins.imm \in Nat /\ ins.imm < Span(ins.op)
         /\ ins.bits \in SUBSET {30, 31}
         /\ ins.rd \in SUBSET {3, 4}
         /\ ins.low \in SUBSET {0, 1}
BY InstrsAssumption DEF Instr

LEMMA LiteralWordsBounds ==
  ASSUME NEW ins \in Instrs
  PROVE  LiteralWords(ins) \in {1, 2, 4}
BY DEF LiteralWords

LEMMA PointsToInt ==
  ASSUME NEW ins \in Instrs, NEW address \in Int
  PROVE  PointsTo(ins, address) \in Int
<1>1. ins.imm \in Int /\ Span(ins.op) \in Int
  BY InstrTypes, SpanBounds
<1>2. SignExtended(ins.imm, ins.op) \in Int
  BY <1>1 DEF SignExtended
<1>3. Page(address) \in Int
  BY DEF Page, PageWords
<1> QED BY <1>2, <1>3 DEF PointsTo, PageWords

LEMMA absolute_addrInt ==
  ASSUME NEW ins \in Instrs, NEW address \in Int
  PROVE  absolute_addr(ins, address) \in Int
<1>1. PointsTo(ins, address) \in Int /\ ins.imm \in Int
  BY PointsToInt, InstrTypes
<1>2. Page(address) \in Int
  BY DEF Page, PageWords
<1> DEFINE n == FourGigabytes
<1>3. n \in Nat \ {0}
  BY SMT DEF FourGigabytes
<1>4. \A d \in Int : d % n \in Int
  <2> HIDE DEF n
  <2> QED BY <1>3
<1> QED BY <1>1, <1>2, <1>4 DEF absolute_addr

LEMMA RecordTyped ==
  ASSUME next \in Nat, NEW ins \in Instrs, NEW start \in Nat, NEW at \in Nat,
         NEW long \in BOOLEAN, NEW target \in Int
  PROVE  Record(ins, start, at, long, target) \in Emitted
<1>1. Field(target - at, ins.op) \in 0 .. Span("b") - 1
  BY FieldFits
<1> QED BY <1>1, InstrTypes DEF Record, Emitted

\* Another value in its immediate field keeps a record's type.
LEMMA FieldReplaced ==
  ASSUME NEW r \in Emitted, NEW v \in 0 .. Span("b") - 1
  PROVE  /\ [r EXCEPT !.imm = v] \in Emitted
         /\ [r EXCEPT !.imm = v].ins = r.ins
         /\ [r EXCEPT !.imm = v].at = r.at
         /\ [r EXCEPT !.imm = v].long = r.long
         /\ [r EXCEPT !.imm = v].from = r.from
         /\ [r EXCEPT !.imm = v].start = r.start
<1> DEFINE top == Span("b") - 1
<1>1. v \in 0 .. top
  OBVIOUS
<1> QED BY <1>1 DEF Emitted

LEMMA PaddingBounds ==
  ASSUME NEW address \in Nat, NEW n \in {1, 2, 4}
  PROVE  Padding(address, n) \in 0 .. n - 1 /\ (address + Padding(address, n)) % n = 0
<1>1. CASE n = 1 BY <1>1 DEF Padding
<1>2. CASE n = 2 BY <1>2 DEF Padding
<1>3. CASE n = 4 BY <1>3 DEF Padding
<1> QED BY <1>1, <1>2, <1>3

-----------------------------------------------------------------------------
\* What emitting a record does: one more copy, the others but for their
\* immediate fields as they were.
LEMMA Emitting ==
  ASSUME TypeOK, NEW r \in Emitted, NEW end, Emit(r, end)
  PROVE  /\ copied' \in Seq(Emitted)
         /\ Len(copied') = Len(copied) + 1
         /\ copied'[Len(copied) + 1] = r
         /\ \A k \in 1 .. Len(copied) :
              /\ copied'[k].ins = copied[k].ins
              /\ copied'[k].at = copied[k].at
              /\ copied'[k].long = copied[k].long
              /\ copied'[k].from = copied[k].from
              /\ copied'[k].start = copied[k].start
         /\ next' = end
         /\ back' = back
<1> DEFINE cs == Append(copied, r)
           N == Len(copied) + 1
<1>1. /\ cs \in Seq(Emitted) /\ Len(cs) = N /\ DOMAIN cs = 1 .. N
      /\ cs[N] = r /\ N \in Nat
      /\ \A k \in 1 .. Len(copied) : cs[k] = copied[k] /\ k # N
  BY DEF TypeOK
<1>2. \A k \in 1 .. N : cs[k] \in Emitted
  BY <1>1
<1>3. /\ copied' = process_fix_map(cs)
      /\ next' = end /\ back' = back
  BY DEF Emit
<1> HIDE DEF cs, N
<1>4. copied' = [k \in 1 .. N |->
                   IF <<k, N>> \in pending /\ k # N
                   THEN [cs[k] EXCEPT !.imm = FixedField(cs, k)] ELSE cs[k]]
  BY <1>1, <1>3 DEF process_fix_map
<1>5. \A k \in 1 .. N : FixedField(cs, k) \in 0 .. Span("b") - 1
  <2> SUFFICES ASSUME NEW k \in 1 .. N
               PROVE  FixedField(cs, k) \in 0 .. Span("b") - 1
    OBVIOUS
  <2>1. cs[N].start - cs[k].at \in Int
    <3>1. N \in 1 .. N
      BY <1>1
    <3>2. cs[N].start \in Nat
      BY <1>2, <3>1 DEF Emitted
    <3>3. cs[k].at \in Nat
      BY <1>2 DEF Emitted
    <3> QED
      BY <3>2, <3>3
  <2> QED BY <2>1, <1>1, FieldFits DEF FixedField
<1>6. ASSUME NEW k \in 1 .. N, NEW v \in 0 .. Span("b") - 1
      PROVE  /\ [cs[k] EXCEPT !.imm = v] \in Emitted
             /\ [cs[k] EXCEPT !.imm = v].ins = cs[k].ins
             /\ [cs[k] EXCEPT !.imm = v].at = cs[k].at
             /\ [cs[k] EXCEPT !.imm = v].long = cs[k].long
             /\ [cs[k] EXCEPT !.imm = v].from = cs[k].from
             /\ [cs[k] EXCEPT !.imm = v].start = cs[k].start
  BY <1>2, FieldReplaced
<1>7. \A k \in 1 .. N : /\ copied'[k] \in Emitted
                        /\ copied'[k].ins = cs[k].ins
                        /\ copied'[k].at = cs[k].at
                        /\ copied'[k].long = cs[k].long
                        /\ copied'[k].from = cs[k].from
                        /\ copied'[k].start = cs[k].start
  <2> SUFFICES ASSUME NEW k \in 1 .. N
               PROVE  /\ copied'[k] \in Emitted
                      /\ copied'[k].ins = cs[k].ins
                      /\ copied'[k].at = cs[k].at
                      /\ copied'[k].long = cs[k].long
                      /\ copied'[k].from = cs[k].from
                      /\ copied'[k].start = cs[k].start
    OBVIOUS
  <2>1. \/ copied'[k] = cs[k]
        \/ copied'[k] = [cs[k] EXCEPT !.imm = FixedField(cs, k)]
    BY <1>4
  <2>2. CASE copied'[k] = cs[k]
    BY <2>2, <1>2
  <2>3. CASE copied'[k] = [cs[k] EXCEPT !.imm = FixedField(cs, k)]
    BY <2>3, <1>5, <1>6
  <2> QED BY <2>1, <2>2, <2>3
<1>8. copied' \in [1 .. N -> Emitted]
  BY <1>4, <1>7
<1>9. copied' \in Seq(Emitted) /\ Len(copied') = N
  BY <1>1, <1>8
<1>10. copied'[N] = r
  BY <1>1, <1>4
<1> QED BY <1>1, <1>3, <1>7, <1>9, <1>10 DEF N

\* What a step that emits such a record does to the invariant.
LEMMA SoundStep ==
  ASSUME IInv, Len(copied) < Count, NEW r, NEW end, Sound(r, end), Emit(r, end),
         pending' \subseteq (1 .. Count) \X (1 .. Count)
  PROVE  IInv'
<1>1. /\ copied' \in Seq(Emitted) /\ Len(copied') = Len(copied) + 1
      /\ copied'[Len(copied) + 1] = r
      /\ \A k \in 1 .. Len(copied) : /\ copied'[k].ins = copied[k].ins
                                     /\ copied'[k].at = copied[k].at
                                     /\ copied'[k].long = copied[k].long
      /\ next' = end /\ back' = back
  BY Emitting DEF IInv, Sound
<1>2. Len(copied) \in Nat /\ Count \in 1 .. 5 /\ Rx \in Nat /\ next \in Nat
  BY CountBounds, PlaceAssumption DEF IInv, TypeOK
<1>3. ~done /\ ~done'
  BY <1>1, <1>2 DEF IInv, AllCopied, done
<1>4. TypeOK'
  BY <1>1, <1>2 DEF IInv, TypeOK, Sound
<1>5. Room'
  <2>1. Rx <= next /\ next <= Rx + 9 * Len(copied) /\ next <= end /\ end <= next + 9
        /\ end \in Nat
    BY <1>3 DEF IInv, Room, Sound
  <2>2. Rx <= next' /\ next' <= Rx + 9 * Len(copied')
    BY <1>1, <1>2, <2>1
  <2> QED BY <1>3, <2>2 DEF Room
<1>6. AddressesAligned'
  <2> SUFFICES ASSUME NEW k \in 1 .. Len(copied')
               PROVE  AddressAligned(copied'[k])
    BY DEF AddressesAligned
  <2>1. CASE k = Len(copied) + 1
    BY <2>1, <1>1 DEF Sound
  <2>2. CASE k # Len(copied) + 1
    <3>1. k \in 1 .. Len(copied)
      BY <2>2, <1>1, <1>2
    <3>2. AddressAligned(copied[k])
      BY <3>1 DEF IInv, AddressesAligned
    <3> QED BY <1>1, <3>1, <3>2 DEF AddressAligned
  <2> QED BY <2>1, <2>2
<1>7. AllCopied' /\ ComesBack'
  BY <1>3 DEF AllCopied, ComesBack
<1> QED BY <1>4, <1>5, <1>6, <1>7 DEF IInv

-----------------------------------------------------------------------------
\* A copy that loads no address is sound if it is short enough.
LEMMA ShortSound ==
  ASSUME IInv, NEW ins \in Instrs, NEW start \in Nat, NEW at \in Nat,
         NEW target \in Int, NEW end \in Nat, next <= end, end <= next + 9
  PROVE  Sound(Record(ins, start, at, FALSE, target), end)
<1>1. Record(ins, start, at, FALSE, target) \in Emitted
  BY RecordTyped DEF IInv, TypeOK
<1> QED BY <1>1 DEF Sound, AddressAligned, Record

\* One that does has its address on 8 bytes besides, or loads a literal.
LEMMA LongSound ==
  ASSUME IInv, NEW ins \in Instrs, NEW start \in Nat, NEW at \in Nat,
         NEW target \in Int, NEW end \in Nat, next <= end, end <= next + 9,
         \/ ins.op \in Loads
         \/ ins.op = "bl" /\ (at + 3) % 2 = 0
         \/ ins.op \in Conds /\ (at + 4) % 2 = 0
         \/ ins.op \in {"b", "adr", "adrp"} /\ (at + 2) % 2 = 0
  PROVE  Sound(Record(ins, start, at, TRUE, target), end)
<1>1. Record(ins, start, at, TRUE, target) \in Emitted
  BY RecordTyped DEF IInv, TypeOK
<1> QED BY <1>1 DEF Sound, AddressAligned, Record, Conds

\* Reading where an instruction points, and where the next one goes.
LEMMA Places ==
  ASSUME IInv, NEW ins \in Instrs
  PROVE  /\ here \in Nat /\ next \in Nat /\ Rw + (next - Rx) \in Nat
         /\ absolute_addr(ins, here) \in Int
<1>1. /\ here \in Nat /\ next \in Nat /\ Rw + (next - Rx) \in Nat
  BY PlaceAssumption DEF IInv, TypeOK, Room, here
<1> QED BY <1>1, absolute_addrInt

\* Words put in front make the w-th word after them lie on 8 bytes.
LEMMA Padded ==
  ASSUME NEW address \in Nat, NEW w \in Nat, NEW at,
         at = address + Padding(address + w, 2)
  PROVE  at \in Nat /\ address <= at /\ at <= address + 1 /\ (at + w) % 2 = 0
<1>1. (address + w) % 2 \in 0 .. 1
  OBVIOUS
<1>2. CASE (address + w) % 2 = 0
  <2>1. at = address
    BY <1>2 DEF Padding
  <2> QED BY <1>2, <2>1
<1>3. CASE (address + w) % 2 = 1
  <2>1. at = address + 1
    BY <1>3 DEF Padding
  <2> QED BY <1>3, <2>1
<1> QED BY <1>1, <1>2, <1>3

LEMMA NearStep ==
  ASSUME IInv, Len(copied) < Count, NEW ins \in Instrs, NEW target \in Int,
         EmitNear(ins, target)
  PROVE  IInv'
<1> DEFINE ref == get_ref_ins_index(target)
           Start(k) == IF k = current_idx THEN next ELSE copied[k].start
<1>1. /\ next \in Nat /\ Base \in Nat /\ Len(copied) \in Nat /\ Count \in 1 .. 5
      /\ pending \subseteq (1 .. Count) \X (1 .. Count)
  BY PlaceAssumption, CountBounds DEF IInv, TypeOK
<1>2. \A t \in Int : Sound(Record(ins, next, next, FALSE, t), next + 1)
  <2>1. next + 1 \in Nat /\ next <= next + 1 /\ next + 1 <= next + 9
    BY <1>1
  <2> QED BY <1>1, <2>1, ShortSound
<1>3. CASE /\ ~is_in_fixing_range(target)
           /\ Emit(Record(ins, next, next, FALSE, target), next + 1)
           /\ UNCHANGED pending
  BY <1>1, <1>2, <1>3, SoundStep
<1>4. CASE /\ is_in_fixing_range(target) /\ ref <= current_idx
           /\ Emit(Record(ins, next, next, FALSE, Start(ref)), next + 1)
           /\ UNCHANGED pending
  <2>1. ref \in 1 .. Len(copied) + 1
    BY <1>1, <1>4 DEF is_in_fixing_range, get_ref_ins_index, current_idx
  <2>2. \A k \in 1 .. Len(copied) : copied[k].start \in Nat
    <3>1. \A k \in 1 .. Len(copied) : copied[k] \in Emitted
      BY DEF IInv, TypeOK
    <3> QED BY <3>1 DEF Emitted
  <2>3. Start(ref) \in Int
    BY <1>1, <2>1, <2>2 DEF current_idx
  <2> HIDE DEF Start
  <2> QED BY <1>1, <1>2, <1>4, <2>3, SoundStep
<1>5. CASE /\ is_in_fixing_range(target) /\ ref > current_idx
           /\ pending' = pending \cup {<<current_idx, ref>>}
           /\ Emit(Record(ins, next, next, FALSE, next), next + 1)
  <2>1. ref \in 1 .. Count /\ current_idx \in 1 .. Count
    BY <1>1, <1>5 DEF is_in_fixing_range, get_ref_ins_index, current_idx
  <2>2. pending' \subseteq (1 .. Count) \X (1 .. Count)
    BY <1>1, <1>5, <2>1
  <2>3. Sound(Record(ins, next, next, FALSE, next), next + 1)
    <3>1. next \in Int
      BY <1>1
    <3> QED BY <1>2, <3>1, Zenon
  <2> QED BY <1>5, <2>2, <2>3, SoundStep
<1> QED BY <1>3, <1>4, <1>5 DEF EmitNear

-----------------------------------------------------------------------------
LEMMA FixBranchImmStep ==
  ASSUME IInv, Len(copied) < Count, NEW ins \in Instrs, FixBranchImm(ins)
  PROVE  IInv'
<1> DEFINE target == absolute_addr(ins, here)
           words == IF ins.op = "b" THEN 2 ELSE 3
           at == next + Padding(next + words, 2)
<1>1. next \in Nat /\ target \in Int
  BY Places
<1>2. words \in {2, 3} /\ at \in Nat /\ next <= at /\ at <= next + 1
      /\ (at + words) % 2 = 0
  BY <1>1, Padded
<1>3. \/ /\ Emit(Record(ins, at, at, TRUE, target), at + words + 2)
         /\ UNCHANGED pending
      \/ EmitNear(ins, target)
  BY DEF FixBranchImm
<1>4. (ins.op = "b" /\ words = 2) \/ (ins.op = "bl" /\ words = 3)
  BY DEF FixBranchImm, Branches
<1> HIDE DEF target, words, at
<1>5. Sound(Record(ins, at, at, TRUE, target), at + words + 2)
  <2>1. at + words + 2 \in Nat /\ next <= at + words + 2 /\ at + words + 2 <= next + 9
    BY <1>1, <1>2
  <2> QED BY <1>1, <1>2, <1>4, <2>1, LongSound
<1> QED BY <1>1, <1>3, <1>5, NearStep, SoundStep DEF IInv, TypeOK

LEMMA FixCondCompTestBranchStep ==
  ASSUME IInv, Len(copied) < Count, NEW ins \in Instrs, FixCondCompTestBranch(ins)
  PROVE  IInv'
<1> DEFINE target == absolute_addr(ins, here)
           at == next + Padding(next + 4, 2)
<1>1. next \in Nat /\ target \in Int
  BY Places
<1>2. at \in Nat /\ next <= at /\ at <= next + 1 /\ (at + 4) % 2 = 0
  BY <1>1, Padded
<1>3. /\ ins.op \in Conds
      /\ \/ /\ Emit(Record(ins, next, at, TRUE, target), at + 6)
            /\ UNCHANGED pending
         \/ EmitNear(ins, target)
  BY DEF FixCondCompTestBranch
<1> HIDE DEF target, at
<1>4. Sound(Record(ins, next, at, TRUE, target), at + 6)
  <2>1. at + 6 \in Nat /\ next <= at + 6 /\ at + 6 <= next + 9
    BY <1>1, <1>2
  <2> QED BY <1>1, <1>2, <1>3, <2>1, LongSound
<1> QED BY <1>1, <1>3, <1>4, NearStep, SoundStep DEF IInv, TypeOK

LEMMA FixLoadLitStep ==
  ASSUME IInv, Len(copied) < Count, NEW ins \in Instrs, FixLoadLit(ins)
  PROVE  IInv'
<1> DEFINE target == absolute_addr(ins, here)
           size == LiteralWords(ins)
           atFar == next + Padding(next + 2, size)
           atNear == next + ((target - next) % size)
           near == Record(ins, atNear, atNear, FALSE, target)
           kept == [near EXCEPT !.bits = IF target < atNear
                                         THEN ins.bits \cup Unmasked(ins.op)
                                         ELSE ins.bits]
<1>1. next \in Nat /\ target \in Int
  BY Places
<1>2. size \in {1, 2, 4}
  BY LiteralWordsBounds
<1>3. atFar \in Nat /\ next <= atFar /\ atFar <= next + size - 1
  <2>1. Padding(next + 2, size) \in 0 .. size - 1
    <3>1. next + 2 \in Nat
      BY <1>1
    <3> QED BY <1>2, <3>1, PaddingBounds
  <2> QED BY <1>1, <1>2, <2>1
<1>4. atNear \in Nat /\ next <= atNear /\ atNear <= next + 3
  <2>1. (target - next) % size \in 0 .. 3
    <3> HIDE DEF target, size
    <3>1. CASE size = 1 BY <1>1, <3>1
    <3>2. CASE size = 2 BY <1>1, <3>2
    <3>3. CASE size = 4 BY <1>1, <3>3
    <3> QED BY <1>2, <3>1, <3>2, <3>3
  <2> HIDE DEF target, size
  <2> QED BY <1>1, <2>1
<1>5. /\ ins.op \in Loads
      /\ \/ Emit(Record(ins, atFar, atFar, TRUE, target), atFar + 2 + size)
         \/ Emit(kept, atNear + 1)
      /\ UNCHANGED pending
  BY DEF FixLoadLit
<1>6. Sound(Record(ins, atFar, atFar, TRUE, target), atFar + 2 + size)
  <2> HIDE DEF target, size, atFar
  <2>1. atFar + 2 + size \in Nat /\ next <= atFar + 2 + size /\ atFar + 2 + size <= next + 9
    BY <1>1, <1>2, <1>3
  <2> QED BY <1>1, <1>3, <1>5, <2>1, LongSound
<1>7. Sound(kept, atNear + 1)
  <2>1. Sound(near, atNear + 1)
    <3> HIDE DEF target, size, atNear
    <3>1. atNear + 1 \in Nat /\ next <= atNear + 1 /\ atNear + 1 <= next + 9
      BY <1>1, <1>4
    <3> QED BY <1>1, <1>4, <3>1, ShortSound
  <2>2. (IF target < atNear THEN ins.bits \cup Unmasked(ins.op) ELSE ins.bits)
          \in SUBSET {30, 31}
    <3>1. Unmasked(ins.op) \in SUBSET {30, 31}
      BY <1>5 DEF Unmasked, Loads
    <3> QED BY <3>1, InstrTypes
  <2>3. near.long = FALSE
    BY DEF Record
  <2> HIDE DEF target, atNear, near
  <2>4. near \in Emitted
    BY <2>1 DEF Sound
  <2>5. kept \in Emitted /\ kept.long = FALSE
    <3> DEFINE imms == 0 .. Span("b") - 1
    <3>1. Emitted = [ins : Instrs, from : Nat, start : Nat, at : Nat,
                     long : BOOLEAN, target : Int, imm : imms,
                     bits : SUBSET {30, 31}, rd : SUBSET {3, 4}]
      BY DEF Emitted
    <3> HIDE DEF imms
    <3> QED BY <2>2, <2>3, <2>4, <3>1
  <2> QED BY <2>1, <2>5 DEF Sound, AddressAligned
<1> HIDE DEF target, size, atFar, atNear, near, kept
<1>8. pending' \subseteq (1 .. Count) \X (1 .. Count)
  BY <1>5 DEF IInv, TypeOK
<1> QED BY <1>5, <1>6, <1>7, <1>8, SoundStep

\* A prefetch, and an instruction without a PC-relative field.
LEMMA PlainStep ==
  ASSUME IInv, Len(copied) < Count, NEW ins \in Instrs,
         FixPrefetch(ins) \/ Copy(ins)
  PROVE  IInv'
<1> DEFINE r == Record(ins, next, next, FALSE, next)
<1>1. next \in Nat
  BY DEF IInv, TypeOK
<1>2. next \in Int /\ next + 1 \in Nat /\ next <= next
      /\ next <= next + 1 /\ next <= next + 9 /\ next + 1 <= next + 9
  BY <1>1
<1>3. Sound(r, next) /\ Sound(r, next + 1)
  BY <1>1, <1>2, ShortSound
<1>4. /\ Emit(r, next) \/ Emit(r, next + 1)
      /\ UNCHANGED pending
  BY DEF FixPrefetch, Copy
<1> HIDE DEF r
<1>5. pending' \subseteq (1 .. Count) \X (1 .. Count)
  BY <1>4 DEF IInv, TypeOK
<1> QED BY <1>3, <1>4, <1>5, SoundStep

LEMMA FixAdrStep ==
  ASSUME IInv, Len(copied) < Count, NEW ins \in Instrs, FixAdr(ins)
  PROVE  IInv'
<1> DEFINE target == absolute_addr(ins, here)
           at == next + Padding(next + 2, 2)
           near == Record(ins, next, next, FALSE, target)
           kept == [near EXCEPT !.rd = ins.rd \cup {b + 3 : b \in ins.low}]
<1>1. next \in Nat /\ target \in Int
  BY Places
<1>2. at \in Nat /\ next <= at /\ at <= next + 1 /\ (at + 2) % 2 = 0
  BY <1>1, Padded
<1>3. /\ ins.op = "adr"
      /\ \/ /\ Emit(Record(ins, at, at, TRUE, target), at + 4)
            /\ UNCHANGED pending
         \/ EmitNear(ins, target)
         \/ /\ Emit(kept, next + 1)
            /\ UNCHANGED pending
  BY DEF FixAdr
<1>4. Sound(Record(ins, at, at, TRUE, target), at + 4)
  <2> HIDE DEF target, at
  <2>1. at + 4 \in Nat /\ next <= at + 4 /\ at + 4 <= next + 9
    BY <1>1, <1>2
  <2> QED BY <1>1, <1>2, <1>3, <2>1, LongSound
<1>5. Sound(kept, next + 1)
  <2>1. Sound(near, next + 1)
    <3> HIDE DEF target
    <3>1. next + 1 \in Nat /\ next <= next + 1 /\ next + 1 <= next + 9
      BY <1>1
    <3> QED BY <1>1, <3>1, ShortSound
  <2>2. ins.rd \cup {b + 3 : b \in ins.low} \in SUBSET {3, 4}
    BY InstrTypes
  <2>3. near.long = FALSE
    BY DEF Record
  <2> HIDE DEF target, near
  <2>4. near \in Emitted
    BY <2>1 DEF Sound
  <2>5. kept \in Emitted /\ kept.long = FALSE
    <3> DEFINE imms == 0 .. Span("b") - 1
    <3>1. Emitted = [ins : Instrs, from : Nat, start : Nat, at : Nat,
                     long : BOOLEAN, target : Int, imm : imms,
                     bits : SUBSET {30, 31}, rd : SUBSET {3, 4}]
      BY DEF Emitted
    <3> HIDE DEF imms
    <3> QED BY <2>2, <2>3, <2>4, <3>1
  <2> QED BY <2>1, <2>5 DEF Sound, AddressAligned
<1> HIDE DEF target, at, near, kept
<1> QED BY <1>1, <1>3, <1>4, <1>5, NearStep, SoundStep DEF IInv, TypeOK

LEMMA FixAdrpStep ==
  ASSUME IInv, Len(copied) < Count, NEW ins \in Instrs, FixAdrp(ins)
  PROVE  IInv'
<1> DEFINE target == absolute_addr(ins, here)
           written == Rw + (next - Rx)
           at == next + Padding(next + 2, 2)
           from == IF at = next THEN written ELSE at
           near == Record(ins, written, next, FALSE, target)
           kept == [near EXCEPT !.imm = ins.imm]
<1>1. next \in Nat /\ target \in Int /\ written \in Nat
  BY Places
<1>2. at \in Nat /\ next <= at /\ at <= next + 1 /\ (at + 2) % 2 = 0
  BY <1>1, Padded
<1>3. /\ ins.op = "adrp"
      /\ \/ Emit(kept, next + 1)
         \/ Emit(Record(ins, from, at, TRUE, target), at + 4)
      /\ UNCHANGED pending
  BY DEF FixAdrp
<1>4. Sound(Record(ins, from, at, TRUE, target), at + 4)
  <2>1. from \in Nat
    BY <1>1, <1>2
  <2> HIDE DEF target, at, from
  <2>2. at + 4 \in Nat /\ next <= at + 4 /\ at + 4 <= next + 9
    BY <1>1, <1>2
  <2> QED BY <1>1, <1>2, <1>3, <2>1, <2>2, LongSound
<1>5. Sound(kept, next + 1)
  <2>1. Sound(near, next + 1)
    <3> HIDE DEF target, written
    <3>1. next + 1 \in Nat /\ next <= next + 1 /\ next + 1 <= next + 9
      BY <1>1
    <3> QED BY <1>1, <3>1, ShortSound
  <2>2. ins.imm \in 0 .. Span("b") - 1
    <3> DEFINE n == Span(ins.op)
               m == Span("b")
    <3>1. n \in Nat /\ m \in Nat /\ n <= m /\ ins.imm \in Nat /\ ins.imm < n
      BY SpanBounds, InstrTypes
    <3> HIDE DEF n, m
    <3>2. ins.imm \in 0 .. m - 1
      BY <3>1
    <3> QED BY <3>2 DEF m
  <2>3. near.long = FALSE
    BY DEF Record
  <2> HIDE DEF target, written, near
  <2>4. near \in Emitted
    BY <2>1 DEF Sound
  <2>5. kept \in Emitted /\ kept.long = FALSE
    BY <2>2, <2>3, <2>4, FieldReplaced
  <2> QED BY <2>1, <2>5 DEF Sound, AddressAligned
<1> HIDE DEF target, written, at, from, near, kept
<1>6. pending' \subseteq (1 .. Count) \X (1 .. Count)
  BY <1>3 DEF IInv, TypeOK
<1> QED BY <1>3, <1>4, <1>5, <1>6, SoundStep

-----------------------------------------------------------------------------
\* A short branch back keeps the sign of its offset, which is in reach.
LEMMA BranchKept ==
  ASSUME NEW d \in Int, Abs(d) < Span("b") \div 2 - 1
  PROVE  SignExtended(Field(d, "b"), "b") = d
<1>1. Span("b") = 67108864
  BY SMT DEF Span, Branches
<1>2. -33554431 < d /\ d < 33554431
  BY SMT, <1>1 DEF Abs
<1>3. CASE 0 <= d
  <2>1. d % 67108864 = d
    BY SMT, <1>2, <1>3
  <2> QED BY SMT, <1>1, <1>2, <1>3, <2>1 DEF SignExtended, Field
<1>4. CASE d < 0
  <2>1. d % 67108864 = d + 67108864
    BY SMT, <1>2, <1>4
  <2> QED BY SMT, <1>1, <1>2, <1>4, <2>1 DEF SignExtended, Field
<1> QED BY SMT, <1>3, <1>4

LEMMA JumpBackStep ==
  ASSUME IInv, JumpBack
  PROVE  IInv'
<1>1. /\ next \in Nat /\ here \in Nat /\ Rx \in Nat /\ Base \in Nat
      /\ Len(copied) \in Nat /\ Count \in 1 .. 5
      /\ here = Base + Count /\ here - next \in Int
  <2>1. next \in Nat /\ Rx \in Nat /\ Base \in Nat /\ Len(copied) \in Nat
        /\ Count \in 1 .. 5 /\ here = Base + Len(copied) /\ Len(copied) = Count
    BY PlaceAssumption, CountBounds DEF IInv, TypeOK, here, JumpBack
  <2> QED BY <2>1
<1>2. backAt \in Nat /\ next <= backAt /\ backAt <= next + 1
  <2>1. next + Padding(next + 2, 2) \in Nat
        /\ next <= next + Padding(next + 2, 2)
        /\ next + Padding(next + 2, 2) <= next + 1
    BY <1>1, Padded
  <2> QED BY <1>1, <2>1 DEF backAt
<1>3. /\ ~backFar => backAt = next
      /\ Len(copied) = Count /\ ~done
      /\ back' = [at |-> backAt, long |-> backFar, target |-> here,
                  imm |-> Field(here - backAt, "b")]
      /\ next' = IF backFar THEN backAt + 4 ELSE backAt + 1
      /\ UNCHANGED <<copied, pending>>
  BY DEF JumpBack, backAt
<1>4. Abs(here - next) \in Int /\ Span("b") \div 2 - 1 \in Int
  <2>1. Abs(here - next) \in Int
    BY <1>1 DEF Abs
  <2> QED BY <2>1, SpanBounds
<1>5. backFar \in BOOLEAN
  BY <1>4 DEF backFar
<1>6. here - backAt \in Int /\ Field(here - backAt, "b") \in 0 .. Span("b") - 1
  BY <1>1, <1>2, FieldFits
<1>7. ASSUME ~backFar
      PROVE  SignExtended(Field(here - backAt, "b"), "b") = here - backAt
  <2>1. backAt = next
    BY <1>3, <1>7
  <2>2. Abs(here - next) < Span("b") \div 2 - 1
    BY <1>4, <1>7 DEF backFar
  <2> QED BY <1>1, <2>1, <2>2, BranchKept
<1>8. next' \in Nat /\ next' <= next + 5 /\ Rx <= next
      /\ next <= Rx + 9 * Len(copied) /\ next <= next'
  BY <1>1, <1>2, <1>3 DEF IInv, Room
<1>9. TypeOK'
  <2> DEFINE imms == 0 .. Span("b") - 1
  <2>1. back' \in [at : Nat \cup {-1}, long : BOOLEAN, target : Int, imm : imms]
    <3>1. Field(here - backAt, "b") \in imms
      BY <1>6
    <3> HIDE DEF imms
    <3> QED BY <1>1, <1>2, <1>3, <1>5, <3>1
  <2> QED BY <1>3, <1>8, <2>1 DEF IInv, TypeOK
<1>10. Room'
  <2>1. Rx <= next' /\ next' <= Rx + TrampolineSize
    BY <1>1, <1>3, <1>8 DEF TrampolineSize, MaxInstructions
  <2>2. done'
    <3>1. back'.at # NoJump.at
      BY <1>2, <1>3 DEF NoJump
    <3> QED BY <3>1 DEF done
  <2> QED BY <2>1, <2>2 DEF Room
<1>11. AllCopied' /\ AddressesAligned'
  BY <1>3 DEF IInv, AllCopied, AddressesAligned
<1>12. ComesBack'
  <2>1. CASE backFar
    <3>1. back'.long = TRUE /\ back'.target = Base + Count
      BY <1>1, <1>3, <2>1
    <3> QED BY <3>1 DEF ComesBack
  <2>2. CASE ~backFar
    <3>1. back'.long = FALSE
      BY <1>3, <1>5, <2>2
    <3>2. back'.at + SignExtended(back'.imm, "b") = Base + Count
      BY <1>1, <1>2, <1>3, <1>7, <2>2
    <3> QED BY <3>1, <3>2 DEF ComesBack
  <2> QED BY <2>1, <2>2
<1> QED BY <1>9, <1>10, <1>11, <1>12 DEF IInv

LEMMA Start ==
  Init => IInv
<1> SUFFICES ASSUME Init PROVE IInv
  OBVIOUS
<1>1. Rx \in Nat /\ Count \in 1 .. 5 /\ ~done /\ Len(copied) = 0
  BY PlaceAssumption, CountBounds DEF Init, done
<1>2. TypeOK
  <2> DEFINE imms == 0 .. Span("b") - 1
  <2>1. 0 \in imms
    <3> DEFINE m == Span("b")
    <3>1. m \in Nat \ {0}
      BY SpanBounds
    <3> HIDE DEF m
    <3>2. 0 \in 0 .. m - 1
      BY <3>1
    <3> QED BY <3>2 DEF m
  <2>2. back \in [at : Nat \cup {-1}, long : BOOLEAN, target : Int, imm : imms]
    <3> HIDE DEF imms
    <3> QED BY <2>1 DEF Init, NoJump
  <2>3. copied \in Seq(Emitted) /\ Len(copied) <= Count /\ next \in Nat
        /\ pending \subseteq (1 .. Count) \X (1 .. Count)
    BY <1>1 DEF Init
  <2> QED BY <2>2, <2>3 DEF TypeOK
<1>3. Room /\ AllCopied /\ AddressesAligned /\ ComesBack
  BY <1>1 DEF Init, Room, AllCopied, AddressesAligned, ComesBack
<1> QED BY <1>2, <1>3 DEF IInv

-----------------------------------------------------------------------------
\* Every step keeps it, whichever instruction it relocates.
LEMMA Inductive == IInv /\ [Next]_vars => IInv'
<1> SUFFICES ASSUME IInv, [Next]_vars PROVE IInv'
  OBVIOUS
<1>1. CASE UNCHANGED vars
  BY <1>1 DEF IInv, TypeOK, Room, AllCopied, AddressesAligned, ComesBack,
     done, vars
<1>2. ASSUME NEW ins \in Instrs, FixNext(ins) PROVE IInv'
  BY <1>2, FixBranchImmStep, FixCondCompTestBranchStep, FixLoadLitStep,
     PlainStep, FixAdrStep, FixAdrpStep DEF FixNext
<1>3. CASE JumpBack
  BY <1>3, JumpBackStep
<1> QED BY <1>1, <1>2, <1>3 DEF Next

\* The invariant holds of every function that is relocated.
THEOREM Invariance == Spec => []IInv
BY Inductive, Start, PTL DEF Spec

\* Every value keeps its type: offsets of either sign in their unsigned fields.
THEOREM TypeCorrect == Spec => []TypeOK
<1>1. IInv => TypeOK
  BY DEF IInv
<1> QED BY <1>1, Invariance, PTL

\* __fix_instructions never writes behind its slot of the pool.
THEOREM SlotIsEnough == Spec => []FitsSlot
<1>1. IInv => FitsSlot
  <2> SUFFICES ASSUME IInv PROVE FitsSlot
    OBVIOUS
  <2>1. next \in Nat /\ Rx \in Nat /\ Len(copied) \in Nat /\ Len(copied) <= Count
    BY PlaceAssumption DEF IInv, TypeOK
  <2>2. Len(copied) <= 5
    BY <2>1, CountBounds
  <2>3. next <= Rx + 9 * Len(copied) \/ next <= Rx + TrampolineSize
    BY DEF IInv, Room
  <2>4. TrampolineSize = 50
    BY DEF TrampolineSize, MaxInstructions
  <2>5. next - Rx <= 50
    BY <2>1, <2>2, <2>3, <2>4
  <2> QED BY <2>4, <2>5 DEF FitsSlot
<1> QED BY <1>1, Invariance, PTL

\* A copied function goes on behind what was copied, in both forms of the jump.
THEOREM JumpsBehindTheHook == Spec => []ComesBack
<1>1. IInv => ComesBack
  BY DEF IInv
<1> QED BY <1>1, Invariance, PTL

\* Every address a copied instruction loads with a 64-bit LDR lies on 8 bytes.
THEOREM LoadsAreAligned == Spec => []AddressesAligned
<1>1. IInv => AddressesAligned
  BY DEF IInv
<1> QED BY <1>1, Invariance, PTL
-----------------------------------------------------------------------------
\* A record whose references go to its first word or to one it is aligned at,
\* unless it is an ADRP without a NOP.
Begun(r) == r \in Emitted /\ (NotedWritten(r) \/ r.start \in r.from .. r.at)

LEMMA RecordBegun ==
  ASSUME next \in Nat, NEW ins \in Instrs, NEW start \in Nat, NEW at \in Nat,
         next <= start, start <= at, NEW long \in BOOLEAN, NEW target \in Int
  PROVE  Begun(Record(ins, start, at, long, target))
<1>1. Record(ins, start, at, long, target) \in Emitted
  BY RecordTyped
<1>2. start \in next .. at
  OBVIOUS
<1> QED BY <1>1, <1>2 DEF Begun, Record

\* Every instruction is emitted so.
LEMMA EmitsBegun ==
  ASSUME IInv, Len(copied) < Count, NEW ins \in Instrs, FixNext(ins)
  PROVE  \E r \in Emitted, end \in Int : Begun(r) /\ Emit(r, end)
<1> DEFINE target == absolute_addr(ins, here)
           Goal == \E r \in Emitted, end \in Int : Begun(r) /\ Emit(r, end)
<1> SUFFICES Goal
  OBVIOUS
<1>1. next \in Nat /\ target \in Int
  BY Places
<1>2. ASSUME NEW start \in Nat, NEW at \in Nat, next <= start, start <= at,
             NEW long \in BOOLEAN, NEW t \in Int, NEW end \in Int,
             Emit(Record(ins, start, at, long, t), end)
      PROVE  Goal
  <2>1. Begun(Record(ins, start, at, long, t))
    BY <1>1, <1>2, RecordBegun
  <2> QED BY <1>2, <2>1 DEF Begun
<1>3. ASSUME EmitNear(ins, target) PROVE Goal
  <2> DEFINE ref == get_ref_ins_index(target)
             CopyOf(k) == IF k = current_idx THEN next ELSE copied[k].start
  <2>1. \A t \in Int : Emit(Record(ins, next, next, FALSE, t), next + 1) => Goal
    <3> HIDE DEF Goal
    <3>1. next <= next /\ next + 1 \in Int
      BY <1>1
    <3> QED BY <1>1, <1>2, <3>1
  <2>2. CASE is_in_fixing_range(target) /\ ref <= current_idx
             /\ Emit(Record(ins, next, next, FALSE, CopyOf(ref)), next + 1)
    <3>1. Base \in Nat /\ Len(copied) \in Nat /\ Count \in 1 .. 5
          /\ \A k \in 1 .. Len(copied) : copied[k] \in Emitted
      BY PlaceAssumption, CountBounds DEF IInv, TypeOK
    <3>2. ref \in 1 .. Len(copied) + 1
      BY <1>1, <2>2, <3>1 DEF is_in_fixing_range, get_ref_ins_index, current_idx
    <3>3. CopyOf(ref) \in Int
      BY <1>1, <3>1, <3>2, SMTT(30) DEF current_idx, Emitted
    <3> HIDE DEF Goal, CopyOf
    <3> QED BY <2>1, <2>2, <3>3
  <2>3. CASE Emit(Record(ins, next, next, FALSE, next), next + 1)
    <3> HIDE DEF Goal
    <3>1. next \in Int
      BY <1>1
    <3> QED BY <2>1, <2>3, <3>1
  <2>4. CASE Emit(Record(ins, next, next, FALSE, target), next + 1)
    <3> HIDE DEF Goal, target
    <3> QED BY <1>1, <2>1, <2>4
  <2> HIDE DEF Goal
  <2> QED BY <1>3, <2>2, <2>3, <2>4 DEF EmitNear
<1> HIDE DEF Goal
<1>4. CASE FixBranchImm(ins)
  <2> DEFINE words == IF ins.op = "b" THEN 2 ELSE 3
             at == next + Padding(next + words, 2)
  <2>1. at \in Nat /\ next <= at
    <3>1. words \in Nat
      OBVIOUS
    <3> HIDE DEF words
    <3> QED BY <1>1, <3>1, Padded
  <2>2. \/ Emit(Record(ins, at, at, TRUE, target), at + words + 2)
        \/ EmitNear(ins, target)
    BY <1>4 DEF FixBranchImm
  <2>3. at <= at /\ at + words + 2 \in Int
    BY <2>1
  <2> HIDE DEF target, words, at
  <2>4. CASE Emit(Record(ins, at, at, TRUE, target), at + words + 2)
    BY <1>1, <1>2, <2>1, <2>3, <2>4
  <2> QED BY <1>3, <2>2, <2>4
<1>5. CASE FixCondCompTestBranch(ins)
  <2> DEFINE at == next + Padding(next + 4, 2)
  <2>1. at \in Nat /\ next <= at
    BY <1>1, Padded
  <2>2. \/ Emit(Record(ins, next, at, TRUE, target), at + 6)
        \/ EmitNear(ins, target)
    BY <1>5 DEF FixCondCompTestBranch
  <2>3. next <= next /\ at + 6 \in Int
    BY <1>1, <2>1
  <2> HIDE DEF target, at
  <2>4. CASE Emit(Record(ins, next, at, TRUE, target), at + 6)
    BY <1>1, <1>2, <2>1, <2>3, <2>4
  <2> QED BY <1>3, <2>2, <2>4
<1>6. CASE FixLoadLit(ins)
  <2> DEFINE size == LiteralWords(ins)
             atFar == next + Padding(next + 2, size)
             atNear == next + ((target - next) % size)
             near == Record(ins, atNear, atNear, FALSE, target)
             bits == IF target < atNear THEN ins.bits \cup Unmasked(ins.op)
                     ELSE ins.bits
             kept == [near EXCEPT !.bits = bits]
  <2>1. size \in {1, 2, 4}
    BY LiteralWordsBounds
  <2>2. atFar \in Nat /\ next <= atFar /\ atFar + 2 + size \in Int
    <3>1. Padding(next + 2, size) \in 0 .. size - 1
      <4>1. next + 2 \in Nat
        BY <1>1
      <4> QED BY <2>1, <4>1, PaddingBounds
    <3> HIDE DEF size
    <3> QED BY <1>1, <2>1, <3>1
  <2>3. atNear \in Nat /\ next <= atNear /\ atNear + 1 \in Int
    <3>1. (target - next) % size \in Nat
      <4> HIDE DEF target, size
      <4>1. CASE size = 1 BY <1>1, <4>1
      <4>2. CASE size = 2 BY <1>1, <4>2
      <4>3. CASE size = 4 BY <1>1, <4>3
      <4> QED BY <2>1, <4>1, <4>2, <4>3
    <3> HIDE DEF target, size
    <3> QED BY <1>1, <3>1
  <2>4. ins.op \in Loads
        /\ \/ Emit(Record(ins, atFar, atFar, TRUE, target), atFar + 2 + size)
           \/ Emit(kept, atNear + 1)
    BY <1>6 DEF FixLoadLit
  <2>5. bits \in SUBSET {30, 31}
    <3>1. Unmasked(ins.op) \in SUBSET {30, 31}
      BY <2>4 DEF Unmasked, Loads
    <3> QED BY <3>1, InstrTypes
  <2>6. Begun(near)
    <3> HIDE DEF target, atNear
    <3>1. atNear <= atNear
      BY <2>3
    <3> QED BY <1>1, <2>3, <3>1, RecordBegun
  <2> HIDE DEF target, size, atFar, atNear, near, bits
  <2>7. Begun(kept)
    <3> DEFINE imms == 0 .. Span("b") - 1
    <3>1. Emitted = [ins : Instrs, from : Nat, start : Nat, at : Nat,
                     long : BOOLEAN, target : Int, imm : imms,
                     bits : SUBSET {30, 31}, rd : SUBSET {3, 4}]
      BY DEF Emitted
    <3> HIDE DEF imms
    <3> QED BY <2>5, <2>6, <3>1 DEF Begun, NotedWritten
  <2> HIDE DEF kept
  <2>8. CASE Emit(kept, atNear + 1)
    BY <2>3, <2>7, <2>8 DEF Goal, Begun
  <2>9. CASE Emit(Record(ins, atFar, atFar, TRUE, target), atFar + 2 + size)
    <3>1. atFar <= atFar
      BY <2>2
    <3> QED BY <1>1, <1>2, <2>2, <2>9, <3>1
  <2> QED BY <2>4, <2>8, <2>9
<1>7. CASE FixPrefetch(ins) \/ Copy(ins)
  <2>1. \/ Emit(Record(ins, next, next, FALSE, next), next)
        \/ Emit(Record(ins, next, next, FALSE, next), next + 1)
    BY <1>7 DEF FixPrefetch, Copy
  <2>2. next \in Int /\ next + 1 \in Int /\ next <= next
    BY <1>1
  <2>3. \A end \in Int : Emit(Record(ins, next, next, FALSE, next), end) => Goal
    BY <1>1, <1>2, <2>2
  <2> QED BY <2>1, <2>2, <2>3
<1>8. CASE FixAdr(ins)
  <2> DEFINE at == next + Padding(next + 2, 2)
             near == Record(ins, next, next, FALSE, target)
             rd == ins.rd \cup {b + 3 : b \in ins.low}
             kept == [near EXCEPT !.rd = rd]
  <2>1. at \in Nat /\ next <= at
    BY <1>1, Padded
  <2>2. \/ Emit(Record(ins, at, at, TRUE, target), at + 4)
        \/ EmitNear(ins, target)
        \/ Emit(kept, next + 1)
    BY <1>8 DEF FixAdr
  <2>3. at + 4 \in Int /\ next + 1 \in Int
    BY <1>1, <2>1
  <2>4. rd \in SUBSET {3, 4}
    BY InstrTypes
  <2>5. Begun(near)
    <3> HIDE DEF target
    <3>1. next <= next
      BY <1>1
    <3> QED BY <1>1, <3>1, RecordBegun
  <2> HIDE DEF target, at, near, rd
  <2>6. Begun(kept)
    <3> DEFINE imms == 0 .. Span("b") - 1
    <3>1. Emitted = [ins : Instrs, from : Nat, start : Nat, at : Nat,
                     long : BOOLEAN, target : Int, imm : imms,
                     bits : SUBSET {30, 31}, rd : SUBSET {3, 4}]
      BY DEF Emitted
    <3> HIDE DEF imms
    <3> QED BY <2>4, <2>5, <3>1 DEF Begun, NotedWritten
  <2> HIDE DEF kept
  <2>7. CASE Emit(kept, next + 1)
    BY <2>3, <2>6, <2>7 DEF Goal, Begun
  <2>8. CASE Emit(Record(ins, at, at, TRUE, target), at + 4)
    <3>1. at <= at
      BY <2>1
    <3> QED BY <1>1, <1>2, <2>1, <2>3, <2>8, <3>1
  <2> QED BY <1>3, <2>2, <2>7, <2>8
<1>9. CASE FixAdrp(ins)
  <2> DEFINE written == Rw + (next - Rx)
             at == next + Padding(next + 2, 2)
             start == IF at = next THEN written ELSE at
             copy == Record(ins, written, next, FALSE, target)
             kept == [copy EXCEPT !.imm = ins.imm]
             long == Record(ins, start, at, TRUE, target)
  <2>1. at \in Nat /\ next <= at /\ written \in Nat
    BY <1>1, Places, Padded
  <2>2. Emit(kept, next + 1) \/ Emit(long, at + 4)
    BY <1>9 DEF FixAdrp
  <2>3. ins.op = "adrp"
    BY <1>9 DEF FixAdrp
  <2>4. start \in Nat /\ (at = next \/ start \in next .. at)
    BY <2>1
  <2>5. copy \in Emitted /\ long \in Emitted
    BY <1>1, <2>1, <2>4, RecordTyped
  <2>6. copy.ins = ins /\ copy.from = next /\ copy.at = next
    BY DEF Record
  <2>7. long.ins = ins /\ long.from = next /\ long.at = at /\ long.start = start
    BY DEF Record
  <2>8. ins.imm \in 0 .. Span("b") - 1
    <3> DEFINE m == Span("b")
               n == Span(ins.op)
    <3>1. m \in Nat /\ n \in Nat /\ n <= m
      BY SpanBounds
    <3>2. ins.imm \in Nat /\ ins.imm < n
      BY InstrTypes
    <3> HIDE DEF m, n
    <3>3. ins.imm \in 0 .. m - 1
      BY <3>1, <3>2
    <3> QED BY <3>3 DEF m
  <2> HIDE DEF written, at, start, copy, long
  <2>9. /\ kept \in Emitted /\ kept.ins = ins /\ kept.from = next /\ kept.at = next
    BY <2>5, <2>6, <2>8, FieldReplaced
  <2> HIDE DEF kept
  <2>10. Begun(kept)
    BY <2>3, <2>9 DEF Begun, NotedWritten
  <2>11. Begun(long)
    BY <2>3, <2>4, <2>5, <2>7 DEF Begun, NotedWritten
  <2>12. next + 1 \in Int /\ at + 4 \in Int
    BY <1>1, <2>1
  <2>13. CASE Emit(kept, next + 1)
    BY <2>9, <2>10, <2>12, <2>13 DEF Goal
  <2>14. CASE Emit(long, at + 4)
    BY <2>5, <2>11, <2>12, <2>14 DEF Goal
  <2> HIDE DEF Goal
  <2> QED BY <2>2, <2>13, <2>14
<1> QED BY <1>4, <1>5, <1>6, <1>7, <1>8, <1>9 DEF FixNext

\* The place noted for a copy is its first word or past its NOPs, and not inside
\* another copy, wherever alignment moved it; but for an ADRP without a NOP, for
\* which the code notes an address in the other alias.
THEOREM ReferencesArrive == Spec => []StartsAtCopy
<1> DEFINE Inv == IInv /\ StartsAtCopy
<1>1. Init => Inv
  BY Start DEF Init, StartsAtCopy
<1>2. Inv /\ [Next]_vars => Inv'
  <2> SUFFICES ASSUME Inv, [Next]_vars PROVE Inv'
    OBVIOUS
  <2>1. IInv'
    BY Inductive
  <2>2. CASE UNCHANGED copied
    BY <2>1, <2>2 DEF StartsAtCopy, Entries
  <2>3. ASSUME NEW ins \in Instrs, FixNext(ins) PROVE StartsAtCopy'
    <3>1. Len(copied) < Count
      BY <2>3 DEF FixNext
    <3>2. PICK r \in Emitted, end \in Int : Begun(r) /\ Emit(r, end)
      BY <2>3, <3>1, EmitsBegun
    <3>3. /\ Len(copied') = Len(copied) + 1
          /\ copied'[Len(copied) + 1] = r
          /\ \A k \in 1 .. Len(copied) : /\ copied'[k].ins = copied[k].ins
                                         /\ copied'[k].at = copied[k].at
                                         /\ copied'[k].from = copied[k].from
                                         /\ copied'[k].start = copied[k].start
      BY <3>2, Emitting DEF IInv
    <3>4. Len(copied) \in Nat
      BY DEF IInv, TypeOK
    <3> SUFFICES ASSUME NEW k \in 1 .. Len(copied')
                 PROVE  \/ NotedWritten(copied'[k])
                        \/ copied'[k].start \in copied'[k].from .. copied'[k].at
      BY DEF StartsAtCopy, Entries
    <3>5. CASE k = Len(copied) + 1
      BY <3>2, <3>3, <3>5 DEF Begun
    <3>6. CASE k \in 1 .. Len(copied)
      BY <3>3, <3>6 DEF StartsAtCopy, Entries, NotedWritten
    <3> QED BY <3>3, <3>4, <3>5, <3>6
  <2> QED BY <2>1, <2>2, <2>3 DEF Next, JumpBack, vars
<1>3. Inv => StartsAtCopy
  OBVIOUS
<1> QED BY <1>1, <1>2, <1>3, PTL DEF Spec
-----------------------------------------------------------------------------
(***************************************************************************)
(* Every copy points where it should.  This needs what the code takes for  *)
(* granted of the instructions: those whose target it computes without a   *)
(* sign point forward, and an ADRP does not point into the instructions    *)
(* that are copied.                                                        *)
(***************************************************************************)
PointForward ==
  \A ins \in Instrs :
    ins.op \in PcRelative \ Branches => 2 * ins.imm < Span(ins.op)

AdrpLeaves ==
  \A ins \in Instrs : \A a \in Base .. Base + Count - 1 :
    ins.op = "adrp" => ~is_in_fixing_range(PointsTo(ins, a))

Relocatable == PointForward /\ AdrpLeaves

\* A copy points where it should, or to a copy that noted the other alias, or it
\* waits for the copy it is to point to.
Arrives(k) ==
  copied[k].ins.op \in PcRelative =>
    IF Inside(k)
    THEN IF Ref(k) <= Len(copied)
         THEN NotedWritten(copied[Ref(k)]) \/ NowPointsTo(k) = copied[Ref(k)].start
         ELSE <<k, Ref(k)>> \in pending
    ELSE NowPointsTo(k) = Target(k)

Waits ==
  \A k, j : <<k, j>> \in pending =>
    /\ k \in 1 .. Len(copied) /\ j = Ref(k)
    /\ copied[k].ins.op \in PcRelative /\ Inside(k)

\* What references from or to a copy start from or go to.
Near(address, from) == from <= address /\ address <= from + TrampolineSize
InReach(r) ==
  /\ Near(r.at, Rx)
  /\ NotedWritten(r) \/ Near(r.start, Rx)

Arr ==
  /\ Waits
  /\ \A k \in 1 .. Len(copied) : Arrives(k) /\ InReach(copied[k])

\* An offset within half the span survives its field.
LEMMA FieldKeeps ==
  ASSUME NEW op \in PcRelative, NEW d \in Int,
         -(Span(op) \div 2) <= d, d < Span(op) \div 2
  PROVE  SignExtended(Field(d, op), op) = d
<1>1. Span(op) \in {67108864, 524288, 16384, 2097152}
  BY SMT DEF Span, PcRelative, Branches, Conds, Loads
<1>2. CASE Span(op) = 67108864
  BY <1>2, SMT DEF SignExtended, Field
<1>3. CASE Span(op) = 524288
  BY <1>3, SMT DEF SignExtended, Field
<1>4. CASE Span(op) = 16384
  BY <1>4, SMT DEF SignExtended, Field
<1>5. CASE Span(op) = 2097152
  BY <1>5, SMT DEF SignExtended, Field
<1> QED
  BY <1>1, <1>2, <1>3, <1>4, <1>5

\* The code takes an instruction to point where it does.
LEMMA TargetRight ==
  ASSUME PointForward, NEW ins \in Instrs, ins.op \in PcRelative, NEW address \in Int
  PROVE  absolute_addr(ins, address) = PointsTo(ins, address)
<1>1. CASE ins.op \in Branches
  BY <1>1 DEF absolute_addr
<1>2. CASE ins.op \notin Branches
  <2>1. ins.imm \in Nat /\ 2 * ins.imm < Span(ins.op)
    BY <1>2, InstrTypes DEF PointForward
  <2>2. SignExtended(ins.imm, ins.op) = ins.imm
    <3>1. Span(ins.op) \in Nat
      BY SpanBounds
    <3>2. ~(2 * ins.imm >= Span(ins.op))
      BY <2>1, <3>1
    <3> QED
      BY <3>2 DEF SignExtended
  <2>3. CASE ins.op \in Conds
    BY <1>2, <2>2, <2>3 DEF absolute_addr, PointsTo, Conds
  <2>4. CASE ins.op = "adrp"
    <3>1. Page(address) \in Int
      BY DEF Page, PageWords
    <3>2. ins.imm < 1048576
      BY <2>1, <2>4 DEF Span, Branches, Loads
    <3>3. (PageWords * ins.imm) % FourGigabytes = PageWords * ins.imm
      BY <2>1, <3>2 DEF PageWords, FourGigabytes
    <3>4. PointsTo(ins, address) = Page(address) + PageWords * ins.imm
      BY <2>2, <2>4 DEF PointsTo
    <3>5. PointsTo(ins, address) - Page(address) = PageWords * ins.imm
      BY <2>1, <3>1, <3>4 DEF PageWords
    <3>6. ins.op \notin Conds
      BY <2>4 DEF Conds
    <3> QED
      BY <1>2, <2>4, <3>3, <3>4, <3>5, <3>6 DEF absolute_addr
  <2>5. CASE ins.op \notin Conds \cup {"adrp"}
    <3>1. ins.imm < 262144
      BY <1>2, <2>1, <2>5 DEF Span, Branches, Conds, Loads, PcRelative
    <3>2. ins.imm % FourGigabytes = ins.imm
      BY <2>1, <3>1 DEF FourGigabytes
    <3>3. PointsTo(ins, address) = address + ins.imm
      BY <2>2, <2>5 DEF PointsTo
    <3>4. PointsTo(ins, address) - address = ins.imm
      BY <2>1, <3>3
    <3> QED
      BY <1>2, <2>5, <3>2, <3>3, <3>4 DEF absolute_addr
  <2> QED
    BY <2>3, <2>4, <2>5
<1> QED
  BY <1>1, <1>2

\* Where a copy with a field points.
LEMMA FieldReaches ==
  ASSUME NEW ins \in Instrs, ins.op # "adrp", NEW v, NEW address
  PROVE  PointsTo([ins EXCEPT !.imm = v], address) = address + SignExtended(v, ins.op)
<1>1. [ins EXCEPT !.imm = v].imm = v /\ [ins EXCEPT !.imm = v].op = ins.op
  BY InstrsAssumption DEF Instr
<1> QED
  BY <1>1 DEF PointsTo
\* Emitting a record mends the copies that wait for it, and no other.
LEMMA Mending ==
  ASSUME TypeOK, NEW r \in Emitted, NEW end, Emit(r, end),
         NEW k \in 1 .. Len(copied)
  PROVE  copied'[k] =
           IF <<k, Len(copied) + 1>> \in pending
           THEN [copied[k] EXCEPT !.imm = Field(r.start - copied[k].at, copied[k].ins.op)]
           ELSE copied[k]
<1> DEFINE cs == Append(copied, r)
           N == Len(copied) + 1
<1>1. /\ Len(cs) = N /\ DOMAIN cs = 1 .. N /\ N \in Nat
      /\ cs[N] = r /\ cs[k] = copied[k] /\ k # N /\ k \in 1 .. N
  BY DEF TypeOK
<1>2. copied' = process_fix_map(cs)
  BY DEF Emit
<1> HIDE DEF cs, N
<1>3. copied'[k] = IF <<k, N>> \in pending /\ k # N
                   THEN [cs[k] EXCEPT !.imm = FixedField(cs, k)] ELSE cs[k]
  BY <1>1, <1>2 DEF process_fix_map
<1>4. FixedField(cs, k) = Field(r.start - copied[k].at, copied[k].ins.op)
  BY <1>1 DEF FixedField
<1> QED
  BY <1>1, <1>3, <1>4 DEF N

\* Two copies are closer than half of any branch's span.
LEMMA CopiesNear ==
  ASSUME NEW r \in Emitted, NEW s \in Emitted, InReach(r), InReach(s),
         ~NotedWritten(s), NEW op \in PcRelative
  PROVE  /\ s.start - r.at \in Int
         /\ -(Span(op) \div 2) <= s.start - r.at
         /\ s.start - r.at < Span(op) \div 2
<1>1. r.at \in Nat /\ s.start \in Nat /\ Rx \in Nat
  BY PlaceAssumption DEF Emitted
<1>2. Span(op) \div 2 \in Int /\ 8192 <= Span(op) \div 2
  BY SMT DEF Span, PcRelative, Branches, Conds, Loads
<1>3. TrampolineSize = 50
  BY DEF TrampolineSize, MaxInstructions
<1> QED
  BY <1>1, <1>2, <1>3 DEF Near, InReach

\* What a new copy r must be: its address is loaded, or its field leads where
\* the original points, or to the copy of what that points to; or it waits.
Right(r) ==
  LET target == PointsTo(r.ins, here)
      ref == get_ref_ins_index(target)
      N == current_idx
      short == ~r.long /\ r.ins.op # "adrp"
      reached == r.at + SignExtended(r.imm, r.ins.op)
  IN IF r.ins.op \notin PcRelative THEN UNCHANGED pending
     ELSE \/ r.long /\ r.target = target /\ UNCHANGED pending
          \/ /\ short /\ ~is_in_fixing_range(target)
             /\ reached = target /\ UNCHANGED pending
          \/ /\ short /\ is_in_fixing_range(target) /\ ref <= N
             /\ \/ ref = N /\ reached = r.start
                \/ ref # N /\ reached = copied[ref].start
                \/ ref # N /\ NotedWritten(copied[ref])
             /\ UNCHANGED pending
          \/ /\ short /\ is_in_fixing_range(target) /\ ref > N
             /\ pending' = pending \cup {<<N, ref>>}

LEMMA RightStep ==
  ASSUME IInv, Arr, Relocatable, Len(copied) < Count,
         NEW r \in Emitted, NEW end, Emit(r, end), Right(r), InReach(r)
  PROVE  Arr'
<1>0. PICK N \in Nat : N = Len(copied) + 1
  BY DEF IInv, TypeOK
<1> DEFINE cs == copied'
<1>1. /\ cs \in Seq(Emitted) /\ Len(cs) = N /\ cs[N] = r
      /\ \A k \in 1 .. Len(copied) :
           /\ cs[k].ins = copied[k].ins
           /\ cs[k].at = copied[k].at
           /\ cs[k].long = copied[k].long
           /\ cs[k].from = copied[k].from
           /\ cs[k].start = copied[k].start
           /\ NotedWritten(cs[k]) = NotedWritten(copied[k])
  BY <1>0, Emitting DEF IInv, NotedWritten
<1>2. /\ Len(copied) \in Nat /\ N = Len(copied) + 1 /\ N \in Nat
      /\ Base \in Nat /\ Count \in 1 .. 5
  BY <1>0, CountBounds, PlaceAssumption DEF IInv, TypeOK
<1>3. \A k \in 1 .. Len(copied) : copied[k] \in Emitted /\ copied[k].ins \in Instrs
  <2>1. \A k \in 1 .. Len(copied) : copied[k] \in Emitted
    BY DEF IInv, TypeOK
  <2> QED
    BY <2>1 DEF Emitted
<1>4. r.ins \in Instrs
  BY DEF Emitted
<1>5. \A k \in 1 .. Len(copied) :
        Target(k)' = Target(k) /\ Inside(k)' = Inside(k) /\ Ref(k)' = Ref(k)
  BY <1>1 DEF Target, Inside, Ref
<1>6. /\ Target(N)' = PointsTo(r.ins, here)
      /\ Inside(N)' = (is_in_fixing_range(PointsTo(r.ins, here))
                         /\ ~(r.long \/ r.ins.op = "adrp"))
      /\ Ref(N)' = get_ref_ins_index(PointsTo(r.ins, here))
  <2>1. Base + N - 1 = here
    BY <1>2 DEF here
  <2> QED
    BY <1>1, <1>2, <2>1 DEF Target, Inside, Ref
<1>7. N = current_idx
  BY <1>2 DEF current_idx
<1>8. pending \subseteq pending'
  BY DEF Right
<1>9. Waits'
  <2> SUFFICES ASSUME NEW k, NEW j, <<k, j>> \in pending'
               PROVE  /\ k \in 1 .. N /\ j = Ref(k)'
                      /\ cs[k].ins.op \in PcRelative /\ Inside(k)'
    BY <1>1 DEF Waits
  <2>1. CASE <<k, j>> \in pending
    <3>1. k \in 1 .. Len(copied) /\ j = Ref(k) /\ copied[k].ins.op \in PcRelative /\ Inside(k)
      BY <2>1 DEF Arr, Waits
    <3> QED
      BY <1>1, <1>2, <1>5, <3>1
  <2>2. CASE <<k, j>> \notin pending
    <3>1. /\ r.ins.op \in PcRelative /\ ~r.long /\ r.ins.op # "adrp"
          /\ is_in_fixing_range(PointsTo(r.ins, here))
          /\ <<k, j>> = <<N, get_ref_ins_index(PointsTo(r.ins, here))>>
      BY <1>7, <2>2 DEF Right
    <3>2. k = N /\ j = get_ref_ins_index(PointsTo(r.ins, here))
      BY <3>1
    <3>3. N \in 1 .. N
      BY <1>2
    <3> QED
      BY <1>1, <1>6, <3>1, <3>2, <3>3
  <2> QED
    BY <2>1, <2>2
<1>10. ASSUME NEW k \in 1 .. Len(copied)
       PROVE  Arrives(k)' /\ InReach(cs[k])
  <2>1. InReach(copied[k]) /\ Arrives(k)
    BY DEF Arr
  <2>2. InReach(cs[k])
    BY <1>1, <2>1 DEF InReach
  <2>3. SUFFICES ASSUME cs[k].ins.op \in PcRelative
                 PROVE  IF Inside(k)'
                        THEN IF Ref(k)' <= N
                             THEN \/ NotedWritten(cs[Ref(k)'])
                                  \/ NowPointsTo(k)' = cs[Ref(k)'].start
                             ELSE <<k, Ref(k)'>> \in pending'
                        ELSE NowPointsTo(k)' = Target(k)'
    BY <1>1, <2>2 DEF Arrives, NotedWritten
  <2>4. copied[k].ins.op \in PcRelative
    BY <1>1, <2>3
  <2>5. cs[k] = IF <<k, N>> \in pending
                THEN [copied[k] EXCEPT !.imm = Field(r.start - copied[k].at, copied[k].ins.op)]
                ELSE copied[k]
    BY <1>2, Mending DEF IInv
  <2>8. CASE <<k, N>> \in pending /\ NotedWritten(r)
    <3>1. N = Ref(k) /\ Inside(k)
      BY <2>8 DEF Arr, Waits
    <3> QED
      BY <1>1, <1>2, <1>5, <2>8, <3>1
  <2>6. CASE <<k, N>> \in pending /\ ~NotedWritten(r)
    <3>1. N = Ref(k) /\ Inside(k)
      BY <2>6 DEF Arr, Waits
    <3> DEFINE op == copied[k].ins.op
               d == r.start - copied[k].at
    <3>2. SignExtended(Field(d, op), op) = d /\ d \in Int
      <4>1. /\ d \in Int
            /\ -(Span(op) \div 2) <= d /\ d < Span(op) \div 2
        BY <1>3, <2>1, <2>4, <2>6, CopiesNear
      <4> HIDE DEF d, op
      <4> QED
        BY <2>4, <4>1, FieldKeeps DEF op
    <3>3. op # "adrp" /\ ~copied[k].long
      BY <3>1 DEF Inside
    <3>4. cs[k].imm = Field(d, op)
      BY <1>3, <2>5, <2>6 DEF Emitted
    <3>5. NowPointsTo(k)' = copied[k].at + SignExtended(Field(d, op), op)
      <4>1. NowPointsTo(k)' = PointsTo([copied[k].ins EXCEPT !.imm = Field(d, op)], copied[k].at)
        BY <1>1, <3>3, <3>4 DEF NowPointsTo
      <4> QED
        BY <1>3, <3>3, <4>1, FieldReaches
    <3>6. NowPointsTo(k)' = r.start
      <4>1. r.start \in Int /\ copied[k].at \in Int
        BY <1>3 DEF Emitted
      <4> QED
        BY <3>2, <3>5, <4>1
    <3> QED
      BY <1>1, <1>2, <1>5, <3>1, <3>6
  <2>7. CASE <<k, N>> \notin pending
    <3>1. cs[k] = copied[k]
      BY <2>5, <2>7
    <3>2. NowPointsTo(k)' = NowPointsTo(k)
      BY <3>1 DEF NowPointsTo
    <3>3. CASE ~Inside(k)
      BY <1>5, <2>1, <2>4, <3>2, <3>3 DEF Arrives
    <3>4. CASE Inside(k)
      <4>1. PointsTo(copied[k].ins, Base + k - 1) \in Int
        BY <1>2, <1>3, PointsToInt
      <4>2. Ref(k) \in Int /\ 1 <= Ref(k)
        BY <1>2, <3>4, <4>1 DEF Inside, Ref, Target, is_in_fixing_range, get_ref_ins_index
      <4>3. CASE Ref(k) <= Len(copied)
        <5>1. /\ \/ NotedWritten(copied[Ref(k)])
                 \/ NowPointsTo(k) = copied[Ref(k)].start
              /\ Ref(k) \in 1 .. Len(copied)
          BY <1>2, <2>1, <2>4, <3>4, <4>2, <4>3 DEF Arrives
        <5> QED
          BY <1>1, <1>2, <1>5, <3>2, <3>4, <4>2, <4>3, <5>1
      <4>4. CASE ~(Ref(k) <= Len(copied))
        <5>1. <<k, Ref(k)>> \in pending
          BY <2>1, <2>4, <3>4, <4>4 DEF Arrives
        <5>2. ~(Ref(k) <= N)
          BY <1>2, <2>7, <4>2, <4>4, <5>1
        <5> QED
          BY <1>5, <1>8, <3>4, <5>1, <5>2
      <4> QED
        BY <4>3, <4>4
    <3> QED
      BY <3>3, <3>4
  <2> QED
    BY <2>6, <2>7, <2>8
<1>11. Arrives(N)'
  <2> SUFFICES ASSUME r.ins.op \in PcRelative
               PROVE  IF Inside(N)'
                      THEN IF Ref(N)' <= N
                           THEN \/ NotedWritten(cs[Ref(N)'])
                                \/ NowPointsTo(N)' = cs[Ref(N)'].start
                           ELSE <<N, Ref(N)'>> \in pending'
                      ELSE NowPointsTo(N)' = Target(N)'
    BY <1>1 DEF Arrives, NotedWritten
  <2> DEFINE target == PointsTo(r.ins, here)
             ref == get_ref_ins_index(target)
             reached == r.at + SignExtended(r.imm, r.ins.op)
  <2>1. target \in Int
    <3>1. here \in Int
      BY <1>2 DEF here
    <3> QED
      BY <1>4, <3>1, PointsToInt
  <2>2. CASE r.long /\ r.target = target
    BY <1>1, <1>6, <2>2 DEF NowPointsTo
  <2>3. ~r.long /\ r.ins.op # "adrp" => NowPointsTo(N)' = reached
    <3>1. ~r.long => NowPointsTo(N)' = PointsTo([r.ins EXCEPT !.imm = r.imm], r.at)
      BY <1>1 DEF NowPointsTo
    <3> QED
      BY <1>4, <3>1, FieldReaches
  <2>4. is_in_fixing_range(target) => ref \in Int /\ 1 <= ref
    BY <1>2, <2>1 DEF is_in_fixing_range, get_ref_ins_index
  <2>5. CASE /\ ~r.long /\ r.ins.op # "adrp"
             /\ ~is_in_fixing_range(target) /\ reached = target
    BY <1>6, <2>3, <2>5
  <2>6. CASE /\ ~r.long /\ r.ins.op # "adrp"
             /\ is_in_fixing_range(target) /\ ref <= N
             /\ \/ ref = N /\ reached = r.start
                \/ ref # N /\ reached = copied[ref].start
                \/ ref # N /\ NotedWritten(copied[ref])
    <3>1. NotedWritten(cs[ref]) \/ cs[ref].start = reached
      <4>1. ref = N \/ ref \in 1 .. Len(copied)
        BY <1>2, <2>4, <2>6
      <4> QED
        BY <1>1, <2>6, <4>1
    <3> QED
      BY <1>6, <2>3, <2>6, <3>1
  <2>7. CASE /\ ~r.long /\ r.ins.op # "adrp"
             /\ is_in_fixing_range(target) /\ ref > N
             /\ pending' = pending \cup {<<N, ref>>}
    <3>1. ~(ref <= N)
      BY <1>2, <2>4, <2>7
    <3> QED
      BY <1>6, <2>7, <3>1
  <2> QED
    BY <1>7, <2>2, <2>5, <2>6, <2>7 DEF Right
<1>12. ASSUME NEW k \in 1 .. Len(cs)
       PROVE  Arrives(k)' /\ InReach(cs[k])
  <2>1. k = N \/ k \in 1 .. Len(copied)
    BY <1>1, <1>2
  <2> QED
    BY <1>1, <1>10, <1>11, <2>1
<1> QED
  BY <1>9, <1>12 DEF Arr
\* While instructions are copied there is room for one more.
LEMMA Here ==
  ASSUME IInv, Len(copied) < Count
  PROVE  /\ next \in Nat /\ Rx \in Nat /\ Rw \in Nat /\ Base \in Nat
         /\ Rx <= next /\ next <= Rx + 36
         /\ here \in Base .. Base + Count - 1 /\ here \in Int
<1>1. /\ Len(copied) \in Nat /\ Count \in 1 .. 5 /\ next \in Nat
      /\ Rx \in Nat /\ Rw \in Nat /\ Base \in Nat
  BY CountBounds, PlaceAssumption DEF IInv, TypeOK
<1>2. ~done
  BY <1>1 DEF IInv, AllCopied
<1>3. Rx <= next /\ next <= Rx + 9 * Len(copied)
  BY <1>2 DEF IInv, Room
<1> QED
  BY <1>1, <1>3 DEF here

\* What a step emits, if it is right.
EmitsRight == \E r \in Emitted : \E end : Emit(r, end) /\ Right(r) /\ InReach(r)

\* A copy that loads the address is.
LEMMA LongRight ==
  ASSUME IInv, Len(copied) < Count, PointForward,
         NEW ins \in Instrs, ins.op \in PcRelative,
         NEW start \in Nat, NEW at \in Nat, Near(at, Rx),
         Near(start, Rx) \/ (ins.op = "adrp" /\ at = next),
         NEW end, Emit(Record(ins, start, at, TRUE, absolute_addr(ins, here)), end),
         UNCHANGED pending
  PROVE  EmitsRight
<1> DEFINE target == absolute_addr(ins, here)
           r == Record(ins, start, at, TRUE, target)
<1>1. target = PointsTo(ins, here) /\ target \in Int
  BY Here, TargetRight, absolute_addrInt
<1>2. r \in Emitted
  BY Here, <1>1, RecordTyped
<1>3. r.ins = ins /\ r.long = TRUE /\ r.target = target /\ r.at = at /\ r.start = start
      /\ r.from = next
  BY DEF Record
<1> HIDE DEF target, r
<1>4. Right(r)
  BY <1>1, <1>3 DEF Right
<1>5. InReach(r)
  BY <1>3 DEF InReach, NotedWritten
<1> QED
  BY <1>2, <1>4, <1>5 DEF EmitsRight, r, target

\* One that reaches it with its field is, if the distance fits.
LEMMA FieldRight ==
  ASSUME IInv, Len(copied) < Count, PointForward,
         NEW ins \in Instrs, ins.op \in PcRelative, ins.op # "adrp",
         NEW r \in Emitted, r.ins = ins, r.long = FALSE,
         r.imm = Field(absolute_addr(ins, here) - r.at, ins.op), InReach(r),
         ~is_in_fixing_range(absolute_addr(ins, here)),
         -(Span(ins.op) \div 2) <= absolute_addr(ins, here) - r.at,
         absolute_addr(ins, here) - r.at < Span(ins.op) \div 2,
         NEW end, Emit(r, end), UNCHANGED pending
  PROVE  EmitsRight
<1> DEFINE target == absolute_addr(ins, here)
           d == target - r.at
<1>1. target = PointsTo(ins, here) /\ target \in Int
  BY Here, TargetRight, absolute_addrInt
<1>2. r.at \in Nat /\ d \in Int
  BY <1>1 DEF Emitted
<1>3. SignExtended(Field(d, ins.op), ins.op) = d
  <2> HIDE DEF target
  <2> QED
    BY <1>2, FieldKeeps DEF target
<1>4. r.at + SignExtended(r.imm, r.ins.op) = target
  <2> HIDE DEF target
  <2>1. r.at + d = target
    BY <1>1, <1>2
  <2> QED
    BY <1>3, <2>1 DEF target
<1>5. Right(r)
  <2> HIDE DEF target
  <2>1. ~is_in_fixing_range(target)
    BY DEF target
  <2> QED
    BY <1>1, <1>4, <2>1 DEF Right
<1> QED
  BY <1>5 DEF EmitsRight

LEMMA NearRight ==
  ASSUME IInv, Arr, Len(copied) < Count, Relocatable,
         NEW ins \in Instrs, ins.op \in PcRelative, ins.op # "adrp",
         ~is_in_fixing_range(absolute_addr(ins, here)) =>
           /\ -(Span(ins.op) \div 2) <= absolute_addr(ins, here) - next
           /\ absolute_addr(ins, here) - next < Span(ins.op) \div 2,
         EmitNear(ins, absolute_addr(ins, here))
  PROVE  EmitsRight
<1> DEFINE target == absolute_addr(ins, here)
           ref == get_ref_ins_index(target)
           CopyOf(k) == IF k = current_idx THEN next ELSE copied[k].start
           r(t) == Record(ins, next, next, FALSE, t)
<1>1. target = PointsTo(ins, here) /\ target \in Int
  BY Here, TargetRight, absolute_addrInt DEF Relocatable
<1>2. /\ next \in Nat /\ Base \in Nat /\ Rx \in Nat /\ Rx <= next /\ next <= Rx + 36
      /\ Len(copied) \in Nat /\ Count \in 1 .. 5
      /\ \A k \in 1 .. Len(copied) : copied[k] \in Emitted
  BY Here, CountBounds DEF IInv, TypeOK
<1>3. ASSUME NEW t \in Int
      PROVE  /\ r(t) \in Emitted /\ InReach(r(t))
             /\ r(t).ins = ins /\ r(t).long = FALSE /\ r(t).at = next
             /\ r(t).start = next /\ r(t).imm = Field(t - next, ins.op)
  <2>1. r(t) \in Emitted
    BY <1>2, RecordTyped
  <2>2. /\ r(t).ins = ins /\ r(t).long = FALSE /\ r(t).at = next
        /\ r(t).start = next /\ r(t).imm = Field(t - next, ins.op)
    BY DEF Record
  <2>3. Near(next, Rx)
    BY <1>2 DEF Near, TrampolineSize, MaxInstructions
  <2> HIDE DEF r
  <2> QED
    BY <2>1, <2>2, <2>3 DEF InReach
<1>4. \/ ~is_in_fixing_range(target) /\ Emit(r(target), next + 1) /\ UNCHANGED pending
      \/ /\ is_in_fixing_range(target) /\ ref <= current_idx
         /\ Emit(r(CopyOf(ref)), next + 1) /\ UNCHANGED pending
      \/ /\ is_in_fixing_range(target) /\ ref > current_idx
         /\ pending' = pending \cup {<<current_idx, ref>>}
         /\ Emit(r(next), next + 1)
  BY DEF EmitNear
<1>5. CASE ~is_in_fixing_range(target) /\ Emit(r(target), next + 1) /\ UNCHANGED pending
  <2> DEFINE q == r(target)
  <2>1. /\ q \in Emitted /\ InReach(q) /\ q.ins = ins /\ q.long = FALSE /\ q.at = next
        /\ q.imm = Field(target - q.at, ins.op)
    BY <1>1, <1>3
  <2>2. Emit(q, next + 1) /\ ~is_in_fixing_range(absolute_addr(ins, here))
    BY <1>5
  <2> HIDE DEF r, q
  <2>3. /\ -(Span(ins.op) \div 2) <= absolute_addr(ins, here) - q.at
        /\ absolute_addr(ins, here) - q.at < Span(ins.op) \div 2
    BY <2>1, <2>2
  <2> QED
    BY <1>5, <2>1, <2>2, <2>3, FieldRight DEF Relocatable
<1>6. CASE /\ is_in_fixing_range(target) /\ ref <= current_idx
           /\ Emit(r(CopyOf(ref)), next + 1) /\ UNCHANGED pending
  <2>1. ref \in 1 .. Len(copied) + 1
    BY <1>1, <1>2, <1>6 DEF is_in_fixing_range, get_ref_ins_index, current_idx
  <2>2. CopyOf(ref) \in Int
    BY <1>2, <2>1 DEF current_idx, Emitted
  <2> DEFINE q == r(CopyOf(ref))
  <2>3. /\ q \in Emitted /\ InReach(q) /\ q.ins = ins /\ q.long = FALSE /\ q.at = next
        /\ q.start = next /\ q.imm = Field(CopyOf(ref) - next, ins.op)
    BY <1>3, <2>2
  <2>4. CopyOf(ref) = IF ref = current_idx THEN q.start ELSE copied[ref].start
    BY <2>3
  <2> HIDE DEF r, q, CopyOf
  <2>8. ~NotedWritten(q)
    BY <2>3 DEF NotedWritten
  <2>5. ASSUME ref = current_idx \/ ~NotedWritten(copied[ref])
        PROVE  /\ CopyOf(ref) - next \in Int
               /\ -(Span(ins.op) \div 2) <= CopyOf(ref) - next
               /\ CopyOf(ref) - next < Span(ins.op) \div 2
    <3>1. CASE ref = current_idx
      BY <2>3, <2>4, <2>8, <3>1, CopiesNear
    <3>2. CASE ref # current_idx
      <4>1. copied[ref] \in Emitted /\ InReach(copied[ref])
        BY <1>2, <2>1, <3>2 DEF Arr, current_idx
      <4> QED
        BY <2>3, <2>4, <2>5, <3>2, <4>1, CopiesNear
    <3> QED
      BY <3>1, <3>2
  <2>6. ref = current_idx \/ ~NotedWritten(copied[ref]) =>
          q.at + SignExtended(q.imm, q.ins.op) = CopyOf(ref)
    <3> SUFFICES ASSUME ref = current_idx \/ ~NotedWritten(copied[ref])
                 PROVE  q.at + SignExtended(q.imm, q.ins.op) = CopyOf(ref)
      OBVIOUS
    <3> DEFINE d == CopyOf(ref) - next
    <3>1. SignExtended(Field(d, ins.op), ins.op) = d
      <4> HIDE DEF d
      <4> QED
        BY <2>5, FieldKeeps DEF d
    <3> QED
      BY <1>2, <2>2, <2>3, <3>1
  <2>7. Right(q)
    <3> HIDE DEF target, ref
    <3> QED
      BY <1>1, <1>6, <2>3, <2>4, <2>6 DEF Right, ref
  <2> QED
    BY <1>6, <2>3, <2>7 DEF EmitsRight, q
<1>7. CASE /\ is_in_fixing_range(target) /\ ref > current_idx
           /\ pending' = pending \cup {<<current_idx, ref>>}
           /\ Emit(r(next), next + 1)
  <2> DEFINE q == r(next)
  <2>1. q \in Emitted /\ InReach(q) /\ q.ins = ins /\ q.long = FALSE
    <3>1. next \in Int
      BY <1>2
    <3> HIDE DEF r
    <3> QED
      BY <1>3, <3>1
  <2> HIDE DEF r, q
  <2>2. Right(q)
    <3> HIDE DEF target
    <3> QED
      BY <1>1, <1>7, <2>1 DEF Right
  <2> QED
    BY <1>7, <2>1, <2>2 DEF EmitsRight, q
<1> QED
  BY <1>4, <1>5, <1>6, <1>7
-----------------------------------------------------------------------------
\* Every step of the loop emits a right copy.
LEMMA FixBranchImmRight ==
  ASSUME IInv, Arr, Len(copied) < Count, Relocatable,
         NEW ins \in Instrs, FixBranchImm(ins)
  PROVE  EmitsRight
<1> DEFINE target == absolute_addr(ins, here)
           words == IF ins.op = "b" THEN 2 ELSE 3
           at == next + Padding(next + words, 2)
           far == /\ ~is_in_fixing_range(target)
                  /\ Abs(target - next) >= Span(ins.op) \div 2 - 1
<1>0. Span(ins.op) \div 2 = 33554432
  BY SMT DEF FixBranchImm, Span
<1>1. ins.op \in PcRelative /\ ins.op # "adrp"
  BY DEF FixBranchImm, PcRelative, Branches
<1>2. next \in Nat /\ Rx \in Nat /\ Rx <= next /\ next <= Rx + 36 /\ target \in Int
  BY Here, absolute_addrInt
<1>3. at \in Nat /\ next <= at /\ at <= next + 1
  <2>1. words \in Nat
    OBVIOUS
  <2> HIDE DEF words
  <2> QED
    BY <1>2, <2>1, Padded
<1>4. Near(at, Rx)
  BY <1>2, <1>3 DEF Near, TrampolineSize, MaxInstructions
<1>5. \/ Emit(Record(ins, at, at, TRUE, target), at + words + 2) /\ UNCHANGED pending
      \/ ~far /\ EmitNear(ins, target)
  BY DEF FixBranchImm
<1>6. CASE Emit(Record(ins, at, at, TRUE, target), at + words + 2) /\ UNCHANGED pending
  <2> HIDE DEF at
  <2> QED
    BY <1>1, <1>3, <1>4, <1>6, LongRight DEF Relocatable
<1>7. CASE ~far /\ EmitNear(ins, target)
  <2>1. ~is_in_fixing_range(target) =>
          /\ -(Span(ins.op) \div 2) <= target - next
          /\ target - next < Span(ins.op) \div 2
    <3> HIDE DEF target
    <3> QED
      BY <1>0, <1>2, <1>7, SMT DEF Abs
  <2> QED
    BY <1>1, <1>7, <2>1, NearRight
<1> QED
  BY <1>5, <1>6, <1>7

LEMMA FixCondCompTestBranchRight ==
  ASSUME IInv, Arr, Len(copied) < Count, Relocatable,
         NEW ins \in Instrs, FixCondCompTestBranch(ins)
  PROVE  EmitsRight
<1> DEFINE target == absolute_addr(ins, here)
           at == next + Padding(next + 4, 2)
           far == /\ ~is_in_fixing_range(target)
                  /\ Abs(target - next) >= Span(ins.op) \div 2 - 1
<1>0. Span(ins.op) \div 2 \in {262144, 8192}
  BY SMT DEF FixCondCompTestBranch, Conds, Branches, Loads, Span
<1>1. ins.op \in PcRelative /\ ins.op # "adrp"
  BY DEF FixCondCompTestBranch, PcRelative, Conds
<1>2. next \in Nat /\ Rx \in Nat /\ Rx <= next /\ next <= Rx + 36 /\ target \in Int
  BY Here, absolute_addrInt
<1>3. at \in Nat /\ next <= at /\ at <= next + 1
  BY <1>2, Padded
<1>4. Near(at, Rx) /\ Near(next, Rx)
  BY <1>2, <1>3 DEF Near, TrampolineSize, MaxInstructions
<1>5. \/ Emit(Record(ins, next, at, TRUE, target), at + 6) /\ UNCHANGED pending
      \/ ~far /\ EmitNear(ins, target)
  BY DEF FixCondCompTestBranch
<1>6. CASE Emit(Record(ins, next, at, TRUE, target), at + 6) /\ UNCHANGED pending
  <2> HIDE DEF at
  <2> QED
    BY <1>1, <1>2, <1>3, <1>4, <1>6, LongRight DEF Relocatable
<1>7. CASE ~far /\ EmitNear(ins, target)
  <2>1. ~is_in_fixing_range(target) =>
          /\ -(Span(ins.op) \div 2) <= target - next
          /\ target - next < Span(ins.op) \div 2
    <3> HIDE DEF target
    <3> QED
      BY <1>0, <1>2, <1>7, SMT DEF Abs
  <2> QED
    BY <1>1, <1>7, <2>1, NearRight
<1> QED
  BY <1>5, <1>6, <1>7

LEMMA FixLoadLitRight ==
  ASSUME IInv, Arr, Len(copied) < Count, Relocatable,
         NEW ins \in Instrs, FixLoadLit(ins)
  PROVE  EmitsRight
<1> DEFINE target == absolute_addr(ins, here)
           size == LiteralWords(ins)
           gap == (target - next) % size
           far == \/ is_in_fixing_range(target)
                  \/ Abs(target - next) + size - 1 >= Span(ins.op) \div 2 - 1
           atFar == next + Padding(next + 2, size)
           atNear == next + gap
           near == Record(ins, atNear, atNear, FALSE, target)
           bits == IF target < atNear THEN ins.bits \cup Unmasked(ins.op)
                   ELSE ins.bits
           kept == [near EXCEPT !.bits = bits]
<1>0. Span(ins.op) \div 2 = 262144
  BY SMT DEF FixLoadLit, Loads, Branches, Span
<1>1. ins.op \in PcRelative /\ ins.op # "adrp" /\ ins.op \in Loads
  BY DEF FixLoadLit, PcRelative, Loads
<1>2. /\ next \in Nat /\ Rx \in Nat /\ Rx <= next /\ next <= Rx + 36 /\ target \in Int
      /\ size \in {1, 2, 4}
  BY Here, absolute_addrInt, LiteralWordsBounds
<1>3. atFar \in Nat /\ next <= atFar /\ atFar <= next + 3
  <2>1. Padding(next + 2, size) \in 0 .. size - 1
    <3>1. next + 2 \in Nat
      BY <1>2
    <3> QED
      BY <1>2, <3>1, PaddingBounds
  <2> HIDE DEF size
  <2> QED
    BY <1>2, <2>1
<1>4. gap \in 0 .. size - 1
  <2> HIDE DEF target, size
  <2>1. CASE size = 1
    BY <1>2, <2>1
  <2>2. CASE size = 2
    BY <1>2, <2>2
  <2>3. CASE size = 4
    BY <1>2, <2>3
  <2> QED
    BY <1>2, <2>1, <2>2, <2>3
<1>5. \/ Emit(Record(ins, atFar, atFar, TRUE, target), atFar + 2 + size)
      \/ ~far /\ Emit(kept, atNear + 1)
  BY DEF FixLoadLit
<1>6. UNCHANGED pending
  BY DEF FixLoadLit
<1>7. CASE Emit(Record(ins, atFar, atFar, TRUE, target), atFar + 2 + size)
  <2>1. Near(atFar, Rx)
    BY <1>2, <1>3 DEF Near, TrampolineSize, MaxInstructions
  <2> HIDE DEF atFar, size
  <2> QED
    BY <1>1, <1>3, <1>6, <1>7, <2>1, LongRight DEF Relocatable
<1>8. CASE ~far /\ Emit(kept, atNear + 1)
  <2>1. atNear \in Nat /\ next <= atNear /\ atNear <= next + 3
    <3> HIDE DEF gap, size
    <3> QED
      BY <1>2, <1>4
  <2>2. near \in Emitted
    BY <1>2, <2>1, RecordTyped
  <2>3. /\ near.ins = ins /\ near.long = FALSE /\ near.at = atNear /\ near.start = atNear
        /\ near.imm = Field(target - atNear, ins.op)
    BY DEF Record
  <2>4. bits \in SUBSET {30, 31}
    <3>1. Unmasked(ins.op) \in SUBSET {30, 31}
      BY <1>1 DEF Unmasked, Loads
    <3> QED
      BY <3>1, InstrTypes
  <2>5. /\ -(Span(ins.op) \div 2) <= target - atNear
        /\ target - atNear < Span(ins.op) \div 2
    <3> HIDE DEF target, size, gap
    <3>1. Abs(target - next) + size - 1 < 262144 - 1
      BY <1>0, <1>2, <1>8, SMT DEF Abs
    <3> QED
      BY <1>0, <1>2, <1>4, <3>1, SMT DEF Abs
  <2>6. ~is_in_fixing_range(target)
    BY <1>8
  <2>7. Near(atNear, Rx)
    BY <1>2, <2>1 DEF Near, TrampolineSize, MaxInstructions
  <2> HIDE DEF near, bits, gap
  <2>8. /\ kept \in Emitted /\ kept.ins = ins /\ kept.long = FALSE
        /\ kept.at = atNear /\ kept.start = atNear
        /\ kept.imm = Field(target - atNear, ins.op)
    <3> DEFINE imms == 0 .. Span("b") - 1
    <3>1. Emitted = [ins : Instrs, from : Nat, start : Nat, at : Nat,
                     long : BOOLEAN, target : Int, imm : imms,
                     bits : SUBSET {30, 31}, rd : SUBSET {3, 4}]
      BY DEF Emitted
    <3> HIDE DEF imms, target, atNear
    <3> QED
      BY <2>2, <2>3, <2>4, <3>1
  <2>9. InReach(kept)
    <3> HIDE DEF kept, atNear
    <3> QED
      BY <2>7, <2>8 DEF InReach
  <2> HIDE DEF kept, atNear
  <2> QED
    BY <1>1, <1>6, <1>8, <2>5, <2>6, <2>8, <2>9, FieldRight DEF Relocatable
<1> QED
  BY <1>5, <1>7, <1>8

LEMMA PlainRight ==
  ASSUME IInv, Len(copied) < Count, NEW ins \in Instrs, FixPrefetch(ins) \/ Copy(ins)
  PROVE  EmitsRight
<1> DEFINE r == Record(ins, next, next, FALSE, next)
<1>1. next \in Nat /\ next \in Int /\ Rx \in Nat /\ Rx <= next /\ next <= Rx + 36
  BY Here
<1>2. r \in Emitted
  BY <1>1, RecordTyped
<1>3. r.ins = ins /\ r.at = next /\ r.start = next
  BY DEF Record
<1>4. ins.op \notin PcRelative /\ UNCHANGED pending
  BY DEF FixPrefetch, Copy, PcRelative, Branches, Conds, Loads
<1>5. Emit(r, next) \/ Emit(r, next + 1)
  BY DEF FixPrefetch, Copy
<1>6. Near(next, Rx)
  BY <1>1 DEF Near, TrampolineSize, MaxInstructions
<1> HIDE DEF r
<1>7. Right(r) /\ InReach(r)
  BY <1>3, <1>4, <1>6 DEF Right, InReach
<1> QED
  BY <1>2, <1>5, <1>7 DEF EmitsRight

LEMMA FixAdrRight ==
  ASSUME IInv, Arr, Len(copied) < Count, Relocatable, NEW ins \in Instrs, FixAdr(ins)
  PROVE  EmitsRight
<1> DEFINE target == absolute_addr(ins, here)
           inside == is_in_fixing_range(target)
           words == target - next
           short == /\ Abs(words) <= Span("adr") \div 2
                    /\ Abs(4 * words + LowBytes(ins)) < ByteReach
           at == next + Padding(next + 2, 2)
           near == Record(ins, next, next, FALSE, target)
           rd == ins.rd \cup {b + 3 : b \in ins.low}
           kept == [near EXCEPT !.rd = rd]
<1>0. Span(ins.op) \div 2 = 262144 /\ Span("adr") \div 2 = 262144
  BY SMT DEF FixAdr, Branches, Span, Loads
<1>1. ins.op = "adr" /\ ins.op \in PcRelative /\ ins.op # "adrp"
  BY DEF FixAdr, PcRelative
<1>2. next \in Nat /\ Rx \in Nat /\ Rx <= next /\ next <= Rx + 36 /\ target \in Int
  BY Here, absolute_addrInt
<1>3. at \in Nat /\ next <= at /\ at <= next + 1
  BY <1>2, Padded
<1>4. Near(at, Rx) /\ Near(next, Rx)
  BY <1>2, <1>3 DEF Near, TrampolineSize, MaxInstructions
<1>5. \/ Emit(Record(ins, at, at, TRUE, target), at + 4) /\ UNCHANGED pending
      \/ inside /\ EmitNear(ins, target)
      \/ short /\ ~inside /\ Emit(kept, next + 1) /\ UNCHANGED pending
  BY DEF FixAdr
<1>6. CASE Emit(Record(ins, at, at, TRUE, target), at + 4) /\ UNCHANGED pending
  <2> HIDE DEF at
  <2> QED
    BY <1>1, <1>3, <1>4, <1>6, LongRight DEF Relocatable
<1>7. CASE inside /\ EmitNear(ins, target)
  BY <1>1, <1>7, NearRight
<1>8. CASE short /\ ~inside /\ Emit(kept, next + 1) /\ UNCHANGED pending
  <2>1. near \in Emitted
    BY <1>2, RecordTyped
  <2>2. /\ near.ins = ins /\ near.long = FALSE /\ near.at = next /\ near.start = next
        /\ near.imm = Field(target - next, ins.op)
    BY DEF Record
  <2>3. rd \in SUBSET {3, 4}
    BY InstrTypes
  <2>4. /\ -(Span(ins.op) \div 2) <= target - next
        /\ target - next < Span(ins.op) \div 2
    <3>1. LowBytes(ins) \in 0 .. 3
      BY DEF LowBytes
    <3>2. words \in Int /\ Abs(words) <= 262144 /\ Abs(4 * words + LowBytes(ins)) < 1048575
      BY <1>0, <1>2, <1>8, SMT DEF ByteReach
    <3> DEFINE low == LowBytes(ins)
    <3> HIDE DEF target, low
    <3>3. words < 262144 /\ -262144 <= words
      BY <1>2, <3>1, <3>2, SMT DEF Abs, low
    <3> QED
      BY <1>0, <3>3, SMT
  <2> HIDE DEF near, rd
  <2>5. /\ kept \in Emitted /\ kept.ins = ins /\ kept.long = FALSE
        /\ kept.at = next /\ kept.start = next
        /\ kept.imm = Field(target - next, ins.op)
    <3> DEFINE imms == 0 .. Span("b") - 1
    <3>1. Emitted = [ins : Instrs, from : Nat, start : Nat, at : Nat,
                     long : BOOLEAN, target : Int, imm : imms,
                     bits : SUBSET {30, 31}, rd : SUBSET {3, 4}]
      BY DEF Emitted
    <3> HIDE DEF imms, target
    <3> QED
      BY <2>1, <2>2, <2>3, <3>1
  <2>6. InReach(kept)
    <3> HIDE DEF kept
    <3> QED
      BY <1>4, <2>5 DEF InReach
  <2> HIDE DEF kept
  <2> QED
    BY <1>1, <1>8, <2>4, <2>5, <2>6, FieldRight DEF Relocatable
<1> QED
  BY <1>5, <1>6, <1>7, <1>8

LEMMA FixAdrpRight ==
  ASSUME IInv, Arr, Len(copied) < Count, Relocatable, NEW ins \in Instrs, FixAdrp(ins)
  PROVE  EmitsRight
<1> DEFINE target == absolute_addr(ins, here)
           written == Rw + (next - Rx)
           at == next + Padding(next + 2, 2)
           start == IF at = next THEN written ELSE at
<1>1. ins.op = "adrp" /\ ins.op \in PcRelative
  BY DEF FixAdrp, PcRelative
<1>2. /\ next \in Nat /\ Rx \in Nat /\ Rw \in Nat /\ Rx <= next /\ next <= Rx + 36
  BY Here
<1>3. ~is_in_fixing_range(target)
  <2>1. target = PointsTo(ins, here)
    BY Here, <1>1, TargetRight DEF Relocatable
  <2> QED
    BY Here, <1>1, <2>1 DEF Relocatable, AdrpLeaves
<1>4. at \in Nat /\ next <= at /\ at <= next + 1
  BY <1>2, Padded
<1>5. written \in Nat /\ Near(at, Rx)
  BY <1>2, <1>4 DEF Near, TrampolineSize, MaxInstructions
<1>6. Emit(Record(ins, start, at, TRUE, target), at + 4) /\ UNCHANGED pending
  BY <1>3 DEF FixAdrp
<1>7. start \in Nat /\ (Near(start, Rx) \/ at = next)
  BY <1>4, <1>5
<1> HIDE DEF at, start
<1> QED
  BY <1>1, <1>4, <1>5, <1>6, <1>7, LongRight DEF Relocatable

(***************************************************************************)
(* If the instructions point forward, and no ADRP into what is copied, a   *)
(* finished trampoline branches to, loads from and computes what the       *)
(* original instructions did, and a reference to a copied one enters its   *)
(* copy in the alias that runs, but for one to an ADRP without a NOP.  In  *)
(* Arr, a copy that refers to one still to come is known to wait for it;   *)
(* fmap's entry is what mends it, with the place that StartsAtCopy is      *)
(* about.  Wherever the other alias lies, nothing else refers to it.       *)
(***************************************************************************)
THEOREM TargetsArrive ==
  ASSUME Relocatable
  PROVE  Spec => []TargetsKept
<1>1. Init => Arr
  BY DEF Init, Arr, Waits
<1>2. IInv /\ Arr /\ [Next]_vars => Arr'
  <2> SUFFICES ASSUME IInv, Arr, [Next]_vars
               PROVE  Arr'
    OBVIOUS
  <2>1. ASSUME NEW ins \in Instrs, FixNext(ins)
        PROVE  Arr'
    <3>1. Len(copied) < Count
      BY <2>1 DEF FixNext
    <3>2. EmitsRight
      BY <2>1, <3>1, FixBranchImmRight, FixCondCompTestBranchRight, FixLoadLitRight,
         PlainRight, FixAdrRight, FixAdrpRight DEF FixNext
    <3> QED
      BY <3>1, <3>2, RightStep DEF EmitsRight
  <2>2. CASE UNCHANGED <<copied, pending>>
    <3>1. copied' = copied /\ pending' = pending
      BY <2>2
    <3> QED
      BY <3>1 DEF Arr, Waits, Arrives, Inside, Ref, Target, NowPointsTo, NotedWritten
  <2> QED
    BY <2>1, <2>2 DEF Next, JumpBack, vars
<1>3. IInv /\ Arr /\ StartsAtCopy => TargetsKept
  <2> SUFFICES ASSUME IInv, Arr, StartsAtCopy, done,
                      NEW k \in 1 .. Count, copied[k].ins.op \in PcRelative
               PROVE  Kept(k) \/ (Inside(k) /\ NotedWritten(copied[Ref(k)]))
    BY DEF TargetsKept
  <2>1. Len(copied) = Count /\ Count \in 1 .. 5 /\ Base \in Nat
    BY CountBounds, PlaceAssumption DEF IInv, AllCopied
  <2>2. copied[k].ins \in Instrs
    <3>1. copied[k] \in Emitted
      BY <2>1 DEF IInv, TypeOK
    <3> QED
      BY <3>1 DEF Emitted
  <2>3. Target(k) \in Int
    BY <2>1, <2>2, PointsToInt DEF Target
  <2>4. Inside(k) => Ref(k) \in 1 .. Len(copied)
    BY <2>1, <2>3 DEF Inside, Ref, is_in_fixing_range, get_ref_ins_index
  <2>5. Arrives(k)
    BY <2>1 DEF Arr
  <2>6. CASE ~Inside(k)
    BY <2>5, <2>6 DEF Arrives, Kept
  <2>7. CASE Inside(k) /\ ~NotedWritten(copied[Ref(k)])
    <3>1. NowPointsTo(k) = copied[Ref(k)].start
      BY <2>4, <2>5, <2>7 DEF Arrives
    <3>2. copied[Ref(k)].start \in Entries(Ref(k))
      BY <2>4, <2>7 DEF StartsAtCopy
    <3> QED
      BY <2>7, <3>1, <3>2 DEF Kept
  <2> QED
    BY <2>6, <2>7
<1> QED
  BY <1>1, <1>2, <1>3, Invariance, ReferencesArrive, PTL DEF Spec
=============================================================================
