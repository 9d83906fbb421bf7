---------------------------- MODULE Startup_proofs ----------------------------
(***************************************************************************)
(* The scan of the memory map finds every module, for any map it accepts;  *)
(* the slots of the pool of trampolines stay apart, for any plan of hooks  *)
(* that is no longer than the pool; and calls go through their callbacks   *)
(* and then the function, for any such plan, wherever the functions lie.   *)
(***************************************************************************)
EXTENDS Startup, FiniteSetTheorems, SequenceTheorems, WellFoundedInduction, TLAPS

\* Hook h has slot h - 1, and the counter is at the last slot given away.
Slots ==
  /\ installed \in 0 .. Len(Plan)
  /\ index = installed - 1
  /\ OrigRef \in [Hook -> Place]
  /\ \A h \in 1 .. installed : OrigRef[h] = Slot(h - 1, 0)

USE HookMaxAssumption, PlanAssumption

LEMMA PlanLength == Len(Plan) \in Nat /\ Hook = 1 .. Len(Plan)
BY DEF Hook

\* Slots and places of no word are places.
LEMMA Places ==
  /\ Nowhere \in Place
  /\ \A k \in Int : Slot(k, 0) \in Place /\ Slot(k, 0).of = k
<1>1. Nowhere \in Place
  BY DEF Nowhere, Place
<1>2. ASSUME NEW k \in Int
      PROVE  Slot(k, 0) \in Place /\ Slot(k, 0).of = k
  BY <1>2 DEF Slot, Place
<1> QED
  BY <1>1, <1>2

LEMMA SlotsFirst == Init => Slots
BY PlanLength, Places DEF Init, HookInit, Slots, NoSlotYet

\* A hook takes the next slot; a start that aborts and a game that runs take none.
LEMMA SlotsStep ==
  ASSUME Slots, [Next]_vars
  PROVE  Slots'
<1>1. CASE UNCHANGED <<installed, index, OrigRef>>
  BY <1>1 DEF Slots
<1>2. CASE Install /\ ~UNCHANGED <<installed, index, OrigRef>>
  <2>1. /\ installed < Len(Plan)
        /\ index' = index + 1
        /\ OrigRef' = [OrigRef EXCEPT ![installed + 1] = Slot(index', 0)]
        /\ installed' = installed + 1
    BY <1>2 DEF Install, Abort, AllocForTrampoline
  <2>2. /\ installed' \in 0 .. Len(Plan) /\ installed + 1 \in Hook
        /\ index' = installed /\ index' \in Int
    BY <2>1, PlanLength DEF Slots
  <2>3. OrigRef' \in [Hook -> Place]
    BY <2>1, <2>2, Places DEF Slots
  <2>4. \A h \in 1 .. installed' : OrigRef'[h] = Slot(h - 1, 0)
    <3>1. TAKE h \in 1 .. installed'
    <3>2. h \in Hook
      BY <2>2, PlanLength
    <3>3. CASE h = installed + 1
      <4>1. OrigRef'[h] = Slot(index', 0)
        BY <2>1, <2>2, <3>3 DEF Slots
      <4> QED
        BY <2>2, <3>3, <4>1 DEF Slots
    <3>4. CASE h # installed + 1
      <4>1. OrigRef'[h] = OrigRef[h] /\ h \in 1 .. installed
        BY <2>1, <2>2, <3>2, <3>4 DEF Slots
      <4> QED
        BY <4>1 DEF Slots
    <3> QED
      BY <3>3, <3>4
  <2> QED
    BY <2>1, <2>2, <2>3, <2>4 DEF Slots
<1>3. \/ UNCHANGED <<installed, index, OrigRef>>
      \/ Install
  <2>1. CASE FindModules
    BY <2>1 DEF FindModules, unhooked, hookVars
  <2>2. CASE InitPatcherImpl
    BY <2>2 DEF InitPatcherImpl, unhooked, hookVars, Abort
  <2>3. CASE Initialize
    BY <2>3 DEF Initialize, unhooked, hookVars, Abort
  <2>4. CASE InstallHooks
    BY <2>4 DEF InstallHooks
  <2>5. CASE Game
    BY <2>5 DEF Game, Call, hookVars
  <2>6. CASE Calls
    BY <2>6 DEF Calls, Run, Execute, RunCallback, hookVars
  <2>7. CASE UNCHANGED vars
    BY <2>7 DEF vars, hookVars
  <2> QED
    BY <2>1, <2>2, <2>3, <2>4, <2>5, <2>6, <2>7 DEF Next
<1> QED
  BY <1>1, <1>2, <1>3

(***************************************************************************)
(* No two trampolines overlap or leave the pool, whichever hooks a program *)
(* installs, as long as it installs no more than HookMax: the bound that   *)
(* AllocForTrampoline checks is one too high, and is not what keeps them   *)
(* apart.                                                                  *)
(***************************************************************************)
THEOREM SlotsStayApart == Spec => []SlotsApart
<1>1. Slots => SlotsApart
  <2> SUFFICES ASSUME Slots, NEW h \in 1 .. installed
              PROVE  /\ OrigRef[h].of < HookMax
                     /\ \A g \in 1 .. h - 1 : OrigRef[g].of # OrigRef[h].of
    BY DEF SlotsApart
  <2>1. /\ installed \in 0 .. Len(Plan)
        /\ \A g \in 1 .. installed : OrigRef[g].of = g - 1
    BY Places, PlanLength DEF Slots
  <2>2. h - 1 < HookMax /\ h \in 1 .. installed
    BY <2>1, PlanLength
  <2>3. OrigRef[h].of = h - 1
    BY <2>1, <2>2
  <2>4. ASSUME NEW g \in 1 .. h - 1
        PROVE  OrigRef[g].of = g - 1 /\ g - 1 # h - 1
    <3>1. g \in 1 .. installed /\ g # h
      BY <2>1, PlanLength
    <3>2. OrigRef[g].of = g - 1
      BY <2>1, <3>1
    <3>3. g - 1 # h - 1
      BY <2>1, <3>1, PlanLength
    <3> QED
      BY <3>2, <3>3
  <2> QED
    BY <2>2, <2>3, <2>4
<1> QED
  BY <1>1, SlotsFirst, SlotsStep, PTL DEF Spec

-----------------------------------------------------------------------------
(***************************************************************************)
(* The scan.  A module is known by its first region; of those whose last   *)
(* region has been passed, all that are not cut have been found.           *)
(***************************************************************************)
Passed(n) == {i \in Begins(map) : i + 2 < n}

\* What curModInfo holds, and that an uncut module that is not passed is the one
\* in it or begins at the next region or later.
Collected ==
  /\ state = "LookingForCodeStatic" =>
       /\ curModInfo = << >>
       /\ \A i \in Uncut : i < at => i + 2 < at
  /\ state = "ExpectingRodata" =>
       /\ curModInfo = <<at - 1>>
       /\ at - 1 \in DOMAIN map /\ map[at - 1].kind = "rx"
       /\ \A i \in Uncut : i < at - 1 => i + 2 < at
  /\ state = "ExpectingData" =>
       /\ curModInfo = <<at - 2, at - 1>>
       /\ at - 2 \in DOMAIN map /\ map[at - 2].kind = "rx"
       /\ at - 1 \in DOMAIN map /\ map[at - 1].kind = "r"
       /\ \A i \in Uncut : i < at - 2 => i + 2 < at

\* The modules found are among those passed, none missing that is not cut, in
\* order.
Found ==
  /\ s_ModuleInfos \in Seq(Seq(Int))
  /\ \A j \in DOMAIN s_ModuleInfos :
       \E i \in Passed(at) : s_ModuleInfos[j] = Whole(i)
  /\ \A i \in Passed(at) \cap Uncut :
       \E j \in DOMAIN s_ModuleInfos : s_ModuleInfos[j] = Whole(i)
  /\ \A j, k \in DOMAIN s_ModuleInfos :
       j < k => s_ModuleInfos[j][1] < s_ModuleInfos[k][1]
  /\ Len(s_ModuleInfos) <= Cardinality(Passed(at))

\* Which of them this one is.
Own ==
  /\ s_SelfModuleIdx = -1 => \A i \in Passed(at) \cap Uncut : map[i].of # Self
  /\ s_SelfModuleIdx # -1 =>
       /\ s_SelfModuleIdx + 1 \in DOMAIN s_ModuleInfos
       /\ map[s_ModuleInfos[s_SelfModuleIdx + 1][1]].of = Self

ScanInv ==
  /\ map \in Maps /\ at \in 1 .. Len(map) + 2 /\ s_SelfModuleIdx \in Int
  /\ Collected /\ Found /\ Own
  /\ state = "found" => Wrapped /\ s_SelfModuleIdx # -1
  /\ state = "aborted" =>
       Cardinality(Begins(map)) >= s_MaxModules \/ NotSeen

LEMMA Pair ==
  ASSUME NEW a \in Int, NEW b \in Int
  PROVE  Append(<<a>>, b) = <<a, b>>
<1>1. <<a>> \in Seq(Int) /\ Len(<<a>>) = 1
  OBVIOUS
<1>2. <<a, b>> \in Seq(Int) /\ Len(<<a, b>>) = 2
  OBVIOUS
<1>3. Append(<<a>>, b) \in Seq(Int) /\ Len(Append(<<a>>, b)) = 2
  BY <1>1, AppendProperties
<1>4. \A i \in 1 .. 2 : Append(<<a>>, b)[i] = <<a, b>>[i]
  BY <1>1, AppendProperties
<1> QED
  BY <1>2, <1>3, <1>4, SeqEqual

LEMMA Triple ==
  ASSUME NEW a \in Int, NEW b \in Int, NEW c \in Int
  PROVE  /\ Append(<<a, b>>, c) = <<a, b, c>>
         /\ <<a, b, c>> \in Seq(Int) /\ <<a, b, c>>[1] = a
<1>1. <<a, b>> \in Seq(Int) /\ Len(<<a, b>>) = 2
  OBVIOUS
<1>2. <<a, b, c>> \in Seq(Int) /\ Len(<<a, b, c>>) = 3
  OBVIOUS
<1>3. Append(<<a, b>>, c) \in Seq(Int) /\ Len(Append(<<a, b>>, c)) = 3
  BY <1>1, AppendProperties
<1>4. \A i \in 1 .. 3 : Append(<<a, b>>, c)[i] = <<a, b, c>>[i]
  BY <1>1, AppendProperties
<1> QED
  BY <1>2, <1>3, <1>4, SeqEqual

\* The map: its regions are of the four kinds, and the first one is no code.
LEMMA MapType ==
  ASSUME map \in Maps
  PROVE  /\ Len(map) \in Nat /\ Len(map) > 0 /\ DOMAIN map = 1 .. Len(map)
         /\ map[1].kind = "other"
         /\ \A i \in Begins(map) :
              /\ i \in 1 .. Len(map) - 2
              /\ map[i].kind = "rx" /\ map[i + 1].kind = "r"
              /\ map[i + 2].kind = "rw"
         /\ \A i \in 1 .. Len(map) - 2 :
              map[i].kind = "rx" /\ map[i + 1].kind = "r"
                /\ map[i + 2].kind = "rw" => i \in Begins(map)
<1>1. map \in Seq([kind : Kind, of : STRING]) /\ map # << >>
      /\ map[1].kind = "other"
  BY MapsAssumption
<1>2. Len(map) \in Nat /\ DOMAIN map = 1 .. Len(map) /\ Len(map) # 0
  BY <1>1, LenProperties, EmptySeq
<1> QED
  BY <1>1, <1>2 DEF Begins

\* Few enough to count.
LEMMA PassedCounts ==
  ASSUME map \in Maps, NEW n \in Int
  PROVE  /\ IsFiniteSet(Begins(map)) /\ IsFiniteSet(Passed(n))
         /\ Cardinality(Passed(n)) <= Cardinality(Begins(map))
         /\ Cardinality(Begins(map)) \in Nat
<1>1. IsFiniteSet(1 .. Len(map) - 2)
  BY MapType, FS_Interval
<1>2. Begins(map) \in SUBSET (1 .. Len(map) - 2)
  BY DEF Begins
<1>3. IsFiniteSet(Begins(map))
  BY <1>1, <1>2, FS_Subset
<1>4. Passed(n) \in SUBSET Begins(map)
  BY DEF Passed
<1>5. IsFiniteSet(Passed(n)) /\ Cardinality(Passed(n)) <= Cardinality(Begins(map))
  BY <1>3, <1>4, FS_Subset
<1>6. Cardinality(Begins(map)) \in Nat
  BY <1>3, FS_CardinalityType
<1> QED
  BY <1>3, <1>5, <1>6

\* The map stays as it is, and so do its modules.
LEMMA MapKeeps ==
  ASSUME map' = map
  PROVE  /\ Begins(map') = Begins(map) /\ Uncut' = Uncut
         /\ Uncut \subseteq Begins(map) /\ (NotSeen <=> NotSeen')
<1>1. \A i : Cut(i) <=> Cut(i)'
  BY DEF Cut
<1>2. Begins(map') = Begins(map)
  OBVIOUS
<1>3. Uncut' = Uncut /\ Uncut \subseteq Begins(map)
  BY <1>1, <1>2 DEF Uncut
<1> QED
  BY <1>2, <1>3 DEF NotSeen

LEMMA ScanFirst == Init => ScanInv
<1> SUFFICES ASSUME Init PROVE ScanInv
  OBVIOUS
<1>1. /\ map \in Maps /\ at = 1 /\ state = "LookingForCodeStatic"
      /\ curModInfo = << >> /\ s_ModuleInfos = << >> /\ s_SelfModuleIdx = -1
  BY DEF Init, ScanInit
<1>2. at \in 1 .. Len(map) + 2
  BY <1>1, MapType
<1>3. Passed(at) = {}
  BY <1>1, MapType DEF Passed
<1>4. Collected
  BY <1>1, MapType DEF Collected, Uncut
<1>5. Found
  <2>1. s_ModuleInfos \in Seq(Seq(Int)) /\ Len(s_ModuleInfos) = 0
        /\ DOMAIN s_ModuleInfos = {}
    BY <1>1, EmptySeq
  <2> QED
    BY <1>3, <2>1, FS_EmptySet DEF Found
<1>6. Own
  BY <1>1, <1>3 DEF Own
<1> QED
  BY <1>1, <1>2, <1>4, <1>5, <1>6 DEF ScanInv

\* A region that completes no module the scan has seen: one that is cut may be
\* passed all the same.
LEMMA NothingPassed ==
  ASSUME ScanInv, map' = map, at' = at + 1, at <= Len(map) + 1,
         UNCHANGED <<s_ModuleInfos, s_SelfModuleIdx>>,
         at - 2 \notin Uncut
  PROVE  at' \in 1 .. Len(map') + 2 /\ Found' /\ Own'
<1>1. at \in Int /\ Len(map) \in Nat /\ map \in Maps /\ at' \in Int
  BY MapType DEF ScanInv
<1>2. /\ Begins(map') = Begins(map) /\ Uncut' = Uncut
      /\ Uncut \subseteq Begins(map) /\ \A i \in Begins(map) : i \in Int
  BY MapType, MapKeeps DEF ScanInv
<1>3. Passed(at) \subseteq Passed(at)'
  BY <1>1, <1>2 DEF Passed
<1>4. Passed(at)' \cap Uncut' = Passed(at) \cap Uncut
  BY <1>1, <1>2 DEF Passed
<1>5. Len(s_ModuleInfos) <= Cardinality(Passed(at)')
  <2>1. Passed(at)' = Passed(at') /\ IsFiniteSet(Passed(at'))
    BY <1>1, PassedCounts DEF Passed
  <2>2. /\ Cardinality(Passed(at)) <= Cardinality(Passed(at)')
        /\ Cardinality(Passed(at)) \in Nat /\ Cardinality(Passed(at)') \in Nat
    BY <1>3, <2>1, FS_Subset, FS_CardinalityType
  <2>3. Len(s_ModuleInfos) <= Cardinality(Passed(at)) /\ Len(s_ModuleInfos) \in Nat
    BY DEF ScanInv, Found
  <2> QED
    BY <2>2, <2>3
<1>6. Found'
  <2>1. \A j \in DOMAIN s_ModuleInfos :
          \E i \in Passed(at)' : s_ModuleInfos[j] = Whole(i)
    BY <1>3 DEF ScanInv, Found
  <2>2. \A i \in Passed(at)' \cap Uncut' :
          \E j \in DOMAIN s_ModuleInfos : s_ModuleInfos[j] = Whole(i)
    BY <1>4 DEF ScanInv, Found
  <2> QED
    BY <1>5, <2>1, <2>2 DEF ScanInv, Found, Whole
<1>7. Own'
  BY <1>4 DEF ScanInv, Own
<1>8. at' \in 1 .. Len(map') + 2
  BY <1>1 DEF ScanInv
<1> QED
  BY <1>6, <1>7, <1>8

LEMMA LookKeeps ==
  ASSUME ScanInv, LookForCodeStatic
  PROVE  ScanInv'
<1>1. /\ state = "LookingForCodeStatic" /\ at' = at + 1 /\ map' = map
      /\ at <= Len(map) + 1 /\ at \in Nat /\ Len(map) \in Nat
      /\ UNCHANGED <<s_ModuleInfos, s_SelfModuleIdx>>
      /\ curModInfo = << >>
      /\ \A i \in Uncut : i < at => i + 2 < at
      /\ \/ kind = "rx" /\ curModInfo' = <<region>> /\ state' = "ExpectingRodata"
         \/ kind # "rx" /\ UNCHANGED <<curModInfo, state>>
  BY MapType DEF LookForCodeStatic, Round, Wrapped, ScanInv, Collected
<1>2. at - 2 \notin Uncut
  BY <1>1
<1>3. at \in Begins(map) => kind = "rx" /\ region = at
  BY <1>1, MapType DEF ScanInv, kind, region
<1>4. kind = "rx" => region = at /\ at \in DOMAIN map /\ map[at].kind = "rx"
  BY <1>1, MapType DEF ScanInv, kind, region
<1>5. /\ Uncut' = Uncut /\ Uncut \subseteq Begins(map)
      /\ \A i \in Begins(map) : i \in Int
  BY <1>1, MapType, MapKeeps DEF ScanInv
<1>6. Collected'
  BY <1>1, <1>3, <1>4, <1>5 DEF Collected
<1> QED
  BY <1>1, <1>2, <1>6, NothingPassed DEF ScanInv

LEMMA RodataKeeps ==
  ASSUME ScanInv, ExpectRodata
  PROVE  ScanInv'
<1>1. /\ state = "ExpectingRodata" /\ at' = at + 1 /\ map' = map
      /\ at <= Len(map) + 1 /\ at \in Nat /\ Len(map) \in Nat
      /\ UNCHANGED <<s_ModuleInfos, s_SelfModuleIdx>>
      /\ curModInfo = <<at - 1>>
      /\ at - 1 \in DOMAIN map /\ map[at - 1].kind = "rx"
      /\ \A i \in Uncut : i < at - 1 => i + 2 < at
      /\ \/ /\ kind = "r" /\ curModInfo' = Append(curModInfo, region)
            /\ state' = "ExpectingData"
         \/ /\ kind # "r" /\ curModInfo' = << >>
            /\ state' = "LookingForCodeStatic"
  BY MapType DEF ExpectRodata, Round, Wrapped, reset, ScanInv, Collected
<1>2. at - 2 \notin Uncut
  BY <1>1
<1>3. /\ Uncut' = Uncut /\ Uncut \subseteq Begins(map)
      /\ \A i \in Begins(map) : i \in Int
  BY <1>1, MapType, MapKeeps DEF ScanInv
<1>4. CASE kind = "r"
  <2>1. region = at /\ at \in DOMAIN map /\ map[at].kind = "r"
    BY <1>1, <1>4, MapType DEF ScanInv, kind, region
  <2>2. curModInfo' = <<at - 1, at>>
    BY <1>1, <1>4, <2>1, Pair
  <2>3. Collected'
    BY <1>1, <1>3, <1>4, <2>1, <2>2 DEF Collected
  <2> QED
    BY <1>1, <1>2, <1>4, <2>3, NothingPassed DEF ScanInv
<1>5. CASE kind # "r"
  <2>1. at - 1 \notin Begins(map)
    BY <1>1, <1>5, MapType, SMTT(30) DEF ScanInv, kind, region
  <2>2. at \notin Uncut
    BY <1>1 DEF Uncut, Cut
  <2>3. Collected'
    BY <1>1, <1>3, <1>5, <2>1, <2>2 DEF Collected
  <2> QED
    BY <1>1, <1>2, <1>5, <2>3, NothingPassed DEF ScanInv
<1> QED
  BY <1>4, <1>5

\* The third region in a row: a module is passed, and found.
LEMMA DataFinds ==
  ASSUME ScanInv, ExpectData, kind = "rw"
  PROVE  ScanInv'
<1> DEFINE b == at - 2
           n == Len(s_ModuleInfos)
<1>1. /\ state = "ExpectingData" /\ at' = at + 1 /\ map' = map
      /\ at <= Len(map) + 1 /\ at \in Nat /\ Len(map) \in Nat
      /\ curModInfo = <<b, at - 1>>
      /\ b \in DOMAIN map /\ map[b].kind = "rx"
      /\ at - 1 \in DOMAIN map /\ map[at - 1].kind = "r"
      /\ \A i \in Uncut : i < b => i + 2 < at
      /\ s_ModuleInfos' = Completed
      /\ s_SelfModuleIdx' = IF map[curModInfo[1]].of = Self THEN n
                            ELSE s_SelfModuleIdx
      /\ curModInfo' = << >> /\ state' = "LookingForCodeStatic"
  BY MapType DEF ExpectData, Round, Wrapped, reset, ScanInv, Collected
<1>2. region = at /\ at \in DOMAIN map /\ map[at].kind = "rw"
  BY <1>1, MapType DEF ScanInv, kind, region
<1>3. /\ b \in Begins(map) /\ at - 1 \notin Begins(map) /\ at \notin Begins(map)
      /\ \A i \in Begins(map) : i \in Int
      /\ Uncut' = Uncut /\ Uncut \subseteq Begins(map)
  <2>1. b \in 1 .. Len(map) - 2 /\ b + 1 = at - 1 /\ b + 2 = at
    <3>1. DOMAIN map = 1 .. Len(map)
      BY MapType DEF ScanInv
    <3> QED
      BY <1>1, <1>2, <3>1
  <2> QED
    BY <1>1, <1>2, <2>1, MapKeeps, MapType, SMTT(30) DEF ScanInv
<1>4. s_ModuleInfos' = Append(s_ModuleInfos, Whole(b))
  <2>1. Append(curModInfo, region) = <<b, at - 1, at>>
    BY <1>1, <1>2, Triple
  <2>2. b + 1 = at - 1 /\ b + 2 = at
    BY <1>1
  <2> QED
    BY <1>1, <2>1, <2>2 DEF Completed, Whole
<1>5. /\ Whole(b) \in Seq(Int) /\ \A i \in Int : Whole(i)[1] = i
      /\ s_ModuleInfos \in Seq(Seq(Int)) /\ n \in Nat
      /\ DOMAIN s_ModuleInfos = 1 .. n
  BY <1>1, Triple DEF Whole, ScanInv, Found
<1>6. /\ s_ModuleInfos' \in Seq(Seq(Int)) /\ Len(s_ModuleInfos') = n + 1
      /\ DOMAIN s_ModuleInfos' = 1 .. n + 1
      /\ \A j \in 1 .. n : s_ModuleInfos'[j] = s_ModuleInfos[j]
      /\ s_ModuleInfos'[n + 1] = Whole(b)
  <2>1. /\ Append(s_ModuleInfos, Whole(b)) \in Seq(Seq(Int))
        /\ Len(Append(s_ModuleInfos, Whole(b))) = n + 1
        /\ \A j \in 1 .. n : Append(s_ModuleInfos, Whole(b))[j] = s_ModuleInfos[j]
        /\ Append(s_ModuleInfos, Whole(b))[n + 1] = Whole(b)
    BY <1>5, AppendProperties
  <2> QED
    BY <1>4, <1>5, <2>1
<1>7. /\ Passed(at)' = Passed(at) \cup {b} /\ b \notin Passed(at)
      /\ \A i \in Passed(at) : i < b /\ i \in Int
  BY <1>1, <1>3 DEF Passed
<1>8. Found'
  <2>1. n + 1 <= Cardinality(Passed(at)')
    <3>1. IsFiniteSet(Passed(at))
      BY <1>1, PassedCounts DEF ScanInv
    <3>2. n <= Cardinality(Passed(at)) /\ Cardinality(Passed(at)) \in Nat
      BY <3>1, FS_CardinalityType DEF ScanInv, Found
    <3>3. Cardinality(Passed(at) \cup {b}) = Cardinality(Passed(at)) + 1
      BY <1>7, <3>1, FS_AddElement
    <3> QED
      BY <1>5, <1>7, <3>2, <3>3
  <2>2. \A j \in 1 .. n + 1 : \E i \in Passed(at)' : s_ModuleInfos'[j] = Whole(i)
    <3>1. TAKE j \in 1 .. n + 1
    <3>2. CASE j \in 1 .. n
      <4>1. PICK i \in Passed(at) : s_ModuleInfos[j] = Whole(i)
        BY <1>5, <3>2 DEF ScanInv, Found
      <4>2. i \in Passed(at)' /\ s_ModuleInfos'[j] = Whole(i)
        BY <1>6, <1>7, <3>2, <4>1
      <4> QED
        BY <4>2
    <3>3. CASE j = n + 1
      BY <1>6, <1>7, <3>3
    <3> QED
      BY <1>5, <3>2, <3>3
  <2>3. \A i \in Passed(at)' \cap Uncut' :
          \E j \in 1 .. n + 1 : s_ModuleInfos'[j] = Whole(i)
    <3>1. TAKE i \in Passed(at)' \cap Uncut'
    <3>2. CASE i \in Passed(at) \cap Uncut
      <4>1. PICK j \in 1 .. n : s_ModuleInfos[j] = Whole(i)
        BY <1>5, <3>2 DEF ScanInv, Found
      <4>2. j \in 1 .. n + 1 /\ s_ModuleInfos'[j] = Whole(i)
        BY <1>5, <1>6, <4>1
      <4> QED
        BY <4>2
    <3>3. CASE i = b
      <4>1. n + 1 \in 1 .. n + 1 /\ s_ModuleInfos'[n + 1] = Whole(i)
        BY <1>5, <1>6, <3>3
      <4> QED
        BY <4>1
    <3> QED
      BY <1>3, <1>7, <3>2, <3>3
  <2>4. ASSUME NEW j \in 1 .. n + 1, NEW k \in 1 .. n + 1, j < k
        PROVE  s_ModuleInfos'[j][1] < s_ModuleInfos'[k][1]
    <3>1. j \in 1 .. n
      BY <1>5, <2>4
    <3>2. CASE k \in 1 .. n
      BY <1>5, <1>6, <2>4, <3>1, <3>2 DEF ScanInv, Found
    <3>3. CASE k = n + 1
      <4>1. PICK i \in Passed(at) : s_ModuleInfos[j] = Whole(i)
        BY <1>5, <3>1 DEF ScanInv, Found
      <4>2. s_ModuleInfos'[j][1] = i /\ s_ModuleInfos'[k][1] = b
        <5>1. i \in Int /\ b \in Int
          BY <1>1, <1>7
        <5>2. s_ModuleInfos'[j] = Whole(i) /\ s_ModuleInfos'[k] = Whole(b)
          BY <1>6, <3>1, <3>3, <4>1
        <5> QED
          BY <1>5, <5>1, <5>2
      <4> QED
        BY <1>7, <4>2
    <3> QED
      BY <1>5, <3>2, <3>3
  <2> QED
    BY <1>6, <2>1, <2>2, <2>3, <2>4 DEF Found, Whole
<1>9. Own' /\ s_SelfModuleIdx' \in Int
  <2>1. curModInfo[1] = b
    BY <1>1
  <2>2. CASE map[b].of = Self
    <3>1. s_SelfModuleIdx' = n
      BY <1>1, <2>1, <2>2
    <3>2. s_ModuleInfos'[n + 1][1] = b
      BY <1>1, <1>5, <1>6
    <3>3. s_SelfModuleIdx' # -1 /\ s_SelfModuleIdx' + 1 \in 1 .. n + 1
      BY <1>5, <3>1
    <3>4. map'[s_ModuleInfos'[s_SelfModuleIdx' + 1][1]].of = Self
      BY <1>1, <2>2, <3>1, <3>2
    <3>5. Own'
      BY <1>6, <3>3, <3>4 DEF Own
    <3> QED
      BY <1>5, <3>1, <3>5
  <2>3. CASE map[b].of # Self
    <3>1. s_SelfModuleIdx' = s_SelfModuleIdx /\ s_SelfModuleIdx \in Int
      BY <1>1, <2>1, <2>3 DEF ScanInv
    <3>2. s_SelfModuleIdx' = -1 =>
            \A i \in Passed(at)' \cap Uncut' : map'[i].of # Self
      BY <1>1, <1>3, <1>7, <2>3, <3>1 DEF ScanInv, Own
    <3>3. s_SelfModuleIdx' # -1 =>
            /\ s_SelfModuleIdx' + 1 \in 1 .. n + 1
            /\ map'[s_ModuleInfos'[s_SelfModuleIdx' + 1][1]].of = Self
      <4>1. HAVE s_SelfModuleIdx' # -1
      <4>2. /\ s_SelfModuleIdx + 1 \in 1 .. n
            /\ map[s_ModuleInfos[s_SelfModuleIdx + 1][1]].of = Self
        BY <1>5, <3>1, <4>1 DEF ScanInv, Own
      <4>3. s_ModuleInfos'[s_SelfModuleIdx + 1] = s_ModuleInfos[s_SelfModuleIdx + 1]
        BY <1>6, <4>2
      <4>4. s_SelfModuleIdx' + 1 \in 1 .. n + 1
        BY <1>5, <3>1, <4>2
      <4>5. map'[s_ModuleInfos'[s_SelfModuleIdx' + 1][1]].of = Self
        BY <1>1, <3>1, <4>2, <4>3
      <4> QED
        BY <4>4, <4>5
    <3> QED
      BY <1>6, <3>1, <3>2, <3>3 DEF Own
  <2> QED
    BY <2>2, <2>3
<1>10. Collected'
  BY <1>1, <1>3 DEF Collected
<1>11. at' \in 1 .. Len(map') + 2
  BY <1>1
<1> QED
  BY <1>1, <1>8, <1>9, <1>10, <1>11 DEF ScanInv

LEMMA DataResets ==
  ASSUME ScanInv, ExpectData, kind # "rw"
  PROVE  ScanInv'
<1>1. /\ state = "ExpectingData" /\ at' = at + 1 /\ map' = map
      /\ at <= Len(map) + 1 /\ at \in Nat /\ Len(map) \in Nat
      /\ UNCHANGED <<s_ModuleInfos, s_SelfModuleIdx>>
      /\ at - 2 \in DOMAIN map /\ map[at - 2].kind = "rx"
      /\ at - 1 \in DOMAIN map /\ map[at - 1].kind = "r"
      /\ \A i \in Uncut : i < at - 2 => i + 2 < at
      /\ curModInfo' = << >> /\ state' = "LookingForCodeStatic"
  BY MapType DEF ExpectData, Round, Wrapped, NotAModule, reset, ScanInv, Collected
<1>2. at - 2 \notin Begins(map) /\ at - 1 \notin Begins(map)
  <2>1. (at - 2) + 2 = at
    BY <1>1
  <2>2. at <= Len(map) => region = at
    BY <1>1 DEF region
  <2>3. at - 2 \notin Begins(map)
    BY <1>1, <2>1, <2>2, MapType DEF ScanInv, kind
  <2>4. at - 1 \notin Begins(map)
    BY <1>1, MapType DEF ScanInv
  <2> QED
    BY <2>3, <2>4
<1>3. at \notin Uncut
  BY <1>1, MapType DEF ScanInv, Uncut, Cut
<1>4. /\ Uncut' = Uncut /\ Uncut \subseteq Begins(map)
      /\ \A i \in Begins(map) : i \in Int
  BY <1>1, MapType, MapKeeps DEF ScanInv
<1>5. Collected'
  BY <1>1, <1>2, <1>3, <1>4 DEF Collected
<1> QED
  BY <1>1, <1>2, <1>4, <1>5, NothingPassed DEF ScanInv

\* Every region has been seen: what is not passed is no module.
LEMMA AllPassed ==
  ASSUME ScanInv, state \in Scanning \cup {"found"}, Wrapped
  PROVE  Passed(at) = Begins(map)
<1>1. at \in Int /\ Len(map) \in Nat /\ at > Len(map) + 1
  BY MapType DEF ScanInv, Wrapped
<1> QED
  BY <1>1, MapType DEF ScanInv, Passed

LEMMA ScanEnds ==
  ASSUME ScanInv, EndScan \/ TooManyStaticModules
  PROVE  ScanInv'
<1>1. /\ state \in Scanning /\ state' \in {"found", "aborted"}
      /\ UNCHANGED <<map, at, curModInfo, s_ModuleInfos, s_SelfModuleIdx>>
  BY DEF EndScan, TooManyStaticModules
<1>2. Collected'
  BY <1>1 DEF Collected
<1>3. Found' /\ Own' /\ (NotSeen <=> NotSeen')
  BY <1>1, MapKeeps DEF ScanInv, Found, Own, Passed
<1>4. (state = "found")' => Wrapped' /\ (s_SelfModuleIdx # -1)'
  BY <1>1 DEF EndScan, TooManyStaticModules, Wrapped
<1>5. CASE TooManyStaticModules
  <2>1. ~Room /\ Len(s_ModuleInfos) \in Nat
    BY <1>5 DEF TooManyStaticModules, ScanInv, Found
  <2>2. /\ Len(s_ModuleInfos) <= Cardinality(Passed(at))
        /\ map \in Maps /\ at \in Int
    BY MapType DEF ScanInv, Found
  <2>3. Cardinality(Begins(map)) >= s_MaxModules
    BY <2>1, <2>2, PassedCounts, FS_CardinalityType,
       MaxModulesAssumption DEF Room
  <2> QED
    BY <1>1, <1>2, <1>3, <1>4, <2>3 DEF ScanInv
<1>6. CASE EndScan
  <2>1. Wrapped /\ Passed(at) = Begins(map)
    BY <1>1, <1>6, AllPassed DEF EndScan
  <2>2. ASSUME state' = "aborted"
        PROVE  NotSeen
    <3>1. s_SelfModuleIdx = -1 \/ s_ModuleInfos = << >>
      BY <1>6, <2>2 DEF EndScan
    <3>2. CASE s_SelfModuleIdx = -1
      BY <2>1, <3>2 DEF ScanInv, Own, NotSeen, Uncut
    <3>3. CASE s_ModuleInfos = << >>
      <4>1. DOMAIN s_ModuleInfos = {}
        BY <3>3
      <4> QED
        BY <2>1, <4>1 DEF ScanInv, Found, NotSeen, Uncut
    <3> QED
      BY <3>1, <3>2, <3>3
  <2> QED
    BY <1>1, <1>2, <1>3, <1>4, <2>2 DEF ScanInv
<1> QED
  BY <1>5, <1>6

\* The rest of the program does not scan.
LEMMA ScanStays ==
  ASSUME ScanInv, UNCHANGED <<map, scanVars>>
  PROVE  ScanInv'
<1>1. UNCHANGED <<map, at, state, curModInfo, s_ModuleInfos, s_SelfModuleIdx>>
  BY DEF scanVars
<1>2. Collected' /\ Found' /\ Own' /\ (NotSeen <=> NotSeen')
  BY <1>1, MapKeeps DEF ScanInv, Collected, Found, Own, Passed
<1> QED
  BY <1>1, <1>2 DEF ScanInv, Wrapped

LEMMA ScanStep ==
  ASSUME ScanInv, [Next]_vars
  PROVE  ScanInv'
<1>1. CASE FindModules
  BY <1>1, ScanEnds, LookKeeps, RodataKeeps, DataFinds, DataResets
  DEF FindModules, ScanNext
<1>2. CASE ~FindModules
  <2>1. UNCHANGED <<map, scanVars>>
    BY <1>2 DEF Next, InitPatcherImpl, Initialize, InstallHooks, Game, Calls,
                scanned, vars
  <2> QED
    BY <2>1, ScanStays
<1> QED
  BY <1>1, <1>2

(***************************************************************************)
(* For any memory map that begins with no code and any size of the table:  *)
(* a scan that ends has found modules only, whole and in order, all those  *)
(* that are not cut, and itself; one that gives up met as many modules as  *)
(* the table holds or did not see itself.                                  *)
(***************************************************************************)
THEOREM ModulesAreFound == Spec => []FindsEveryModule
<1>1. ScanInv => FindsEveryModule
  <2> SUFFICES ASSUME ScanInv, state = "found"
               PROVE  /\ \A j \in DOMAIN s_ModuleInfos :
                           \E i \in Begins(map) : s_ModuleInfos[j] = Whole(i)
                      /\ \A i \in Uncut :
                           \E j \in DOMAIN s_ModuleInfos :
                             s_ModuleInfos[j] = Whole(i)
                      /\ \A i, j \in DOMAIN s_ModuleInfos :
                           i < j => s_ModuleInfos[i][1] < s_ModuleInfos[j][1]
                      /\ ModuleAt(s_SelfModuleIdx) = Self
    BY DEF FindsEveryModule, ScanInv
  <2>1. Passed(at) = Begins(map) /\ Passed(at) \cap Uncut = Uncut
    BY AllPassed DEF ScanInv, Uncut
  <2>2. ModuleAt(s_SelfModuleIdx) = Self
    BY DEF ScanInv, Own, ModuleAt
  <2> QED
    BY <2>1, <2>2 DEF ScanInv, Found
<1> QED
  BY <1>1, ScanFirst, ScanStep, PTL DEF Spec
-----------------------------------------------------------------------------
(***************************************************************************)
(* The calls.  What the hooks have written, in the functions and in the    *)
(* slots; and where a call is on its way to.                               *)
(***************************************************************************)
Ops == {"own", "nop", "b", "ldr_x17", "br_x17", "low", "high"}
Words == [op : Ops, to : Place]
OwnWord(f, i) == Word("own", Code(f, i))

\* The hooks of f among the first n, how many, and the last.
Hooks(f, n) == {h \in 1 .. n : Plan[h] = f}
Depth(f, n) == Cardinality(Hooks(f, n))
Latest(g, f, n) == g \in Hooks(f, n) /\ \A h \in Hooks(f, n) : h <= g

\* The words of a jump to a callback, copied to slot k, as far as they execute.
Moved(f, k, to) ==
  IF lies[f] = "near" THEN <<Word("b", to)>>
  ELSE IF lies[f] = "even"
  THEN <<Word("ldr_x17", Nowhere), Word("b", Slot(k, 4)), Word("low", to),
         Word("high", to), Word("br_x17", Nowhere)>>
  ELSE <<Nop, Word("ldr_x17", Nowhere), Word("b", Slot(k, 5)), Word("low", to),
         Word("high", to), Word("br_x17", Nowhere)>>

OwnWords(f, n) == [i \in 1 .. n |-> OwnWord(f, i - 1)]
StartsWith(s, t) == Len(t) \in 0 .. Len(s) /\ \A i \in 1 .. Len(t) : s[i] = t[i]

\* The slot of hook h: the function's own instructions and the jump back, or the
\* jump of the hook before it.
Filled(h) ==
  \/ /\ Hooks(Plan[h], h - 1) = {}
     /\ \E back \in JumpsBack(Plan[h]) :
          pool[h - 1] = OwnWords(Plan[h], count(Plan[h])) \o back
  \/ \E g \in 1 .. h - 1 :
       /\ Latest(g, Plan[h], h - 1)
       /\ StartsWith(pool[h - 1], Moved(Plan[h], h - 1, Callback(g)))

\* Function f: its own instructions, or the jump of its last hook over them.
Written(f) ==
  /\ \A i \in count(f) .. FunLen - 1 : code[f][i] = OwnWord(f, i)
  /\ \/ /\ Hooks(f, installed) = {}
        /\ \A i \in 0 .. count(f) - 1 : code[f][i] = OwnWord(f, i)
     \/ \E h \in 1 .. installed :
          /\ Latest(h, f, installed)
          /\ \A i \in 0 .. count(f) - 1 : code[f][i] = JumpTo(f, Callback(h))[i + 1]

Layout ==
  /\ lies \in [Function -> {"near", "even", "odd"}]
  /\ code \in [Function -> [0 .. FunLen - 1 -> Words]]
  /\ pool \in [0 .. HookMax -> Seq(Words)]
  /\ \A h \in 1 .. installed : Filled(h)
  /\ \A f \in Function : Written(f)

\* From p, with x in x17, up to four jumps lead to place "to".
Jumps(p) == WordAt(p).op \in {"nop", "b", "ldr_x17", "br_x17"}
Next17(p, x) == IF WordAt(p).op = "ldr_x17" THEN WordAt(After(p, 2)).to ELSE x
NextPlace(p, x) ==
  IF WordAt(p).op = "b" THEN WordAt(p).to
  ELSE IF WordAt(p).op = "br_x17" THEN x ELSE After(p, 1)
In1(p, x, to) == Jumps(p) /\ NextPlace(p, x) = to
In2(p, x, to) == Jumps(p) /\ In1(NextPlace(p, x), Next17(p, x), to)
In3(p, x, to) == Jumps(p) /\ In2(NextPlace(p, x), Next17(p, x), to)
In4(p, x, to) == Jumps(p) /\ In3(NextPlace(p, x), Next17(p, x), to)
Goes(p, x, to) ==
  p = to \/ In1(p, x, to) \/ In2(p, x, to) \/ In3(p, x, to) \/ In4(p, x, to)

\* A call goes to its next callback, or to instruction i of the function, there
\* or in the slot of the first hook; and has passed what comes before.
ToCallback(h) ==
  /\ h \in Hooks(called, Len(Plan))
  /\ Len(trace) = Depth(called, Len(Plan)) - Depth(called, h)
  /\ Goes(pc, x17, Callback(h))
ToOwn(i) ==
  /\ Len(trace) = Depth(called, Len(Plan)) + i
  /\ \/ /\ count(called) <= i \/ Hooks(called, Len(Plan)) = {}
        /\ Goes(pc, x17, Code(called, i))
     \/ /\ i < count(called)
        /\ \E h \in Hooks(called, Len(Plan)) :
             Hooks(called, h - 1) = {} /\ pc = Slot(h - 1, i)

Calling ==
  /\ called \in Function /\ trace \in Seq(Place)
  /\ Len(trace) <= Len(Promised(called))
  /\ \A i \in 1 .. Len(trace) : trace[i] = Promised(called)[i]
  /\ \/ pc = Returned
     \/ /\ stage = "running" /\ installed = Len(Plan)
        /\ \/ \E h \in 1 .. Len(Plan) : ToCallback(h)
           \/ \E i \in 0 .. FunLen - 1 : ToOwn(i)
Running == stage = "running" => installed = Len(Plan)

(***************************************************************************)
(* A set of numbers that is not empty has a least one; a function given by *)
(* its first value and by a step exists.                                   *)
(***************************************************************************)
LEMMA Least ==
  ASSUME NEW S \in SUBSET Nat, S # {}
  PROVE  \E n \in S : \A m \in S : n <= m
<1>1. PICK n \in S : \A m \in S : <<m, n>> \notin OpToRel(<, Nat)
  BY WFMin, NatLessThanWellFounded
<1>2. \A m \in S : ~(m < n)
  BY <1>1 DEF OpToRel
<1> QED
  BY <1>2

\* g runs through S from s0, n steps, the i-th as G[i] says.
Runs(g, n, S, s0, G) ==
  g \in [0 .. n -> S] /\ g[0] = s0 /\ \A i \in 1 .. n : g[i] = G[i][g[i - 1]]

LEMMA Recursion ==
  ASSUME NEW n \in Nat, NEW S, NEW s0 \in S, NEW G \in [1 .. n -> [S -> S]]
  PROVE  \E g : Runs(g, n, S, s0, G)
<1> DEFINE Ok(m) == \E g : Runs(g, m, S, s0, G)
           Bad == {m \in 0 .. n : ~Ok(m)}
<1>1. Ok(0)
  <2> DEFINE g == [i \in 0 .. 0 |-> s0]
  <2>1. g \in [0 .. 0 -> S] /\ g[0] = s0 /\ 1 .. 0 = {}
    OBVIOUS
  <2>2. Runs(g, 0, S, s0, G)
    BY <2>1 DEF Runs
  <2> QED
    BY <2>2
<1>2. ASSUME NEW m \in 0 .. n, m # n, Ok(m)
      PROVE  Ok(m + 1)
  <2>0. PICK g : Runs(g, m, S, s0, G)
    BY <1>2
  <2>1. g \in [0 .. m -> S] /\ g[0] = s0 /\ \A i \in 1 .. m : g[i] = G[i][g[i - 1]]
    BY <2>0 DEF Runs
  <2> DEFINE h == [i \in 0 .. m + 1 |-> IF i <= m THEN g[i] ELSE G[m + 1][g[m]]]
  <2>2. m + 1 \in 1 .. n /\ g[m] \in S /\ G[m + 1][g[m]] \in S
    BY <1>2, <2>1
  <2>3. h \in [0 .. m + 1 -> S]
    BY <2>1, <2>2
  <2>4. h[0] = s0 /\ \A i \in 1 .. m + 1 : h[i] = G[i][h[i - 1]]
    <3>1. h[0] = s0
      BY <2>1
    <3>2. ASSUME NEW i \in 1 .. m + 1
          PROVE  h[i] = G[i][h[i - 1]]
      <4>1. h[i - 1] = g[i - 1]
        OBVIOUS
      <4>2. i <= m => h[i] = g[i] /\ i \in 1 .. m
        OBVIOUS
      <4>3. i > m => h[i] = G[i][g[i - 1]]
        OBVIOUS
      <4> QED
        BY <2>1, <4>1, <4>2, <4>3
    <3> QED
      BY <3>1, <3>2
  <2>5. Runs(h, m + 1, S, s0, G)
    <3> HIDE DEF h
    <3> QED
      BY <2>3, <2>4 DEF Runs
  <2> QED
    BY <2>5
<1>3. Bad = {}
  <2> SUFFICES ASSUME Bad # {}
               PROVE  FALSE
    OBVIOUS
  <2>1. PICK m \in Bad : \A k \in Bad : m <= k
    <3>1. Bad \in SUBSET Nat
      OBVIOUS
    <3> HIDE DEF Bad
    <3> QED
      BY <3>1, Least
  <2>2. m # 0
    BY <1>1
  <2>3. m - 1 \in 0 .. n /\ m - 1 # n /\ m - 1 + 1 = m /\ m - 1 \notin Bad
    <3> HIDE DEF Ok
    <3>1. m \in 0 .. n
      OBVIOUS
    <3>2. m - 1 \in 0 .. n /\ m - 1 # n /\ m - 1 + 1 = m /\ ~(m <= m - 1)
      BY <2>2, <3>1
    <3> HIDE DEF Bad
    <3> QED
      BY <2>1, <3>2
  <2> HIDE DEF Ok
  <2>4. Ok(m - 1)
    BY <2>3
  <2>5. Ok(m)
    BY <1>2, <2>3, <2>4
  <2> QED
    BY <2>1, <2>5
<1>4. n \in 0 .. n
  OBVIOUS
<1>5. Ok(n)
  <2> HIDE DEF Ok
  <2> QED
    BY <1>3, <1>4
<1> QED
  BY <1>5
-----------------------------------------------------------------------------
(***************************************************************************)
(* What a call is promised: its callbacks, counted from the last hook, and *)
(* the function's own instructions.                                        *)
(***************************************************************************)
USE FunLenAssumption

LEMMA HookNext ==
  ASSUME NEW f, NEW n \in Nat \ {0}
  PROVE  /\ Plan[n] = f => Hooks(f, n) = Hooks(f, n - 1) \cup {n}
         /\ Plan[n] # f => Hooks(f, n) = Hooks(f, n - 1)
         /\ n \notin Hooks(f, n - 1)
BY DEF Hooks

LEMMA Depths ==
  ASSUME NEW f, NEW n \in Nat
  PROVE  /\ IsFiniteSet(Hooks(f, n)) /\ Depth(f, n) \in Nat
         /\ Hooks(f, 0) = {}
         /\ Hooks(f, n) = {} => Depth(f, n) = 0
<1>1. IsFiniteSet(1 .. n)
  <2>1. 1 \in Int /\ n \in Int
    OBVIOUS
  <2> QED
    BY <2>1, FS_Interval
<1>2. Hooks(f, n) \in SUBSET (1 .. n)
  BY DEF Hooks
<1>3. IsFiniteSet(Hooks(f, n))
  BY <1>1, <1>2, FS_Subset
<1>4. Hooks(f, 0) = {}
  BY DEF Hooks
<1> QED
  BY <1>3, <1>4, FS_CardinalityType, FS_EmptySet DEF Depth

LEMMA DepthNext ==
  ASSUME NEW f, NEW n \in Nat \ {0}
  PROVE  /\ Plan[n] = f => Depth(f, n) = Depth(f, n - 1) + 1
         /\ Plan[n] # f => Depth(f, n) = Depth(f, n - 1)
<1>1. n - 1 \in Nat
  OBVIOUS
<1>2. IsFiniteSet(Hooks(f, n - 1))
  BY <1>1, Depths
<1>3. n \notin Hooks(f, n - 1) =>
        Cardinality(Hooks(f, n - 1) \cup {n}) = Cardinality(Hooks(f, n - 1)) + 1
  BY <1>2, FS_AddElement
<1> QED
  BY <1>3, HookNext DEF Depth

LEMMA DepthGrows ==
  ASSUME NEW f, NEW n \in Nat, NEW h \in 0 .. n
  PROVE  Depth(f, h) <= Depth(f, n)
<1>1. Hooks(f, h) \in SUBSET Hooks(f, n)
  BY DEF Hooks
<1> QED
  BY <1>1, Depths, FS_Subset DEF Depth

\* No hook of f comes between the latest and hook n.
LEMMA LatestDepth ==
  ASSUME NEW f, NEW n \in Nat, NEW g, Latest(g, f, n)
  PROVE  g \in 1 .. n /\ Plan[g] = f /\ Depth(f, n) = Depth(f, g)
<1>1. g \in 1 .. n /\ Plan[g] = f /\ \A h \in Hooks(f, n) : h <= g
  BY DEF Latest, Hooks
<1>2. Hooks(f, n) = Hooks(f, g)
  BY <1>1 DEF Hooks
<1> QED
  BY <1>1, <1>2 DEF Depth

\* There is a latest hook unless there is none.
LEMMA LatestNext ==
  ASSUME NEW f, NEW n \in Nat
  PROVE  /\ Plan[n + 1] = f => Latest(n + 1, f, n + 1)
         /\ Plan[n + 1] # f =>
              /\ Hooks(f, n + 1) = Hooks(f, n)
              /\ \A g : Latest(g, f, n) => Latest(g, f, n + 1)
<1>1. Plan[n + 1] # f => Hooks(f, n + 1) = Hooks(f, n)
  BY DEF Hooks
<1>2. Plan[n + 1] = f => n + 1 \in Hooks(f, n + 1) /\ \A h \in Hooks(f, n + 1) : h <= n + 1
  BY DEF Hooks
<1> QED
  BY <1>1, <1>2 DEF Latest

LEMMA OneMore ==
  ASSUME NEW S, NEW x \in S, NEW s \in Seq(S)
  PROVE  /\ <<x>> \o s \in Seq(S) /\ Len(<<x>> \o s) = Len(s) + 1
         /\ (<<x>> \o s)[1] = x
         /\ \A i \in 1 .. Len(s) : (<<x>> \o s)[i + 1] = s[i]
<1>1. <<x>> \in Seq(S) /\ Len(<<x>>) = 1 /\ <<x>>[1] = x
  OBVIOUS
<1>2. Len(s) \in Nat
  BY LenProperties
<1>3. PICK t \in Seq(S) : t = <<x>>
  BY <1>1
<1>4. Len(t) = 1 /\ t[1] = x
  BY <1>1, <1>3
<1>5. /\ t \o s \in Seq(S) /\ Len(t \o s) = Len(s) + 1
      /\ (t \o s)[1] = x
      /\ \A i \in 1 .. Len(s) : (t \o s)[i + 1] = s[i]
  <2>1. /\ t \o s \in Seq(S) /\ Len(t \o s) = Len(t) + Len(s)
        /\ \A i \in 1 .. Len(t) + Len(s) :
             (t \o s)[i] = IF i <= Len(t) THEN t[i] ELSE s[i - Len(t)]
    BY ConcatProperties
  <2> QED
    BY <1>2, <1>4, <2>1
<1> QED
  BY <1>3, <1>5

LEMMA FunctionSeq ==
  ASSUME NEW n \in Nat, NEW S, NEW w \in [1 .. n -> S]
  PROVE  w \in Seq(S) /\ Len(w) = n
<1>1. w \in Seq(S)
  BY SeqDef
<1>2. DOMAIN w = 1 .. Len(w) /\ Len(w) \in Nat /\ DOMAIN w = 1 .. n
  BY <1>1, LenProperties
<1> QED
  BY <1>1, <1>2

LEMMA PlacesOfHooks ==
  /\ \A h \in Int : Callback(h) \in Place
  /\ \A k \in Int, i \in Nat : Slot(k, i) \in Place
  /\ \A f \in Function, i \in Nat : Code(f, i) \in Place
BY DEF Callback, Slot, Code, Place

\* The callbacks of the first n hooks, the last first.
EnterStep(f, n, s) == IF Plan[n] = f THEN <<Callback(n)>> \o s ELSE s
Entered(f) ==
  CHOOSE entered : entered = [h \in 0 .. Len(Plan) |->
    IF h = 0 THEN << >>
    ELSE IF Plan[h] = f THEN <<Callback(h)>> \o entered[h - 1]
    ELSE entered[h - 1]]

LEMMA EnteredSteps ==
  ASSUME NEW f
  PROVE  /\ Entered(f)[0] = << >>
         /\ \A n \in 1 .. Len(Plan) :
              Entered(f)[n] = EnterStep(f, n, Entered(f)[n - 1])
<1> DEFINE N == Len(Plan)
           S == Seq(Place)
           G == [n \in 1 .. N |-> [s \in S |-> EnterStep(f, n, s)]]
<1>1. N \in Nat /\ << >> \in S
  BY PlanLength, EmptySeq
<1>2. \A n \in 1 .. N : \A s \in S : EnterStep(f, n, s) \in S
  <2>1. TAKE n \in 1 .. N
  <2>2. Callback(n) \in Place
    BY <1>1, <2>1, PlacesOfHooks
  <2> QED
    BY <2>2, OneMore DEF EnterStep
<1>3. G \in [1 .. N -> [S -> S]]
  <2> HIDE DEF N, S
  <2> QED
    BY <1>2
<1>4. PICK g : Runs(g, N, S, << >>, G)
  <2> HIDE DEF N, S, G
  <2> QED
    BY <1>1, <1>3, Recursion
<1>5. g \in [0 .. N -> S] /\ g[0] = << >>
      /\ \A n \in 1 .. N : g[n] = EnterStep(f, n, g[n - 1])
  <2> HIDE DEF N, S
  <2>1. g \in [0 .. N -> S] /\ g[0] = << >> /\ \A n \in 1 .. N : g[n] = G[n][g[n - 1]]
    BY <1>4 DEF Runs
  <2>2. ASSUME NEW n \in 1 .. N
        PROVE  g[n] = EnterStep(f, n, g[n - 1])
    <3>1. g[n - 1] \in S
      BY <1>1, <2>1
    <3> QED
      BY <2>1, <3>1
  <2> QED
    BY <2>1, <2>2
<1>6. g = [h \in 0 .. Len(Plan) |->
             IF h = 0 THEN << >>
             ELSE IF Plan[h] = f THEN <<Callback(h)>> \o g[h - 1]
             ELSE g[h - 1]]
  <2>1. g = [h \in 0 .. Len(Plan) |-> g[h]]
    BY <1>5
  <2>2. \A h \in 0 .. Len(Plan) :
          g[h] = IF h = 0 THEN << >>
                 ELSE IF Plan[h] = f THEN <<Callback(h)>> \o g[h - 1]
                 ELSE g[h - 1]
    <3>1. TAKE h \in 0 .. Len(Plan)
    <3>2. h # 0 => h \in 1 .. N
      BY <1>1
    <3>3. h # 0 => g[h] = EnterStep(f, h, g[h - 1])
      BY <1>5, <3>2
    <3> QED
      BY <1>5, <3>3, Zenon DEF EnterStep
  <2> QED
    BY <2>1, <2>2, Zenon
<1>7. Entered(f) = [h \in 0 .. Len(Plan) |->
             IF h = 0 THEN << >>
             ELSE IF Plan[h] = f THEN <<Callback(h)>> \o Entered(f)[h - 1]
             ELSE Entered(f)[h - 1]]
  BY <1>6, Zenon DEF Entered
<1> HIDE DEF G, S
<1>8. Entered(f)[0] = << >>
  BY <1>1, <1>7
<1>9. ASSUME NEW n \in 1 .. Len(Plan)
      PROVE  Entered(f)[n] = EnterStep(f, n, Entered(f)[n - 1])
  <2>1. n \in 0 .. Len(Plan) /\ n # 0
    BY <1>1
  <2>2. Entered(f)[n] = IF n = 0 THEN << >>
                        ELSE IF Plan[n] = f THEN <<Callback(n)>> \o Entered(f)[n - 1]
                        ELSE Entered(f)[n - 1]
    BY <1>7, <2>1, Zenon
  <2> QED
    BY <2>1, <2>2 DEF EnterStep
<1> QED
  BY <1>8, <1>9
LEMMA Upward ==
  ASSUME NEW n \in Nat, NEW Ok \in SUBSET (0 .. n), 0 \in Ok,
         \A m \in Ok : m < n => m + 1 \in Ok
  PROVE  Ok = 0 .. n
<1> SUFFICES ASSUME (0 .. n) \ Ok # {}
             PROVE  FALSE
  OBVIOUS
<1>1. PICK m \in (0 .. n) \ Ok : \A k \in (0 .. n) \ Ok : m <= k
  <2>1. (0 .. n) \ Ok \in SUBSET Nat
    OBVIOUS
  <2> QED
    BY <2>1, Least
<1>2. m - 1 \in 0 .. n /\ m - 1 < n /\ m - 1 + 1 = m /\ ~(m <= m - 1)
  BY <1>1
<1> QED
  BY <1>1, <1>2

\* The callbacks of the hooks of f among the first n, the last first.
Descends(f, n, s) ==
  /\ s \in Seq(Place) /\ Len(s) = Depth(f, n)
  /\ \A g \in Hooks(f, n) : s[Depth(f, n) - Depth(f, g) + 1] = Callback(g)

LEMMA EnteredDescends ==
  ASSUME NEW f, NEW n \in 0 .. Len(Plan)
  PROVE  Descends(f, n, Entered(f)[n])
<1> DEFINE Ok == {m \in 0 .. Len(Plan) : Descends(f, m, Entered(f)[m])}
<1>1. Descends(f, 0, Entered(f)[0])
  <2>1. << >> \in Seq(Place) /\ Len(<< >>) = 0
    BY EmptySeq
  <2>2. Hooks(f, 0) = {} /\ Depth(f, 0) = 0
    BY Depths
  <2> QED
    BY <2>1, <2>2, EnteredSteps DEF Descends
<1>2. ASSUME NEW m \in 0 .. Len(Plan), m < Len(Plan), Descends(f, m, Entered(f)[m])
      PROVE  Descends(f, m + 1, Entered(f)[m + 1])
  <2>1. m + 1 \in 1 .. Len(Plan) /\ m + 1 \in Nat \ {0} /\ (m + 1) - 1 = m /\ m \in Nat
    BY <1>2, PlanLength
  <2>2. PICK s \in Seq(Place) : s = Entered(f)[m]
    BY <1>2 DEF Descends
  <2>3. Entered(f)[m + 1] = EnterStep(f, m + 1, s)
    BY <2>1, <2>2, EnteredSteps
  <2>4. /\ Len(s) = Depth(f, m)
        /\ \A g \in Hooks(f, m) : s[Depth(f, m) - Depth(f, g) + 1] = Callback(g)
    BY <1>2, <2>2 DEF Descends
  <2>5. CASE Plan[m + 1] # f
    <3>1. Entered(f)[m + 1] = s
      BY <2>3, <2>5 DEF EnterStep
    <3>2. Hooks(f, m + 1) = Hooks(f, m) /\ Depth(f, m + 1) = Depth(f, m)
      BY <2>1, <2>5, HookNext, DepthNext
    <3> QED
      BY <2>2, <2>4, <3>1, <3>2 DEF Descends
  <2>6. CASE Plan[m + 1] = f
    <3>1. Callback(m + 1) \in Place
      BY <2>1, PlacesOfHooks
    <3>2. PICK t \in Seq(Place) :
            /\ t = Entered(f)[m + 1] /\ Len(t) = Len(s) + 1 /\ t[1] = Callback(m + 1)
            /\ \A i \in 1 .. Len(s) : t[i + 1] = s[i]
      <4>1. Entered(f)[m + 1] = <<Callback(m + 1)>> \o s
        BY <2>3, <2>6 DEF EnterStep
      <4>2. PICK x \in Place : x = Callback(m + 1)
        BY <3>1
      <4>3. /\ <<x>> \o s \in Seq(Place) /\ Len(<<x>> \o s) = Len(s) + 1
            /\ (<<x>> \o s)[1] = x
            /\ \A i \in 1 .. Len(s) : (<<x>> \o s)[i + 1] = s[i]
        BY OneMore
      <4> QED
        BY <4>1, <4>2, <4>3, Zenon
    <3>3. /\ Hooks(f, m + 1) = Hooks(f, m) \cup {m + 1}
          /\ Depth(f, m + 1) = Depth(f, m) + 1 /\ Depth(f, m) \in Nat
      <4>1. PICK k \in Nat \ {0} : k = m + 1 /\ k - 1 = m
        BY <2>1
      <4>2. Depth(f, k) = Depth(f, k - 1) + 1 /\ Hooks(f, k) = Hooks(f, k - 1) \cup {k}
        BY <2>6, <4>1, HookNext, DepthNext
      <4>3. Depth(f, m) \in Nat
        BY <2>1, Depths
      <4> QED
        BY <4>1, <4>2, <4>3, Zenon
    <3>4. ASSUME NEW g \in Hooks(f, m)
          PROVE  t[Depth(f, m + 1) - Depth(f, g) + 1] = Callback(g)
      <4>1. g \in 1 .. m /\ Plan[g] = f
        BY DEF Hooks
      <4>2. /\ Depth(f, g) <= Depth(f, m) /\ Depth(f, g) \in Nat
            /\ Depth(f, g) = Depth(f, g - 1) + 1 /\ Depth(f, g - 1) \in Nat
        <5>1. g \in 0 .. m /\ g \in Nat \ {0} /\ g - 1 \in Nat
          BY <2>1, <4>1
        <5> QED
          BY <2>1, <4>1, <5>1, DepthGrows, DepthNext, Depths
      <4>3. /\ Depth(f, m) - Depth(f, g) + 1 \in 1 .. Len(s)
            /\ Depth(f, m + 1) - Depth(f, g) + 1 = (Depth(f, m) - Depth(f, g) + 1) + 1
        BY <2>4, <3>3, <4>2
      <4> QED
        BY <2>4, <3>2, <4>3
    <3>5. t[Depth(f, m + 1) - Depth(f, m + 1) + 1] = Callback(m + 1)
      BY <3>2, <3>3
    <3> QED
      BY <2>4, <3>2, <3>3, <3>4, <3>5 DEF Descends
  <2> QED
    BY <2>5, <2>6
<1>3. Ok = 0 .. Len(Plan)
  <2>1. Ok \in SUBSET (0 .. Len(Plan)) /\ 0 \in Ok
    BY <1>1, PlanLength
  <2>2. \A m \in Ok : m < Len(Plan) => m + 1 \in Ok
    BY <1>2, PlanLength
  <2> HIDE DEF Ok
  <2> QED
    BY <2>1, <2>2, PlanLength, Upward
<1> QED
  BY <1>3

\* What is promised, by its indices.
LEMMA Promise ==
  ASSUME NEW f \in Function
  PROVE  /\ Promised(f) \in Seq(Place)
         /\ Len(Promised(f)) = Depth(f, Len(Plan)) + FunLen
         /\ \A h \in Hooks(f, Len(Plan)) :
              Promised(f)[Depth(f, Len(Plan)) - Depth(f, h) + 1] = Callback(h)
         /\ \A i \in 0 .. FunLen - 1 :
              Promised(f)[Depth(f, Len(Plan)) + i + 1] = Code(f, i)
<1> DEFINE n == Len(Plan)
<1>1. PICK e \in Seq(Place) : /\ e = Entered(f)[n] /\ Len(e) = Depth(f, n)
                              /\ \A h \in Hooks(f, n) : e[Depth(f, n) - Depth(f, h) + 1] = Callback(h)
  <2>1. n \in 0 .. Len(Plan)
    BY PlanLength
  <2> QED
    BY <2>1, EnteredDescends DEF Descends
<1>2. PICK o \in Seq(Place) : /\ o = [i \in 1 .. FunLen |-> Code(f, i - 1)]
                              /\ Len(o) = FunLen
                              /\ \A i \in 0 .. FunLen - 1 : o[i + 1] = Code(f, i)
  <2> DEFINE w == [i \in 1 .. FunLen |-> Code(f, i - 1)]
  <2>1. \A i \in 1 .. FunLen : Code(f, i - 1) \in Place
    BY PlacesOfHooks
  <2>2. w \in [1 .. FunLen -> Place] /\ \A i \in 0 .. FunLen - 1 : w[i + 1] = Code(f, i)
    BY <2>1
  <2>3. w \in Seq(Place) /\ Len(w) = FunLen
    <3> HIDE DEF w
    <3> QED
      BY <2>2, FunctionSeq
  <2> QED
    BY <2>2, <2>3
<1>3. Promised(f) = e \o o
  BY <1>1, <1>2, Zenon DEF Promised, Entered
<1>4. Depth(f, n) \in Nat
  BY PlanLength, Depths
<1>5. /\ e \o o \in Seq(Place) /\ Len(e \o o) = Depth(f, n) + FunLen
      /\ \A i \in 1 .. Depth(f, n) + FunLen :
           (e \o o)[i] = IF i <= Depth(f, n) THEN e[i] ELSE o[i - Depth(f, n)]
  <2>1. /\ e \o o \in Seq(Place) /\ Len(e \o o) = Len(e) + Len(o)
        /\ \A i \in 1 .. Len(e) + Len(o) :
             (e \o o)[i] = IF i <= Len(e) THEN e[i] ELSE o[i - Len(e)]
    BY ConcatProperties
  <2>2. Len(e) = Depth(f, n) /\ Len(o) = FunLen
    BY <1>1, <1>2, Zenon
  <2> HIDE DEF n
  <2> QED
    BY <2>1, <2>2, Zenon
<1>6. ASSUME NEW h \in Hooks(f, n)
      PROVE  Promised(f)[Depth(f, n) - Depth(f, h) + 1] = Callback(h)
  <2>1. h \in 1 .. n /\ Plan[h] = f
    BY DEF Hooks
  <2>2. /\ h \in 0 .. n /\ h \in Nat \ {0} /\ n \in Nat /\ h - 1 \in Nat
    BY <2>1, PlanLength
  <2>3. /\ Depth(f, h) <= Depth(f, n) /\ Depth(f, h) = Depth(f, h - 1) + 1
        /\ Depth(f, h - 1) \in Nat
    BY <2>1, <2>2, DepthGrows, DepthNext, Depths
  <2>4. Depth(f, n) - Depth(f, h) + 1 \in 1 .. Depth(f, n)
    BY <1>4, <2>3
  <2> QED
    BY <1>1, <1>3, <1>4, <1>5, <2>4
<1>7. ASSUME NEW i \in 0 .. FunLen - 1
      PROVE  Promised(f)[Depth(f, n) + i + 1] = Code(f, i)
  <2>1. /\ Depth(f, n) + i + 1 \in 1 .. Depth(f, n) + FunLen
        /\ ~(Depth(f, n) + i + 1 <= Depth(f, n))
        /\ (Depth(f, n) + i + 1) - Depth(f, n) = i + 1
    BY <1>4
  <2> QED
    BY <1>2, <1>3, <1>5, <2>1
<1> QED
  BY <1>3, <1>5, <1>6, <1>7
-----------------------------------------------------------------------------
(***************************************************************************)
(* The words of a jump and their copies.                                   *)
(***************************************************************************)
LEMMA FourOf ==
  ASSUME NEW S, NEW a \in S, NEW b \in S, NEW c \in S, NEW d \in S
  PROVE  /\ <<a, b, c, d>> \in Seq(S) /\ Len(<<a, b, c, d>>) = 4
         /\ <<a, b, c, d>>[1] = a /\ <<a, b, c, d>>[2] = b
         /\ <<a, b, c, d>>[3] = c /\ <<a, b, c, d>>[4] = d
OBVIOUS

LEMMA OneOf ==
  ASSUME NEW S, NEW a \in S
  PROVE  <<a>> \in Seq(S) /\ Len(<<a>>) = 1 /\ <<a>>[1] = a
OBVIOUS

LEMMA Joined ==
  ASSUME NEW S, NEW s \in Seq(S), NEW t \in Seq(S)
  PROVE  /\ s \o t \in Seq(S) /\ Len(s \o t) = Len(s) + Len(t)
         /\ \A i \in 1 .. Len(s) : (s \o t)[i] = s[i]
         /\ \A i \in 1 .. Len(t) : (s \o t)[Len(s) + i] = t[i]
<1>1. Len(s) \in Nat /\ Len(t) \in Nat
  BY LenProperties
<1>2. /\ s \o t \in Seq(S) /\ Len(s \o t) = Len(s) + Len(t)
      /\ \A i \in 1 .. Len(s) + Len(t) :
           (s \o t)[i] = IF i <= Len(s) THEN s[i] ELSE t[i - Len(s)]
  BY ConcatProperties
<1>3. PICK u : u = s \o t
  OBVIOUS
<1>4. \A i \in 1 .. Len(s) : u[i] = s[i]
  BY <1>1, <1>2, <1>3
<1>5. \A i \in 1 .. Len(t) : u[Len(s) + i] = t[i]
  <2>1. TAKE i \in 1 .. Len(t)
  <2>2. Len(s) + i \in 1 .. Len(s) + Len(t) /\ ~(Len(s) + i <= Len(s))
        /\ (Len(s) + i) - Len(s) = i
    BY <1>1
  <2> QED
    BY <1>2, <1>3, <2>2
<1> QED
  BY <1>2, <1>3, <1>4, <1>5, Zenon

LEMMA StartKeeps ==
  ASSUME NEW S, NEW s \in Seq(S), NEW t \in Seq(S), NEW p, StartsWith(s, p)
  PROVE  StartsWith(s \o t, p)
<1>1. Len(s) \in Nat /\ Len(t) \in Nat
  BY LenProperties
<1>2. PICK u : /\ u = s \o t /\ Len(u) = Len(s) + Len(t)
               /\ \A i \in 1 .. Len(s) : u[i] = s[i]
  <2>1. /\ Len(s \o t) = Len(s) + Len(t)
        /\ \A i \in 1 .. Len(s) : (s \o t)[i] = s[i]
    BY Joined
  <2> QED
    BY <2>1, Zenon
<1>3. Len(p) \in Nat /\ Len(p) <= Len(s) /\ \A i \in 1 .. Len(p) : s[i] = p[i]
  BY DEF StartsWith
<1>4. StartsWith(u, p)
  BY <1>1, <1>2, <1>3 DEF StartsWith
<1> QED
  BY <1>2, <1>4

LEMMA WordsAre ==
  /\ Nowhere \in Place
  /\ \A op \in Ops, to \in Place :
       /\ Word(op, to) \in Words
       /\ Word(op, to).op = op /\ Word(op, to).to = to
BY Places DEF Word, Words

\* The words of a far jump.
IsFar(s, to) ==
  /\ s \in Seq(Words) /\ Len(s) = 4
  /\ s[1] = Word("ldr_x17", Nowhere) /\ s[2] = Word("br_x17", Nowhere)
  /\ s[3] = Word("low", to) /\ s[4] = Word("high", to)
IsFarAfterNop(s, to) ==
  /\ s \in Seq(Words) /\ Len(s) = 5
  /\ s[1] = Nop
  /\ s[2] = Word("ldr_x17", Nowhere) /\ s[3] = Word("br_x17", Nowhere)
  /\ s[4] = Word("low", to) /\ s[5] = Word("high", to)
IsNear(s, to) == s \in Seq(Words) /\ Len(s) = 1 /\ s[1] = Word("b", to)

LEMMA FarJumpIs ==
  ASSUME NEW to \in Place
  PROVE  /\ IsFar(FarJump(to), to) /\ IsFarAfterNop(<<Nop>> \o FarJump(to), to)
         /\ IsNear(<<Word("b", to)>>, to)
<1>1. /\ Word("ldr_x17", Nowhere) \in Words /\ Word("br_x17", Nowhere) \in Words
      /\ Word("low", to) \in Words /\ Word("high", to) \in Words /\ Nop \in Words
      /\ Word("b", to) \in Words
  <2>1. /\ "ldr_x17" \in Ops /\ "br_x17" \in Ops /\ "low" \in Ops
        /\ "high" \in Ops /\ "nop" \in Ops /\ "b" \in Ops
    BY DEF Ops
  <2>2. Nop = Word("nop", Nowhere)
    BY DEF Nop
  <2> QED
    BY <2>1, <2>2, WordsAre, Zenon
<1>2. IsFar(FarJump(to), to)
  BY <1>1, FourOf, Zenon DEF IsFar, FarJump
<1>3. IsNear(<<Word("b", to)>>, to)
  BY <1>1, OneOf, Zenon DEF IsNear
<1>4. PICK s \in Seq(Words) : s = FarJump(to)
  BY <1>2 DEF IsFar
<1>5. PICK n \in Seq(Words) : n = <<Nop>> /\ Len(n) = 1 /\ n[1] = Nop
  BY <1>1, OneOf, Zenon
<1>6. IsFar(s, to)
  BY <1>2, <1>4
<1>7. PICK u : /\ u = n \o s /\ u \in Seq(Words) /\ Len(u) = Len(n) + Len(s)
               /\ \A i \in 1 .. Len(n) : u[i] = n[i]
               /\ \A i \in 1 .. Len(s) : u[Len(n) + i] = s[i]
  <2>1. /\ n \o s \in Seq(Words) /\ Len(n \o s) = Len(n) + Len(s)
        /\ \A i \in 1 .. Len(n) : (n \o s)[i] = n[i]
        /\ \A i \in 1 .. Len(s) : (n \o s)[Len(n) + i] = s[i]
    BY Joined
  <2> QED
    BY <2>1, Zenon
<1>8. /\ u[1] = n[1] /\ u[2] = s[1] /\ u[3] = s[2] /\ u[4] = s[3] /\ u[5] = s[4]
      /\ Len(u) = 5
  <2>1. Len(n) = 1 /\ Len(s) = 4
    BY <1>5, <1>6 DEF IsFar
  <2>2. /\ Len(u) = 1 + 4
        /\ \A i \in 1 .. 1 : u[i] = n[i]
        /\ \A i \in 1 .. 4 : u[1 + i] = s[i]
    BY <1>7, <2>1, Zenon
  <2> QED
    BY <2>2
<1>9. IsFarAfterNop(u, to)
  BY <1>5, <1>6, <1>7, <1>8 DEF IsFar, IsFarAfterNop
<1> QED
  BY <1>2, <1>3, <1>4, <1>5, <1>7, <1>9, Zenon

LEMMA JumpWords ==
  ASSUME NEW f \in Function, NEW to \in Place,
         lies \in [Function -> {"near", "even", "odd"}]
  PROVE  /\ lies[f] = "near" => IsNear(JumpTo(f, to), to) /\ count(f) = 1
         /\ lies[f] = "even" => IsFar(JumpTo(f, to), to) /\ count(f) = 4
         /\ lies[f] = "odd" => IsFarAfterNop(JumpTo(f, to), to) /\ count(f) = 5
<1>1. CASE lies[f] = "near"
  BY <1>1, FarJumpIs DEF JumpTo, count
<1>2. CASE lies[f] = "even"
  <2>1. FarJump(to) \in Seq(Words)
    BY FarJumpIs DEF IsFar
  <2>2. << >> \o FarJump(to) = FarJump(to)
    BY <2>1, ConcatEmptySeq, Zenon
  <2>3. JumpTo(f, to) = << >> \o FarJump(to)
    BY <1>2 DEF JumpTo
  <2> QED
    BY <1>2, <2>2, <2>3, FarJumpIs DEF count
<1>3. CASE lies[f] = "odd"
  <2>1. JumpTo(f, to) = <<Nop>> \o FarJump(to)
    BY <1>3 DEF JumpTo
  <2> QED
    BY <1>3, <2>1, FarJumpIs DEF count
<1> QED
  BY <1>1, <1>2, <1>3

LEMMA CountIs ==
  ASSUME NEW f \in Function, lies \in [Function -> {"near", "even", "odd"}]
  PROVE  count(f) \in 1 .. 5 /\ count(f) < FunLen /\ BackTo(f) \in Place
<1>1. count(f) \in 1 .. 5
  BY DEF count
<1> QED
  BY <1>1, PlacesOfHooks DEF BackTo, InstructionsMoved

LEMMA BackWords ==
  ASSUME NEW f \in Function, lies \in [Function -> {"near", "even", "odd"}],
         NEW back \in JumpsBack(f)
  PROVE  /\ back \in Seq(Words)
         /\ \/ IsNear(back, BackTo(f)) \/ IsFar(back, BackTo(f))
            \/ IsFarAfterNop(back, BackTo(f))
<1>1. \/ IsNear(back, BackTo(f)) \/ IsFar(back, BackTo(f))
      \/ IsFarAfterNop(back, BackTo(f))
  BY CountIs, FarJumpIs DEF JumpsBack
<1> QED
  BY <1>1 DEF IsNear, IsFar, IsFarAfterNop
\* The instructions of f as they are copied to slot k, one after the other.
Literal(f, i) == code[f][IF i + 1 < FunLen THEN i + 1 ELSE 0]
CopyStep(f, k, i, s) == s \o CopyOf(code[f][i - 1], Literal(f, i), k, Len(s))
Copies(f, n, k) ==
  CHOOSE done : done = [i \in 0 .. n |->
    IF i = 0 THEN << >>
    ELSE done[i - 1] \o
           CopyOf(code[f][i - 1], code[f][IF i + 1 < FunLen THEN i + 1 ELSE 0],
                  k, Len(done[i - 1]))]

\* A load of a literal takes it along, and jumps over it.
IsLoadCopy(c, w, literal, k, i) ==
  /\ c \in Seq(Words) /\ Len(c) = 4
  /\ c[1] = w /\ c[2] = Word("b", Slot(k, i + 4))
  /\ c[3] = literal /\ c[4] = Word("high", literal.to)
IsCopy(c, w, literal, k, i) ==
  /\ c \in Seq(Words)
  /\ w.op # "ldr_x17" => Len(c) = 1 /\ c[1] = w
  /\ w.op = "ldr_x17" => IsLoadCopy(c, w, literal, k, i)

LEMMA CopyIs ==
  ASSUME NEW w \in Words, NEW literal \in Words, NEW k \in Int, NEW i \in Nat
  PROVE  IsCopy(CopyOf(w, literal, k, i), w, literal, k, i)
<1>1. Slot(k, i + 4) \in Place
  BY PlacesOfHooks
<1>2. Word("b", Slot(k, i + 4)) \in Words
  <2>1. "b" \in Ops
    BY DEF Ops
  <2> QED
    BY <1>1, <2>1, WordsAre, Zenon
<1>3. [literal EXCEPT !.op = "high"] = Word("high", literal.to)
      /\ [literal EXCEPT !.op = "high"] \in Words
  <2>1. PICK o \in Ops, t \in Place : literal = [op |-> o, to |-> t]
    BY DEF Words
  <2>2. [literal EXCEPT !.op = "high"] = [op |-> "high", to |-> t] /\ literal.to = t
    BY <2>1
  <2>3. "high" \in Ops
    BY DEF Ops
  <2> QED
    BY <2>2, <2>3 DEF Word, Words
<1>4. CASE w.op = "ldr_x17"
  <2>1. CopyOf(w, literal, k, i) =
          <<w, Word("b", Slot(k, i + 4)), literal, [literal EXCEPT !.op = "high"]>>
    BY <1>4 DEF CopyOf
  <2>2. PICK b \in Words : b = Word("b", Slot(k, i + 4))
    BY <1>2
  <2>3. PICK h \in Words : h = [literal EXCEPT !.op = "high"]
    BY <1>3
  <2>4. CopyOf(w, literal, k, i) = <<w, b, literal, h>>
    BY <2>1, <2>2, <2>3, Zenon
  <2>5. /\ <<w, b, literal, h>> \in Seq(Words) /\ Len(<<w, b, literal, h>>) = 4
        /\ <<w, b, literal, h>>[1] = w /\ <<w, b, literal, h>>[2] = b
        /\ <<w, b, literal, h>>[3] = literal /\ <<w, b, literal, h>>[4] = h
    BY FourOf
  <2> QED
    BY <1>3, <1>4, <2>2, <2>3, <2>4, <2>5, Zenon DEF IsCopy, IsLoadCopy
<1>5. CASE w.op # "ldr_x17"
  <2>1. CopyOf(w, literal, k, i) = <<w>>
    BY <1>5 DEF CopyOf
  <2> QED
    BY <1>5, <2>1, OneOf, Zenon DEF IsCopy
<1> QED
  BY <1>4, <1>5

LEMMA CopiedSteps ==
  ASSUME NEW f \in Function, NEW n \in 0 .. FunLen, NEW k \in Int,
         code \in [Function -> [0 .. FunLen - 1 -> Words]]
  PROVE  /\ Copied(f, n, k) = Copies(f, n, k)[n]
         /\ Copies(f, n, k)[0] = << >>
         /\ \A i \in 0 .. n : Copies(f, n, k)[i] \in Seq(Words)
         /\ \A i \in 1 .. n :
              Copies(f, n, k)[i] = CopyStep(f, k, i, Copies(f, n, k)[i - 1])
<1> DEFINE S == Seq(Words)
           G == [i \in 1 .. n |-> [s \in S |-> CopyStep(f, k, i, s)]]
           D == Copies(f, n, k)
<1>1. n \in Nat /\ << >> \in S
  BY EmptySeq
<1>2. \A i \in 1 .. n : \A s \in S : CopyStep(f, k, i, s) \in S
  <2>1. TAKE i \in 1 .. n
  <2>2. TAKE s \in S
  <2>3. i - 1 \in 0 .. FunLen - 1 /\ (IF i + 1 < FunLen THEN i + 1 ELSE 0) \in 0 .. FunLen - 1
    BY <1>1, <2>1
  <2>4. code[f][i - 1] \in Words /\ Literal(f, i) \in Words /\ Len(s) \in Nat
    BY <2>3, LenProperties DEF Literal
  <2>5. CopyOf(code[f][i - 1], Literal(f, i), k, Len(s)) \in S
    <3>1. IsCopy(CopyOf(code[f][i - 1], Literal(f, i), k, Len(s)),
                 code[f][i - 1], Literal(f, i), k, Len(s))
      BY <2>4, CopyIs, Zenon
    <3> QED
      BY <3>1, Zenon DEF IsCopy
  <2> QED
    BY <2>5, Joined, Zenon DEF CopyStep
<1>3. G \in [1 .. n -> [S -> S]]
  <2> HIDE DEF S
  <2> QED
    BY <1>2
<1>4. PICK g : Runs(g, n, S, << >>, G)
  <2> HIDE DEF S, G
  <2> QED
    BY <1>1, <1>3, Recursion
<1>5. g \in [0 .. n -> S] /\ g[0] = << >>
      /\ \A i \in 1 .. n : g[i] = CopyStep(f, k, i, g[i - 1])
  <2> HIDE DEF S
  <2>1. g \in [0 .. n -> S] /\ g[0] = << >> /\ \A i \in 1 .. n : g[i] = G[i][g[i - 1]]
    BY <1>4 DEF Runs
  <2>2. ASSUME NEW i \in 1 .. n
        PROVE  g[i] = CopyStep(f, k, i, g[i - 1])
    <3>1. g[i - 1] \in S
      BY <1>1, <2>1
    <3> QED
      BY <2>1, <3>1
  <2> QED
    BY <2>1, <2>2
<1> HIDE DEF G, S
<1>6. g = [i \in 0 .. n |->
             IF i = 0 THEN << >>
             ELSE g[i - 1] \o
                    CopyOf(code[f][i - 1], code[f][IF i + 1 < FunLen THEN i + 1 ELSE 0],
                           k, Len(g[i - 1]))]
  <2>1. g = [i \in 0 .. n |-> g[i]]
    BY <1>5
  <2>2. \A i \in 0 .. n :
          g[i] = IF i = 0 THEN << >>
                 ELSE g[i - 1] \o
                   CopyOf(code[f][i - 1], code[f][IF i + 1 < FunLen THEN i + 1 ELSE 0],
                          k, Len(g[i - 1]))
    <3>1. TAKE i \in 0 .. n
    <3>2. i # 0 => i \in 1 .. n
      BY <1>1
    <3>3. i # 0 => g[i] = CopyStep(f, k, i, g[i - 1])
      BY <1>5, <3>2
    <3> QED
      BY <1>5, <3>3, Zenon DEF CopyStep, Literal
  <2> QED
    BY <2>1, <2>2, Zenon
<1>7. D = [i \in 0 .. n |->
             IF i = 0 THEN << >>
             ELSE D[i - 1] \o
                    CopyOf(code[f][i - 1], code[f][IF i + 1 < FunLen THEN i + 1 ELSE 0],
                           k, Len(D[i - 1]))]
  BY <1>6, Zenon DEF Copies
<1>8. Copied(f, n, k) = D[n]
  BY DEF Copied, Copies
<1> HIDE DEF D
<1>9. D[0] = << >>
  BY <1>1, <1>7
<1>10. ASSUME NEW i \in 1 .. n
       PROVE  D[i] = CopyStep(f, k, i, D[i - 1])
  <2>1. i \in 0 .. n /\ i # 0
    BY <1>1
  <2>2. D[i] = IF i = 0 THEN << >>
               ELSE D[i - 1] \o
                 CopyOf(code[f][i - 1], code[f][IF i + 1 < FunLen THEN i + 1 ELSE 0],
                        k, Len(D[i - 1]))
    BY <1>7, <2>1, Zenon
  <2> QED
    BY <2>1, <2>2, Zenon DEF CopyStep, Literal
<1>11. \A i \in 0 .. n : D[i] \in S
  <2> DEFINE Ok == {i \in 0 .. n : D[i] \in S}
  <2>1. Ok \in SUBSET (0 .. n) /\ 0 \in Ok
    BY <1>1, <1>9
  <2>2. ASSUME NEW m \in Ok, m < n
        PROVE  m + 1 \in Ok
    <3>1. m + 1 \in 1 .. n /\ m + 1 \in 0 .. n /\ (m + 1) - 1 = m
      BY <1>1, <2>2
    <3>2. D[m + 1] = CopyStep(f, k, m + 1, D[m]) /\ D[m] \in S
      BY <1>10, <3>1
    <3>3. D[m + 1] \in S
      BY <1>2, <3>1, <3>2
    <3> QED
      BY <3>1, <3>3
  <2> HIDE DEF Ok
  <2>3. Ok = 0 .. n
    BY <1>1, <2>1, <2>2, Upward
  <2> QED
    BY <2>3 DEF Ok
<1> USE DEF D, S
<1> QED
  BY <1>8, <1>9, <1>10, <1>11
LEMMA OwnWordIs ==
  ASSUME NEW f \in Function, NEW i \in Nat
  PROVE  /\ OwnWord(f, i) \in Words /\ OwnWord(f, i).op = "own"
         /\ OwnWord(f, i).to = Code(f, i)
<1>1. "own" \in Ops
  BY DEF Ops
<1>2. Code(f, i) \in Place
  BY PlacesOfHooks
<1> QED
  BY <1>1, <1>2, WordsAre, Zenon DEF OwnWord

LEMMA OwnWordsAre ==
  ASSUME NEW f \in Function, NEW n \in Nat
  PROVE  /\ OwnWords(f, n) \in Seq(Words) /\ Len(OwnWords(f, n)) = n
         /\ \A i \in 0 .. n - 1 : OwnWords(f, n)[i + 1] = OwnWord(f, i)
         /\ OwnWords(f, 0) = << >>
         /\ OwnWords(f, n) \o <<OwnWord(f, n)>> = OwnWords(f, n + 1)
<1>1. ASSUME NEW m \in Nat
      PROVE  /\ OwnWords(f, m) \in Seq(Words) /\ Len(OwnWords(f, m)) = m
             /\ \A i \in 1 .. m : OwnWords(f, m)[i] = OwnWord(f, i - 1)
  <2>1. \A i \in 1 .. m : OwnWord(f, i - 1) \in Words
    BY OwnWordIs
  <2>2. OwnWords(f, m) \in [1 .. m -> Words]
        /\ \A i \in 1 .. m : OwnWords(f, m)[i] = OwnWord(f, i - 1)
    BY <2>1 DEF OwnWords
  <2> QED
    BY <2>2, FunctionSeq
<1>2. \A i \in 0 .. n - 1 : OwnWords(f, n)[i + 1] = OwnWord(f, i)
  <2>1. TAKE i \in 0 .. n - 1
  <2>2. i + 1 \in 1 .. n /\ (i + 1) - 1 = i
    OBVIOUS
  <2> QED
    BY <1>1, <2>2
<1>3. OwnWords(f, 0) = << >>
  <2>1. OwnWords(f, 0) \in Seq(Words) /\ Len(OwnWords(f, 0)) = 0
    BY <1>1
  <2> QED
    BY <2>1, EmptySeq
<1>4. OwnWords(f, n) \o <<OwnWord(f, n)>> = OwnWords(f, n + 1)
  <2>1. PICK s \in Seq(Words) : s = OwnWords(f, n) /\ Len(s) = n
                                /\ \A i \in 1 .. n : s[i] = OwnWord(f, i - 1)
    BY <1>1
  <2>2. PICK w \in Words : w = OwnWord(f, n)
    BY OwnWordIs
  <2>3. PICK t \in Seq(Words) : t = <<w>> /\ Len(t) = 1 /\ t[1] = w
    BY OneOf, Zenon
  <2>4. /\ s \o t \in Seq(Words) /\ Len(s \o t) = Len(s) + Len(t)
        /\ \A i \in 1 .. Len(s) : (s \o t)[i] = s[i]
        /\ \A i \in 1 .. Len(t) : (s \o t)[Len(s) + i] = t[i]
    BY Joined
  <2>5. PICK u \in Seq(Words) : u = s \o t
    BY <2>4
  <2>6. /\ Len(u) = n + 1 /\ u[n + 1] = w
        /\ \A i \in 1 .. n : u[i] = OwnWord(f, i - 1)
    <3>1. /\ Len(u) = n + 1
          /\ \A i \in 1 .. n : u[i] = s[i]
          /\ \A i \in 1 .. 1 : u[n + i] = t[i]
      BY <2>1, <2>3, <2>4, <2>5, Zenon
    <3>2. 1 \in 1 .. 1
      OBVIOUS
    <3> QED
      BY <2>1, <2>3, <3>1, <3>2
  <2>7. PICK v \in Seq(Words) : v = OwnWords(f, n + 1) /\ Len(v) = n + 1
                                /\ \A i \in 1 .. n + 1 : v[i] = OwnWord(f, i - 1)
    <3>1. n + 1 \in Nat
      OBVIOUS
    <3> QED
      BY <1>1, <3>1
  <2>8. \A i \in 1 .. n + 1 : u[i] = v[i]
    <3>1. TAKE i \in 1 .. n + 1
    <3>2. CASE i = n + 1
      <4>1. i - 1 = n
        BY <3>2
      <4> QED
        BY <2>2, <2>6, <2>7, <3>2, <4>1
    <3>3. CASE i # n + 1
      <4>1. i \in 1 .. n
        BY <3>3
      <4> QED
        BY <2>6, <2>7, <4>1
    <3> QED
      BY <3>2, <3>3
  <2>9. u = v
    BY <2>6, <2>7, <2>8, SeqEqual
  <2> QED
    BY <2>1, <2>2, <2>3, <2>5, <2>7, <2>9, Zenon
<1> QED
  BY <1>1, <1>2, <1>3, <1>4

\* A function that is not hooked is copied word by word.
LEMMA OwnCopied ==
  ASSUME NEW f \in Function, NEW n \in 0 .. FunLen, NEW k \in Int,
         code \in [Function -> [0 .. FunLen - 1 -> Words]],
         \A i \in 0 .. n - 1 : code[f][i] = OwnWord(f, i)
  PROVE  Copied(f, n, k) = OwnWords(f, n)
<1> DEFINE D == Copies(f, n, k)
           Ok == {i \in 0 .. n : D[i] = OwnWords(f, i)}
<1>1. /\ Copied(f, n, k) = D[n] /\ D[0] = << >>
      /\ \A i \in 0 .. n : D[i] \in Seq(Words)
      /\ \A i \in 1 .. n : D[i] = CopyStep(f, k, i, D[i - 1])
  BY CopiedSteps
<1> HIDE DEF D
<1>2. Ok \in SUBSET (0 .. n) /\ 0 \in Ok
  <2>1. 0 \in Nat /\ 0 \in 0 .. n
    OBVIOUS
  <2>2. OwnWords(f, 0) = << >>
    BY <2>1, OwnWordsAre, Zenon
  <2> QED
    BY <1>1, <2>1, <2>2, Zenon
<1>3. ASSUME NEW m \in Ok, m < n
      PROVE  m + 1 \in Ok
  <2>1. m + 1 \in 1 .. n /\ (m + 1) - 1 = m /\ m \in 0 .. n - 1 /\ m \in Nat
        /\ n \in Nat /\ m \in 0 .. FunLen - 1 /\ m + 1 \in 0 .. n
        /\ (IF (m + 1) + 1 < FunLen THEN (m + 1) + 1 ELSE 0) \in 0 .. FunLen - 1
    BY <1>3
  <2>2. D[m + 1] = OwnWords(f, m) \o CopyOf(OwnWord(f, m), Literal(f, m + 1), k, m)
    <3>1. D[m + 1] = CopyStep(f, k, m + 1, D[m])
      BY <1>1, <2>1
    <3>2. D[m] = OwnWords(f, m) /\ Len(OwnWords(f, m)) = m /\ code[f][m] = OwnWord(f, m)
      BY <2>1, OwnWordsAre
    <3> QED
      BY <2>1, <3>1, <3>2, Zenon DEF CopyStep
  <2>3. CopyOf(OwnWord(f, m), Literal(f, m + 1), k, m) = <<OwnWord(f, m)>>
    <3>1. PICK literal \in Words : literal = Literal(f, m + 1)
      BY <2>1 DEF Literal
    <3>2. PICK w \in Words : w = OwnWord(f, m) /\ w.op # "ldr_x17"
      BY <2>1, OwnWordIs
    <3>3. CopyOf(w, literal, k, m) = <<w>>
      BY <3>2 DEF CopyOf
    <3> QED
      BY <3>1, <3>2, <3>3, Zenon
  <2>4. D[m + 1] = OwnWords(f, m + 1)
    BY <2>1, <2>2, <2>3, OwnWordsAre, Zenon
  <2> QED
    BY <2>1, <2>4
<1> HIDE DEF Ok
<1>4. Ok = 0 .. n
  <2>1. n \in Nat
    OBVIOUS
  <2> QED
    BY <1>2, <1>3, <2>1, Upward
<1>5. n \in Ok
  BY <1>4
<1> QED
  BY <1>1, <1>5 DEF Ok
\* What copying one more word adds: the word, or a load with its literal.
Extends(t, s, n) ==
  /\ s \in Seq(Words) /\ t \in Seq(Words) /\ Len(s) \in Nat
  /\ Len(t) = Len(s) + n /\ \A j \in 1 .. Len(s) : t[j] = s[j]

Adds(t, s, w, literal, k) ==
  /\ w.op # "ldr_x17" => Extends(t, s, 1) /\ t[Len(s) + 1] = w
  /\ w.op = "ldr_x17" =>
       /\ Extends(t, s, 4) /\ t[Len(s) + 1] = w
       /\ t[Len(s) + 2] = Word("b", Slot(k, Len(s) + 4))
       /\ t[Len(s) + 3] = literal
       /\ t[Len(s) + 4] = Word("high", literal.to)

LEMMA CopyAdds ==
  ASSUME NEW s \in Seq(Words), NEW w \in Words, NEW literal \in Words, NEW k \in Int
  PROVE  Adds(s \o CopyOf(w, literal, k, Len(s)), s, w, literal, k)
<1>1. PICK l \in Nat : l = Len(s)
  BY LenProperties
<1>2. PICK c : c = CopyOf(w, literal, k, l) /\ IsCopy(c, w, literal, k, l)
  BY CopyIs
<1>0. c \in Seq(Words)
  BY <1>2 DEF IsCopy
<1>3. PICK t \in Seq(Words) :
        /\ t = s \o c /\ Len(t) = Len(s) + Len(c)
        /\ \A j \in 1 .. Len(s) : t[j] = s[j]
        /\ \A j \in 1 .. Len(c) : t[Len(s) + j] = c[j]
  <2>1. /\ s \o c \in Seq(Words) /\ Len(s \o c) = Len(s) + Len(c)
        /\ \A j \in 1 .. Len(s) : (s \o c)[j] = s[j]
        /\ \A j \in 1 .. Len(c) : (s \o c)[Len(s) + j] = c[j]
    BY <1>0, Joined
  <2> QED
    BY <2>1, Zenon
<1>4. t = s \o CopyOf(w, literal, k, Len(s))
  BY <1>1, <1>2, <1>3, Zenon
<1>5. \A n \in Nat : Len(c) = n =>
        Extends(t, s, n) /\ \A j \in 1 .. n : t[l + j] = c[j]
  <2>1. TAKE n \in Nat
  <2>2. HAVE Len(c) = n
  <2>3. Len(t) = l + n /\ \A j \in 1 .. n : t[l + j] = c[j]
    BY <1>1, <1>3, <2>2, Zenon
  <2> QED
    BY <1>1, <1>3, <2>3, Zenon DEF Extends
<1>6. ASSUME w.op = "ldr_x17"
      PROVE  Adds(t, s, w, literal, k)
  <2>1. Len(c) = 4 /\ c[1] = w /\ c[2] = Word("b", Slot(k, l + 4))
        /\ c[3] = literal /\ c[4] = Word("high", literal.to)
    BY <1>2, <1>6, Zenon DEF IsCopy, IsLoadCopy
  <2>2. Extends(t, s, 4) /\ \A j \in 1 .. 4 : t[l + j] = c[j]
    BY <1>5, <2>1
  <2>3. t[l + 1] = c[1] /\ t[l + 2] = c[2] /\ t[l + 3] = c[3] /\ t[l + 4] = c[4]
    BY <2>2
  <2> QED
    BY <1>1, <1>6, <2>1, <2>2, <2>3, Zenon DEF Adds
<1>7. ASSUME w.op # "ldr_x17"
      PROVE  Adds(t, s, w, literal, k)
  <2>1. Len(c) = 1 /\ c[1] = w
    BY <1>2, <1>7, Zenon DEF IsCopy
  <2>2. Extends(t, s, 1) /\ \A j \in 1 .. 1 : t[l + j] = c[j]
    BY <1>5, <2>1
  <2>3. t[l + 1] = c[1]
    BY <2>2
  <2> QED
    BY <1>1, <1>7, <2>1, <2>2, <2>3, Zenon DEF Adds
<1>8. Adds(t, s, w, literal, k)
  BY <1>6, <1>7
<1> QED
  BY <1>4, <1>8, Zenon

LEMMA CopiedNext ==
  ASSUME NEW f \in Function, NEW n \in 0 .. FunLen, NEW k \in Int, NEW i \in 1 .. n,
         code \in [Function -> [0 .. FunLen - 1 -> Words]],
         NEW s, s = Copies(f, n, k)[i - 1], NEW t, t = Copies(f, n, k)[i],
         NEW w, w = code[f][i - 1]
  PROVE  Adds(t, s, w, Literal(f, i), k)
<1>1. i - 1 \in 0 .. n /\ i - 1 \in 0 .. FunLen - 1
      /\ (IF i + 1 < FunLen THEN i + 1 ELSE 0) \in 0 .. FunLen - 1
  OBVIOUS
<1>2. w \in Words /\ Literal(f, i) \in Words
  BY <1>1 DEF Literal
<1>3. s \in Seq(Words)
  BY <1>1, CopiedSteps
<1>4. t = s \o CopyOf(w, Literal(f, i), k, Len(s))
  <2>1. Copies(f, n, k)[i] = CopyStep(f, k, i, Copies(f, n, k)[i - 1])
    BY CopiedSteps
  <2>2. t = CopyStep(f, k, i, s)
    BY <2>1, Zenon
  <2> QED
    BY <2>2, Zenon DEF CopyStep
<1>5. PICK literal \in Words : literal = Literal(f, i)
  BY <1>2
<1>6. t = s \o CopyOf(w, literal, k, Len(s))
  BY <1>4, <1>5, Zenon
<1>7. Adds(s \o CopyOf(w, literal, k, Len(s)), s, w, literal, k)
  BY <1>2, <1>3, CopyAdds
<1> QED
  BY <1>5, <1>6, <1>7, Zenon
\* Copying the words s of a jump, the load at word n, goes to the same place.
LEMMA MovedCopied ==
  ASSUME NEW f \in Function, NEW k \in Int, NEW to \in Place,
         lies \in [Function -> {"near", "even", "odd"}],
         code \in [Function -> [0 .. FunLen - 1 -> Words]],
         \A i \in 0 .. count(f) - 1 : code[f][i] = JumpTo(f, to)[i + 1]
  PROVE  /\ Copied(f, count(f), k) \in Seq(Words)
         /\ StartsWith(Copied(f, count(f), k), Moved(f, k, to))
<1> DEFINE n == count(f)
           D == Copies(f, n, k)
<1>1. n \in 1 .. 5 /\ n \in 0 .. FunLen
  BY CountIs
<1>2. /\ Copied(f, n, k) = D[n] /\ Len(D[0]) = 0
      /\ \A i \in 0 .. n : D[i] \in Seq(Words)
  BY <1>1, CopiedSteps, EmptySeq, SMTT(30)
<1>0. Len(D[0]) = 0
  BY <1>2
<1>3. \A i \in 1 .. n : Adds(D[i], D[i - 1], code[f][i - 1], Literal(f, i), k)
  BY <1>1, CopiedNext, Zenon
<1>4. \A i \in 1 .. n : code[f][i - 1] = JumpTo(f, to)[i]
  <2>1. TAKE i \in 1 .. n
  <2>2. i - 1 \in 0 .. n - 1 /\ (i - 1) + 1 = i
    BY <1>1
  <2> QED
    BY <2>2
<1>5. Copied(f, n, k) \in Seq(Words)
  BY <1>1, <1>2
<1>6. ASSUME NEW i \in 1 .. n, JumpTo(f, to)[i].op # "ldr_x17"
      PROVE  /\ Len(D[i]) = Len(D[i - 1]) + 1 /\ Len(D[i - 1]) \in Nat
             /\ D[i][Len(D[i - 1]) + 1] = JumpTo(f, to)[i]
             /\ \A j \in 1 .. Len(D[i - 1]) : D[i][j] = D[i - 1][j]
  BY <1>3, <1>4, <1>6, Zenon DEF Adds, Extends
<1>7. ASSUME NEW i \in 1 .. n, JumpTo(f, to)[i].op = "ldr_x17"
      PROVE  /\ Len(D[i]) = Len(D[i - 1]) + 4 /\ Len(D[i - 1]) \in Nat
             /\ D[i][Len(D[i - 1]) + 1] = JumpTo(f, to)[i]
             /\ D[i][Len(D[i - 1]) + 2] = Word("b", Slot(k, Len(D[i - 1]) + 4))
             /\ D[i][Len(D[i - 1]) + 3] = Literal(f, i)
             /\ D[i][Len(D[i - 1]) + 4] = Word("high", Literal(f, i).to)
             /\ \A j \in 1 .. Len(D[i - 1]) : D[i][j] = D[i - 1][j]
  BY <1>3, <1>4, <1>7, Zenon DEF Adds, Extends
<1>8. /\ Word("ldr_x17", Nowhere).op = "ldr_x17"
      /\ Word("br_x17", Nowhere).op # "ldr_x17"
      /\ Word("low", to).op # "ldr_x17" /\ Word("low", to).to = to
      /\ Word("high", to).op # "ldr_x17" /\ Nop.op # "ldr_x17"
      /\ Word("b", to).op # "ldr_x17"
  BY DEF Word, Nop
<1> HIDE DEF D
<1>9. CASE lies[f] = "near"
  <2>1. JumpTo(f, to)[1] = Word("b", to) /\ n = 1
    BY <1>9, JumpWords DEF IsNear
  <2>2. 1 \in 1 .. n /\ 1 - 1 = 0 /\ 0 + 1 = 1
    BY <2>1
  <2>3. Len(D[1]) = 1 /\ D[1][1] = Word("b", to)
    <3>1. Len(D[1]) = Len(D[0]) + 1 /\ D[1][Len(D[0]) + 1] = Word("b", to)
      BY <1>6, <1>8, <2>1, <2>2
    <3> QED
      BY <1>0, <3>1
  <2>4. Moved(f, k, to) = <<Word("b", to)>>
    BY <1>9 DEF Moved
  <2>5. PICK p : p = Moved(f, k, to) /\ Len(p) = 1 /\ p[1] = Word("b", to)
    BY <2>4
  <2>6. StartsWith(D[1], p)
    BY <2>3, <2>5 DEF StartsWith
  <2> QED
    BY <1>2, <1>5, <2>1, <2>5, <2>6, Zenon
<1>10. CASE lies[f] = "even"
  <2>1. /\ JumpTo(f, to)[1] = Word("ldr_x17", Nowhere)
        /\ JumpTo(f, to)[2] = Word("br_x17", Nowhere)
        /\ JumpTo(f, to)[3] = Word("low", to) /\ JumpTo(f, to)[4] = Word("high", to)
        /\ n = 4
    BY <1>10, JumpWords DEF IsFar
  <2>2. /\ 1 \in 1 .. n /\ 2 \in 1 .. n /\ 3 \in 1 .. n /\ 4 \in 1 .. n
        /\ 1 - 1 = 0 /\ 2 - 1 = 1 /\ 3 - 1 = 2 /\ 4 - 1 = 3
        /\ 0 + 1 = 1 /\ 0 + 2 = 2 /\ 0 + 3 = 3 /\ 0 + 4 = 4
    BY <2>1
  <2>3. Literal(f, 1) = Word("low", to)
    <3>1. 1 + 1 < FunLen /\ 1 + 1 = 3 - 1
      OBVIOUS
    <3> QED
      BY <1>4, <2>1, <2>2, <3>1 DEF Literal
  <2>4. /\ Len(D[1]) = 4 /\ D[1][1] = Word("ldr_x17", Nowhere)
        /\ D[1][2] = Word("b", Slot(k, 4)) /\ D[1][3] = Word("low", to)
        /\ D[1][4] = Word("high", to)
    <3>1. /\ Len(D[1]) = Len(D[0]) + 4
          /\ D[1][Len(D[0]) + 1] = Word("ldr_x17", Nowhere)
          /\ D[1][Len(D[0]) + 2] = Word("b", Slot(k, Len(D[0]) + 4))
          /\ D[1][Len(D[0]) + 3] = Literal(f, 1)
          /\ D[1][Len(D[0]) + 4] = Word("high", Literal(f, 1).to)
      BY <1>7, <1>8, <2>1, <2>2, SMTT(30)
    <3>2. Literal(f, 1).to = to
      BY <1>8, <2>3
    <3> QED
      BY <1>0, <2>3, <3>1, <3>2
  <2>5. /\ Len(D[2]) = 5 /\ D[2][5] = Word("br_x17", Nowhere)
        /\ \A j \in 1 .. 4 : D[2][j] = D[1][j]
    <3>1. /\ Len(D[2]) = Len(D[1]) + 1
          /\ D[2][Len(D[1]) + 1] = Word("br_x17", Nowhere)
          /\ \A j \in 1 .. Len(D[1]) : D[2][j] = D[1][j]
      BY <1>6, <1>8, <2>1, <2>2, SMTT(30)
    <3> QED
      BY <2>4, <3>1
  <2>6. Len(D[3]) = 6 /\ \A j \in 1 .. 5 : D[3][j] = D[2][j]
    <3>1. /\ Len(D[3]) = Len(D[2]) + 1
          /\ \A j \in 1 .. Len(D[2]) : D[3][j] = D[2][j]
      BY <1>6, <1>8, <2>1, <2>2
    <3> QED
      BY <2>5, <3>1
  <2>7. Len(D[4]) = 7 /\ \A j \in 1 .. 6 : D[4][j] = D[3][j]
    <3>1. /\ Len(D[4]) = Len(D[3]) + 1
          /\ \A j \in 1 .. Len(D[3]) : D[4][j] = D[3][j]
      BY <1>6, <1>8, <2>1, <2>2
    <3> QED
      BY <2>6, <3>1
  <2>11. PICK p : p = Moved(f, k, to)
    OBVIOUS
  <2>8. /\ p = Moved(f, k, to) /\ Len(p) = 5
        /\ p[1] = Word("ldr_x17", Nowhere) /\ p[2] = Word("b", Slot(k, 4))
        /\ p[3] = Word("low", to) /\ p[4] = Word("high", to)
        /\ p[5] = Word("br_x17", Nowhere)
    <3>1. p =
            <<Word("ldr_x17", Nowhere), Word("b", Slot(k, 4)), Word("low", to),
              Word("high", to), Word("br_x17", Nowhere)>>
      BY <1>10, <2>11 DEF Moved
    <3> QED
      BY <2>11, <3>1
  <2>9. StartsWith(D[4], p)
    <3>1. \A j \in 1 .. 5 : D[4][j] = D[2][j]
      BY <2>6, <2>7
    <3>2. /\ D[4][1] = p[1] /\ D[4][2] = p[2] /\ D[4][3] = p[3] /\ D[4][4] = p[4]
          /\ D[4][5] = p[5]
      BY <2>4, <2>5, <2>8, <3>1
    <3>3. \A j \in 1 .. 5 : j = 1 \/ j = 2 \/ j = 3 \/ j = 4 \/ j = 5
      OBVIOUS
    <3>4. \A j \in 1 .. 5 : D[4][j] = p[j]
      BY <3>2, <3>3, Zenon
    <3> QED
      BY <2>7, <2>8, <3>4 DEF StartsWith
  <2> QED
    BY <1>2, <1>5, <2>1, <2>8, <2>9, Zenon
<1>11. CASE lies[f] = "odd"
  <2>1. /\ JumpTo(f, to)[1] = Nop
        /\ JumpTo(f, to)[2] = Word("ldr_x17", Nowhere)
        /\ JumpTo(f, to)[3] = Word("br_x17", Nowhere)
        /\ JumpTo(f, to)[4] = Word("low", to) /\ JumpTo(f, to)[5] = Word("high", to)
        /\ n = 5
    BY <1>11, JumpWords DEF IsFarAfterNop
  <2>2. /\ 1 \in 1 .. n /\ 2 \in 1 .. n /\ 3 \in 1 .. n /\ 4 \in 1 .. n /\ 5 \in 1 .. n
        /\ 1 - 1 = 0 /\ 2 - 1 = 1 /\ 3 - 1 = 2 /\ 4 - 1 = 3 /\ 5 - 1 = 4
        /\ 0 + 1 = 1 /\ 1 + 1 = 2 /\ 1 + 2 = 3 /\ 1 + 3 = 4 /\ 1 + 4 = 5
    BY <2>1
  <2>3. Literal(f, 2) = Word("low", to)
    <3>1. 2 + 1 < FunLen /\ 2 + 1 = 4 - 1
      OBVIOUS
    <3> QED
      BY <1>4, <2>1, <2>2, <3>1 DEF Literal
  <2>4. Len(D[1]) = 1 /\ D[1][1] = Nop
    <3>1. Len(D[1]) = Len(D[0]) + 1 /\ D[1][Len(D[0]) + 1] = Nop
      BY <1>6, <1>8, <2>1, <2>2, ZenonT(30)
    <3> QED
      BY <1>0, <3>1
  <2>5. /\ Len(D[2]) = 5 /\ D[2][1] = Nop /\ D[2][2] = Word("ldr_x17", Nowhere)
        /\ D[2][3] = Word("b", Slot(k, 5)) /\ D[2][4] = Word("low", to)
        /\ D[2][5] = Word("high", to)
    <3>1. /\ Len(D[2]) = Len(D[1]) + 4
          /\ D[2][Len(D[1]) + 1] = Word("ldr_x17", Nowhere)
          /\ D[2][Len(D[1]) + 2] = Word("b", Slot(k, Len(D[1]) + 4))
          /\ D[2][Len(D[1]) + 3] = Literal(f, 2)
          /\ D[2][Len(D[1]) + 4] = Word("high", Literal(f, 2).to)
          /\ \A j \in 1 .. Len(D[1]) : D[2][j] = D[1][j]
      BY <1>7, <1>8, <2>1, <2>2, SMTT(30)
    <3>3. Literal(f, 2).to = to
      BY <1>8, <2>3
    <3>2. 1 \in 1 .. 1
      OBVIOUS
    <3> QED
      BY <2>2, <2>3, <2>4, <3>1, <3>2, <3>3
  <2>6. /\ Len(D[3]) = 6 /\ D[3][6] = Word("br_x17", Nowhere)
        /\ \A j \in 1 .. 5 : D[3][j] = D[2][j]
    <3>1. /\ Len(D[3]) = Len(D[2]) + 1
          /\ D[3][Len(D[2]) + 1] = Word("br_x17", Nowhere)
          /\ \A j \in 1 .. Len(D[2]) : D[3][j] = D[2][j]
      BY <1>6, <1>8, <2>1, <2>2, SMTT(30)
    <3> QED
      BY <2>5, <3>1
  <2>7. Len(D[4]) = 7 /\ \A j \in 1 .. 6 : D[4][j] = D[3][j]
    <3>1. /\ Len(D[4]) = Len(D[3]) + 1
          /\ \A j \in 1 .. Len(D[3]) : D[4][j] = D[3][j]
      BY <1>6, <1>8, <2>1, <2>2
    <3> QED
      BY <2>6, <3>1
  <2>8. Len(D[5]) = 8 /\ \A j \in 1 .. 7 : D[5][j] = D[4][j]
    <3>1. /\ Len(D[5]) = Len(D[4]) + 1
          /\ \A j \in 1 .. Len(D[4]) : D[5][j] = D[4][j]
      BY <1>6, <1>8, <2>1, <2>2
    <3> QED
      BY <2>7, <3>1
  <2>12. PICK p : p = Moved(f, k, to)
    OBVIOUS
  <2>9. /\ p = Moved(f, k, to) /\ Len(p) = 6
        /\ p[1] = Nop /\ p[2] = Word("ldr_x17", Nowhere)
        /\ p[3] = Word("b", Slot(k, 5)) /\ p[4] = Word("low", to)
        /\ p[5] = Word("high", to) /\ p[6] = Word("br_x17", Nowhere)
    <3>1. p =
            <<Nop, Word("ldr_x17", Nowhere), Word("b", Slot(k, 5)),
              Word("low", to), Word("high", to), Word("br_x17", Nowhere)>>
      BY <1>11, <2>12 DEF Moved
    <3> QED
      BY <2>12, <3>1
  <2>10. StartsWith(D[5], p)
    <3>1. \A j \in 1 .. 6 : D[5][j] = D[3][j]
      BY <2>7, <2>8
    <3>2. /\ D[5][1] = p[1] /\ D[5][2] = p[2] /\ D[5][3] = p[3] /\ D[5][4] = p[4]
          /\ D[5][5] = p[5] /\ D[5][6] = p[6]
      BY <2>5, <2>6, <2>9, <3>1
    <3>3. \A j \in 1 .. 6 : j = 1 \/ j = 2 \/ j = 3 \/ j = 4 \/ j = 5 \/ j = 6
      OBVIOUS
    <3>4. \A j \in 1 .. 6 : D[5][j] = p[j]
      BY <3>2, <3>3, Zenon
    <3> QED
      BY <2>8, <2>9, <3>4 DEF StartsWith
  <2> QED
    BY <1>2, <1>5, <2>1, <2>9, <2>10, Zenon
<1> QED
  BY <1>9, <1>10, <1>11
-----------------------------------------------------------------------------
(***************************************************************************)
(* What installing a hook writes.                                          *)
(***************************************************************************)
LEMMA LayoutFirst == Init => Layout
<1> SUFFICES ASSUME Init PROVE Layout
  OBVIOUS
<1>1. /\ lies \in [Function -> {"near", "even", "odd"}] /\ installed = 0
      /\ code = [f \in Function |->
                   [i \in 0 .. FunLen - 1 |-> Word("own", Code(f, i))]]
      /\ pool = [k \in 0 .. HookMax |-> << >>]
  BY DEF Init, HookInit
<1>2. \A f \in Function, i \in 0 .. FunLen - 1 : OwnWord(f, i) \in Words
  BY OwnWordIs
<1>3. code \in [Function -> [0 .. FunLen - 1 -> Words]]
  BY <1>1, <1>2 DEF OwnWord
<1>4. pool \in [0 .. HookMax -> Seq(Words)]
  <2>1. << >> \in Seq(Words)
    BY EmptySeq
  <2> QED
    BY <1>1, <2>1
<1>5. \A h \in 1 .. installed : Filled(h)
  BY <1>1
<1>6. ASSUME NEW f \in Function
      PROVE  Written(f)
  <2>1. Hooks(f, installed) = {}
    BY <1>1, Depths
  <2>2. count(f) \in 1 .. 5 /\ count(f) < FunLen
    BY <1>1, CountIs
  <2>3. \A i \in 0 .. FunLen - 1 : code[f][i] = OwnWord(f, i)
    BY <1>1 DEF OwnWord
  <2> QED
    BY <2>1, <2>2, <2>3 DEF Written
<1> QED
  BY <1>1, <1>3, <1>4, <1>5, <1>6 DEF Layout

\* The layout of the functions never changes.
LEMMA SameLies ==
  ASSUME lies' = lies, NEW f
  PROVE  /\ count(f)' = count(f) /\ JumpsBack(f)' = JumpsBack(f)
         /\ \A k, to : Moved(f, k, to)' = Moved(f, k, to)
         /\ \A to : JumpTo(f, to)' = JumpTo(f, to)
<1>1. count(f)' = count(f)
  BY DEF count
<1>2. BackTo(f)' = BackTo(f)
  BY <1>1 DEF BackTo, InstructionsMoved
<1>3. JumpsBack(f)' = JumpsBack(f)
  BY <1>2 DEF JumpsBack
<1>4. \A k, to : Moved(f, k, to)' = Moved(f, k, to)
  BY DEF Moved
<1>5. \A to : JumpTo(f, to)' = JumpTo(f, to)
  BY DEF JumpTo
<1> QED
  BY <1>1, <1>3, <1>4, <1>5

LEMMA FilledStays ==
  ASSUME lies' = lies, NEW h, pool'[h - 1] = pool[h - 1], Filled(h)
  PROVE  Filled(h)'
<1>1. /\ count(Plan[h])' = count(Plan[h]) /\ JumpsBack(Plan[h])' = JumpsBack(Plan[h])
      /\ \A k, to : Moved(Plan[h], k, to)' = Moved(Plan[h], k, to)
  BY SameLies
<1> QED
  BY <1>1, Zenon DEF Filled

LEMMA LayoutStays ==
  ASSUME Layout, UNCHANGED <<lies, code, pool, installed>>
  PROVE  Layout'
<1>1. \A h \in 1 .. installed' : Filled(h)'
  BY FilledStays DEF Layout
<1>2. ASSUME NEW f \in Function
      PROVE  Written(f)'
  <2>1. /\ count(f)' = count(f) /\ \A to : JumpTo(f, to)' = JumpTo(f, to)
    BY SameLies
  <2>2. Written(f)
    BY DEF Layout
  <2> QED
    BY <2>1, <2>2, Zenon DEF Written
<1> QED
  BY <1>1, <1>2 DEF Layout

LEMMA JumpWordsType ==
  ASSUME NEW f \in Function, NEW to \in Place,
         lies \in [Function -> {"near", "even", "odd"}]
  PROVE  JumpTo(f, to) \in Seq(Words) /\ Len(JumpTo(f, to)) = count(f)
BY JumpWords, ZenonT(30) DEF IsNear, IsFar, IsFarAfterNop

LEMMA LayoutInstall ==
  ASSUME Layout, Slots, Install, installed' # installed
  PROVE  Layout'
<1>0. PICK h, k, f : h = installed + 1 /\ k = installed /\ f = Plan[h]
  OBVIOUS
<1>1. /\ h \in 1 .. Len(Plan) /\ k \in 0 .. HookMax /\ k \in Int /\ installed' = h
      /\ h \in Nat \ {0} /\ k \in Nat /\ h - 1 = k /\ h \in Int
      /\ index' = k /\ lies' = lies
      /\ code' = [code EXCEPT ![f] =
                    [i \in 0 .. FunLen - 1 |->
                       IF i < count(f) THEN JumpTo(f, Callback(h))[i + 1]
                       ELSE code[f][i]]]
  BY <1>0, PlanLength DEF Install, Abort, AllocForTrampoline, Slots, layoutVars
<1>2. PICK back \in JumpsBack(f) :
        pool' = [pool EXCEPT ![k] = Copied(f, count(f), k) \o back]
  BY <1>0, <1>1 DEF Install, Abort, AllocForTrampoline, InstructionsMoved
<1>3. f \in Function
  BY <1>0, <1>1, PlanLength, ElementOfSeq
<1>4. /\ lies \in [Function -> {"near", "even", "odd"}]
      /\ code \in [Function -> [0 .. FunLen - 1 -> Words]]
      /\ pool \in [0 .. HookMax -> Seq(Words)]
      /\ count(f) \in 1 .. 5 /\ count(f) < FunLen /\ back \in Seq(Words)
      /\ Callback(h) \in Place
      /\ JumpTo(f, Callback(h)) \in Seq(Words)
      /\ Len(JumpTo(f, Callback(h))) = count(f)
  BY <1>1, <1>3, CountIs, BackWords, JumpWordsType, PlacesOfHooks DEF Layout
<1>5. /\ \A i \in count(f) .. FunLen - 1 : code'[f][i] = code[f][i]
      /\ \A i \in 0 .. count(f) - 1 : code'[f][i] = JumpTo(f, Callback(h))[i + 1]
      /\ \A e \in Function : e # f => code'[e] = code[e]
  <2>1. PICK c : c = count(f)
    OBVIOUS
  <2>2. PICK jump : jump = JumpTo(f, Callback(h))
    OBVIOUS
  <2>3. code' = [code EXCEPT ![f] = [i \in 0 .. FunLen - 1 |->
                                       IF i < c THEN jump[i + 1] ELSE code[f][i]]]
    BY <1>1, <2>1, <2>2, Zenon
  <2>4. c \in 1 .. 5 /\ c < FunLen /\ f \in DOMAIN code
    BY <1>3, <1>4, <2>1
  <2>5. code'[f] = [i \in 0 .. FunLen - 1 |-> IF i < c THEN jump[i + 1] ELSE code[f][i]]
    BY <2>3, <2>4
  <2>6. \A i \in c .. FunLen - 1 : code'[f][i] = code[f][i]
    BY <2>4, <2>5
  <2>7. \A i \in 0 .. c - 1 : code'[f][i] = jump[i + 1]
    BY <2>4, <2>5
  <2>8. \A e \in Function : e # f => code'[e] = code[e]
    BY <1>4, <2>3
  <2> QED
    BY <2>1, <2>2, <2>6, <2>7, <2>8, Zenon
<1>6. code' \in [Function -> [0 .. FunLen - 1 -> Words]]
  <2>1. \A i \in 0 .. FunLen - 1 :
          (IF i < count(f) THEN JumpTo(f, Callback(h))[i + 1] ELSE code[f][i]) \in Words
    <3>1. TAKE i \in 0 .. FunLen - 1
    <3>2. CASE i < count(f)
      <4>1. i + 1 \in 1 .. Len(JumpTo(f, Callback(h)))
        BY <1>4, <3>2
      <4> QED
        BY <1>4, <3>2, <4>1, ElementOfSeq
    <3>3. CASE ~(i < count(f))
      BY <1>3, <1>4, <3>3
    <3> QED
      BY <3>2, <3>3
  <2> QED
    BY <1>1, <1>3, <1>4, <2>1
<1>7. /\ Written(f)
      /\ \A i \in count(f) .. FunLen - 1 : code[f][i] = OwnWord(f, i)
  BY <1>3 DEF Layout, Written
<1>8. PICK copied \in Seq(Words) :
        /\ copied = Copied(f, count(f), k)
        /\ \/ Hooks(f, k) = {} /\ copied = OwnWords(f, count(f))
           \/ \E g \in 1 .. k : Latest(g, f, k) /\ StartsWith(copied, Moved(f, k, Callback(g)))
  <2>1. CASE Hooks(f, k) = {} /\ \A i \in 0 .. count(f) - 1 : code[f][i] = OwnWord(f, i)
    <3>1. count(f) \in 0 .. FunLen /\ count(f) \in Nat
      BY <1>4
    <3>2. Copied(f, count(f), k) = OwnWords(f, count(f))
      BY <1>1, <1>3, <1>4, <2>1, <3>1, OwnCopied
    <3>3. OwnWords(f, count(f)) \in Seq(Words)
      BY <1>3, <3>1, OwnWordsAre
    <3> QED
      BY <2>1, <3>2, <3>3
  <2>2. ASSUME NEW g \in 1 .. k, Latest(g, f, k),
               \A i \in 0 .. count(f) - 1 : code[f][i] = JumpTo(f, Callback(g))[i + 1]
        PROVE  /\ Copied(f, count(f), k) \in Seq(Words)
               /\ StartsWith(Copied(f, count(f), k), Moved(f, k, Callback(g)))
    <3>1. Callback(g) \in Place
      BY PlacesOfHooks
    <3> QED
      BY <1>1, <1>3, <1>4, <2>2, <3>1, MovedCopied
  <2> QED
    BY <1>0, <1>7, <2>1, <2>2, Zenon DEF Written
<1>9. pool' \in [0 .. HookMax -> Seq(Words)] /\ pool'[k] = copied \o back
      /\ \A j \in 0 .. HookMax : j # k => pool'[j] = pool[j]
  <2>1. copied \o back \in Seq(Words)
    BY <1>4, <1>8, Joined
  <2> QED
    BY <1>1, <1>2, <1>4, <1>8, <2>1
<1>10. /\ count(f)' = count(f) /\ JumpsBack(f)' = JumpsBack(f)
       /\ \A j, to : Moved(f, j, to)' = Moved(f, j, to)
       /\ \A to : JumpTo(f, to)' = JumpTo(f, to)
  BY <1>1, SameLies
<1>11. Filled(h)'
  <2>1. CASE Hooks(f, k) = {} /\ copied = OwnWords(f, count(f))
    BY <1>0, <1>1, <1>2, <1>9, <1>10, <2>1, Zenon DEF Filled
  <2>2. ASSUME NEW g \in 1 .. k, Latest(g, f, k),
               StartsWith(copied, Moved(f, k, Callback(g)))
        PROVE  Filled(h)'
    <3>1. StartsWith(copied \o back, Moved(f, k, Callback(g)))
      BY <1>4, <1>8, <2>2, StartKeeps
    <3>2. /\ g \in 1 .. h - 1 /\ Latest(g, Plan[h], h - 1)
          /\ StartsWith(pool'[h - 1], Moved(Plan[h], h - 1, Callback(g))')
      BY <1>0, <1>1, <1>9, <1>10, <2>2, <3>1, Zenon
    <3> QED
      BY <3>2, Zenon DEF Filled
  <2> QED
    BY <1>8, <2>1, <2>2
<1>12. \A j \in 1 .. installed' : Filled(j)'
  <2>1. TAKE j \in 1 .. installed'
  <2>2. CASE j = h
    BY <1>11, <2>2
  <2>3. CASE j # h
    <3>1. j \in 1 .. installed /\ j - 1 \in 0 .. HookMax /\ j - 1 # k
      BY <1>0, <1>1, <2>3
    <3>2. Filled(j) /\ pool'[j - 1] = pool[j - 1]
      BY <1>9, <3>1 DEF Layout
    <3> QED
      BY <1>1, <3>2, FilledStays
  <2> QED
    BY <2>2, <2>3
<1>13. ASSUME NEW e \in Function
       PROVE  Written(e)'
  <2>1. /\ count(e)' = count(e) /\ \A to : JumpTo(e, to)' = JumpTo(e, to)
    BY <1>1, SameLies
  <2>2. k + 1 = h
    BY <1>1
  <2>3. CASE e = f
    <3>1. Latest(h, f, h)
      BY <1>0, <1>1, <2>2, LatestNext, Zenon
    <3>2. h \in 1 .. installed'
      BY <1>1
    <3>3. \A i \in count(f) .. FunLen - 1 : code'[f][i] = OwnWord(f, i)
      BY <1>5, <1>7
    <3>4. \A i \in count(f)' .. FunLen - 1 : code'[f][i] = OwnWord(f, i)
      BY <1>10, <3>3, Zenon
    <3>5. \A i \in 0 .. count(f)' - 1 : code'[f][i] = JumpTo(f, Callback(h))'[i + 1]
      BY <1>5, <1>10, Zenon
    <3>6. Latest(h, f, installed')
      BY <1>1, <3>1
    <3>7. Written(f)'
      BY <3>2, <3>4, <3>5, <3>6, Zenon DEF Written
    <3> QED
      BY <2>3, <3>7
  <2>4. CASE e # f
    <3>1. code'[e] = code[e] /\ Written(e)
      BY <1>5, <2>4 DEF Layout
    <3>2. Hooks(e, h) = Hooks(e, k) /\ \A g : Latest(g, e, k) => Latest(g, e, h)
      <4>1. k \in Nat /\ Plan[k + 1] # e
        BY <1>0, <1>1, <2>2, <2>4
      <4>2. /\ Hooks(e, k + 1) = Hooks(e, k)
            /\ \A g : Latest(g, e, k) => Latest(g, e, k + 1)
        BY <4>1, LatestNext, Zenon
      <4> QED
        BY <2>2, <4>2, Zenon
    <3>3. \A g \in 1 .. k : g \in 1 .. h
      BY <1>1
    <3>4. \A i \in count(e)' .. FunLen - 1 : code'[e][i] = OwnWord(e, i)
      BY <2>1, <3>1, Zenon DEF Written
    <3>5. CASE /\ Hooks(e, k) = {}
               /\ \A i \in 0 .. count(e) - 1 : code[e][i] = OwnWord(e, i)
      <4>1. /\ Hooks(e, installed') = {}
            /\ \A i \in 0 .. count(e)' - 1 : code'[e][i] = OwnWord(e, i)
        BY <1>1, <2>1, <3>1, <3>2, <3>5, Zenon
      <4> QED
        BY <3>4, <4>1, Zenon DEF Written
    <3>6. ASSUME NEW g \in 1 .. k, Latest(g, e, k),
                 \A i \in 0 .. count(e) - 1 : code[e][i] = JumpTo(e, Callback(g))[i + 1]
          PROVE  Written(e)'
      <4>1. /\ g \in 1 .. installed' /\ Latest(g, e, installed')
            /\ \A i \in 0 .. count(e)' - 1 : code'[e][i] = JumpTo(e, Callback(g))'[i + 1]
        BY <1>1, <2>1, <3>1, <3>2, <3>3, <3>6, Zenon
      <4> QED
        BY <3>4, <4>1, Zenon DEF Written
    <3> QED
      BY <1>0, <3>1, <3>5, <3>6, Zenon DEF Written
  <2> QED
    BY <2>3, <2>4
<1> QED
  BY <1>1, <1>4, <1>6, <1>9, <1>12, <1>13 DEF Layout
LEMMA LayoutStep ==
  ASSUME Layout, Slots, [Next]_vars
  PROVE  Layout'
<1>1. \/ UNCHANGED <<lies, code, pool, installed>>
      \/ Install
  <2>1. CASE FindModules
    BY <2>1 DEF FindModules, unhooked, hookVars, layoutVars
  <2>2. CASE InitPatcherImpl
    BY <2>2 DEF InitPatcherImpl, unhooked, hookVars, layoutVars, Abort
  <2>3. CASE Initialize
    BY <2>3 DEF Initialize, unhooked, hookVars, layoutVars, Abort
  <2>4. CASE InstallHooks
    BY <2>4 DEF InstallHooks
  <2>5. CASE Game
    BY <2>5 DEF Game, Call, hookVars, layoutVars
  <2>6. CASE Calls
    BY <2>6 DEF Calls, Run, Execute, RunCallback, hookVars, layoutVars
  <2>7. CASE UNCHANGED vars
    BY <2>7 DEF vars, hookVars, layoutVars
  <2> QED
    BY <2>1, <2>2, <2>3, <2>4, <2>5, <2>6, <2>7 DEF Next
<1>2. Install /\ installed' = installed => UNCHANGED <<lies, code, pool, installed>>
  <2>1. Abort => UNCHANGED <<code, pool, installed>>
    BY DEF Abort
  <2>2. installed \in Nat
    BY PlanLength DEF Slots
  <2>3. Install => UNCHANGED lies /\ (Abort \/ installed' = installed + 1)
    BY DEF Install, layoutVars
  <2> QED
    BY <2>1, <2>2, <2>3
<1> QED
  BY <1>1, <1>2, LayoutStays, LayoutInstall

-----------------------------------------------------------------------------
(***************************************************************************)
(* Where the words lead.                                                   *)
(***************************************************************************)
LEMMA AfterIs ==
  ASSUME NEW p \in Place
  PROVE  /\ After(p, 0) = p
         /\ \A i, j \in Nat : After(After(p, i), j) = After(p, i + j)
<1>1. PICK a \in {"code", "slot", "callback", "none"}, b \in Function \cup Int,
           i \in Nat : p = [in |-> a, of |-> b, at |-> i]
  BY DEF Place
<1>2. \A j \in Nat : After(p, j) = [in |-> a, of |-> b, at |-> i + j]
  BY <1>1 DEF After
<1>3. ASSUME NEW j \in Nat, NEW m \in Nat
      PROVE  After(After(p, j), m) = After(p, j + m)
  <2>1. After(p, j) = [in |-> a, of |-> b, at |-> i + j]
    BY <1>2
  <2>2. After([in |-> a, of |-> b, at |-> i + j], m) = [in |-> a, of |-> b, at |-> (i + j) + m]
    BY DEF After
  <2>3. j + m \in Nat /\ (i + j) + m = i + (j + m)
    OBVIOUS
  <2>4. After(p, j + m) = [in |-> a, of |-> b, at |-> i + (j + m)]
    BY <1>2, <2>3
  <2> QED
    BY <2>1, <2>2, <2>3, <2>4, Zenon
<1>4. After(p, 0) = p
  <2>1. After(p, 0) = [in |-> a, of |-> b, at |-> i + 0] /\ i + 0 = i
    BY <1>2
  <2> QED
    BY <1>1, <2>1
<1> QED
  BY <1>3, <1>4

LEMMA AfterRecord ==
  ASSUME NEW a, NEW b, NEW i \in Nat, NEW j \in Nat
  PROVE  After([in |-> a, of |-> b, at |-> i], j) = [in |-> a, of |-> b, at |-> i + j]
BY DEF After

LEMMA SlotAfter ==
  ASSUME NEW k \in Int, NEW i \in Nat, NEW j \in Nat
  PROVE  After(Slot(k, i), j) = Slot(k, i + j)
BY AfterRecord, Zenon DEF Slot

LEMMA CodeAfter ==
  ASSUME NEW f \in Function, NEW i \in Nat, NEW j \in Nat
  PROVE  After(Code(f, i), j) = Code(f, i + j)
BY AfterRecord, Zenon DEF Code

\* Words are told apart by what they do.
LEMMA Does ==
  ASSUME NEW p, NEW x
  PROVE  /\ \A to : WordAt(p) = Word("b", to) => Jumps(p) /\ NextPlace(p, x) = to /\ Next17(p, x) = x
         /\ WordAt(p) = Word("ldr_x17", Nowhere) =>
              /\ Jumps(p) /\ NextPlace(p, x) = After(p, 1)
              /\ Next17(p, x) = WordAt(After(p, 2)).to
         /\ WordAt(p) = Word("br_x17", Nowhere) => Jumps(p) /\ NextPlace(p, x) = x
         /\ WordAt(p) = Nop => Jumps(p) /\ NextPlace(p, x) = After(p, 1) /\ Next17(p, x) = x
BY DEF Jumps, NextPlace, Next17, Word, Nop

LEMMA GoesFar ==
  ASSUME NEW p, NEW to, WordAt(p) = Word("ldr_x17", Nowhere),
         WordAt(After(p, 2)).to = to
  PROVE  /\ WordAt(After(p, 1)) = Word("br_x17", Nowhere) => \A x : In2(p, x, to)
         /\ \A q : WordAt(After(p, 1)) = Word("b", q) /\ WordAt(q) = Word("br_x17", Nowhere)
                     => \A x : In3(p, x, to)
<1>1. \A x : Jumps(p) /\ NextPlace(p, x) = After(p, 1) /\ Next17(p, x) = to
  BY Does
<1>2. ASSUME WordAt(After(p, 1)) = Word("br_x17", Nowhere)
      PROVE  In1(After(p, 1), to, to)
  <2>1. Jumps(After(p, 1)) /\ NextPlace(After(p, 1), to) = to
    BY <1>2, Does
  <2> QED
    BY <2>1 DEF In1
<1>3. ASSUME NEW q, WordAt(After(p, 1)) = Word("b", q),
             WordAt(q) = Word("br_x17", Nowhere)
      PROVE  In2(After(p, 1), to, to)
  <2>1. /\ Jumps(After(p, 1)) /\ NextPlace(After(p, 1), to) = q
        /\ Next17(After(p, 1), to) = to
    BY <1>3, Does
  <2>2. Jumps(q) /\ NextPlace(q, to) = to
    BY <1>3, Does
  <2> QED
    BY <2>1, <2>2 DEF In1, In2
<1> QED
  BY <1>1, <1>2, <1>3, Zenon DEF In2, In3

LEMMA GoesNop ==
  ASSUME NEW p, NEW to, NEW x, WordAt(p) = Nop
  PROVE  /\ In2(After(p, 1), x, to) => In3(p, x, to)
         /\ In3(After(p, 1), x, to) => In4(p, x, to)
BY Does, Zenon DEF In3, In4

\* The words of a jump lead where it jumps, wherever they are.
LEMMA JumpGoes ==
  ASSUME NEW p \in Place, NEW to, NEW s, NEW x,
         IsNear(s, to) \/ IsFar(s, to) \/ IsFarAfterNop(s, to),
         \A j \in 0 .. Len(s) - 1 : WordAt(After(p, j)) = s[j + 1]
  PROVE  Goes(p, x, to)
<1>1. Word("low", to).to = to
  BY DEF Word
<1>2. After(p, 0) = p /\ After(After(p, 1), 1) = After(p, 2)
      /\ After(After(p, 1), 2) = After(p, 3)
  BY AfterIs
<1>3. CASE IsNear(s, to)
  <2>1. WordAt(After(p, 0)) = Word("b", to)
    <3>1. 0 \in 0 .. Len(s) - 1 /\ s[0 + 1] = Word("b", to)
      BY <1>3 DEF IsNear
    <3> QED
      BY <3>1
  <2>2. Jumps(p) /\ NextPlace(p, x) = to
    BY <1>2, <2>1, Does
  <2>3. In1(p, x, to)
    BY <2>2 DEF In1
  <2> QED
    BY <2>3 DEF Goes
<1>4. CASE IsFar(s, to)
  <2>1. /\ WordAt(After(p, 0)) = Word("ldr_x17", Nowhere)
        /\ WordAt(After(p, 1)) = Word("br_x17", Nowhere)
        /\ WordAt(After(p, 2)) = Word("low", to)
    <3>1. /\ 0 \in 0 .. Len(s) - 1 /\ 1 \in 0 .. Len(s) - 1 /\ 2 \in 0 .. Len(s) - 1
          /\ s[0 + 1] = Word("ldr_x17", Nowhere) /\ s[1 + 1] = Word("br_x17", Nowhere)
          /\ s[2 + 1] = Word("low", to)
      BY <1>4 DEF IsFar
    <3> QED
      BY <3>1
  <2>2. In2(p, x, to)
    BY <1>1, <1>2, <2>1, GoesFar, Zenon
  <2> QED
    BY <2>2 DEF Goes
<1>5. CASE IsFarAfterNop(s, to)
  <2>1. /\ WordAt(After(p, 0)) = Nop
        /\ WordAt(After(p, 1)) = Word("ldr_x17", Nowhere)
        /\ WordAt(After(p, 2)) = Word("br_x17", Nowhere)
        /\ WordAt(After(p, 3)) = Word("low", to)
    <3>1. /\ 0 \in 0 .. Len(s) - 1 /\ 1 \in 0 .. Len(s) - 1 /\ 2 \in 0 .. Len(s) - 1
          /\ 3 \in 0 .. Len(s) - 1 /\ s[0 + 1] = Nop
          /\ s[1 + 1] = Word("ldr_x17", Nowhere) /\ s[2 + 1] = Word("br_x17", Nowhere)
          /\ s[3 + 1] = Word("low", to)
      BY <1>5 DEF IsFarAfterNop
    <3> QED
      BY <3>1
  <2>2. In2(After(p, 1), x, to)
    BY <1>1, <1>2, <2>1, GoesFar, Zenon
  <2>3. In3(p, x, to)
    BY <1>2, <2>1, <2>2, GoesNop, Zenon
  <2> QED
    BY <2>3 DEF Goes
<1> QED
  BY <1>3, <1>4, <1>5
LEMMA WordsThere ==
  /\ \A f, i : i < FunLen => WordAt(Code(f, i)) = code[f][i]
  /\ \A k, i : i < Len(pool[k]) => WordAt(Slot(k, i)) = pool[k][i + 1]
BY DEF WordAt, Code, Slot

\* A hooked function leads to the callback of its last hook.
LEMMA CodeGoes ==
  ASSUME Layout, NEW f \in Function, NEW h \in Int, NEW x,
         \A i \in 0 .. count(f) - 1 : code[f][i] = JumpTo(f, Callback(h))[i + 1]
  PROVE  Goes(Code(f, 0), x, Callback(h))
<1>1. /\ lies \in [Function -> {"near", "even", "odd"}] /\ Callback(h) \in Place
      /\ Code(f, 0) \in Place
  BY PlacesOfHooks DEF Layout
<1>2. PICK to \in Place : to = Callback(h)
  BY <1>1
<1>3. PICK s \in Seq(Words) : s = JumpTo(f, to) /\ Len(s) = count(f)
  BY <1>1, JumpWordsType
<1>4. IsNear(s, to) \/ IsFar(s, to) \/ IsFarAfterNop(s, to)
  BY <1>1, <1>3, JumpWords
<1>5. count(f) \in 1 .. 5 /\ count(f) < FunLen
  BY <1>1, CountIs
<1>6. \A j \in 0 .. Len(s) - 1 : WordAt(After(Code(f, 0), j)) = s[j + 1]
  <2>1. TAKE j \in 0 .. Len(s) - 1
  <2>2. j \in Nat /\ j < FunLen /\ 0 + j = j /\ j \in 0 .. count(f) - 1
    BY <1>3, <1>5
  <2>3. After(Code(f, 0), j) = Code(f, j)
    BY <2>2, CodeAfter
  <2>4. WordAt(Code(f, j)) = code[f][j]
    BY <2>2, WordsThere
  <2> QED
    BY <1>2, <1>3, <2>2, <2>3, <2>4
<1>7. Goes(Code(f, 0), x, to)
  BY <1>1, <1>4, <1>6, JumpGoes
<1> QED
  BY <1>2, <1>7

\* The slot of a first hook holds the function's own instructions, and leads back.
LEMMA FirstGoes ==
  ASSUME Layout, NEW h \in 1 .. Len(Plan), h <= installed,
         Hooks(Plan[h], h - 1) = {}, NEW f, f = Plan[h]
  PROVE  /\ \A i \in 0 .. count(f) - 1 : WordAt(Slot(h - 1, i)) = OwnWord(f, i)
         /\ \A x : Goes(Slot(h - 1, count(f)), x, Code(f, count(f)))
<1>1. PICK k \in Nat : k = h - 1
  BY PlanLength
<1>2. f \in Function /\ Filled(h)
  BY PlanLength, ElementOfSeq DEF Layout
<1>3. PICK back \in JumpsBack(f) : pool[k] = OwnWords(f, count(f)) \o back
  BY <1>1, <1>2 DEF Filled, Latest
<1>4. /\ lies \in [Function -> {"near", "even", "odd"}]
      /\ count(f) \in 1 .. 5 /\ count(f) < FunLen /\ BackTo(f) = Code(f, count(f))
  BY <1>2, CountIs DEF Layout, BackTo, InstructionsMoved
<1>5. PICK c \in Nat : c = count(f)
  BY <1>4
<1>6. /\ back \in Seq(Words)
      /\ IsNear(back, Code(f, c)) \/ IsFar(back, Code(f, c)) \/ IsFarAfterNop(back, Code(f, c))
  BY <1>2, <1>4, <1>5, BackWords
<1>7. PICK own \in Seq(Words) :
        /\ own = OwnWords(f, c) /\ Len(own) = c
        /\ \A i \in 0 .. c - 1 : own[i + 1] = OwnWord(f, i)
  BY <1>2, OwnWordsAre, ZenonT(30)
<1>8. PICK s : /\ s = pool[k] /\ Len(s) = c + Len(back)
               /\ \A i \in 1 .. c : s[i] = own[i]
               /\ \A i \in 1 .. Len(back) : s[c + i] = back[i]
  <2>1. /\ Len(own \o back) = Len(own) + Len(back)
        /\ \A i \in 1 .. Len(own) : (own \o back)[i] = own[i]
        /\ \A i \in 1 .. Len(back) : (own \o back)[Len(own) + i] = back[i]
    BY <1>6, Joined
  <2>2. pool[k] = own \o back
    BY <1>3, <1>5, <1>7
  <2>3. PICK s : /\ s = pool[k] /\ Len(s) = Len(own) + Len(back)
                 /\ \A i \in 1 .. Len(own) : s[i] = own[i]
                 /\ \A i \in 1 .. Len(back) : s[Len(own) + i] = back[i]
    BY <2>1, <2>2, Zenon
  <2>4. Len(own) = c
    BY <1>7
  <2> QED
    BY <2>3, <2>4, Zenon
<1>9. Len(back) \in Nat
  BY <1>6, LenProperties
<1>10. ASSUME NEW i \in 0 .. c - 1
       PROVE  WordAt(Slot(k, i)) = OwnWord(f, i)
  <2>1. i < Len(pool[k]) /\ i + 1 \in 1 .. c
    BY <1>8, <1>9
  <2>2. WordAt(Slot(k, i)) = pool[k][i + 1]
    BY <2>1, WordsThere
  <2> QED
    BY <1>7, <1>8, <2>1, <2>2
<1>11. ASSUME NEW x
       PROVE  Goes(Slot(k, c), x, Code(f, c))
  <2>1. \A j \in 0 .. Len(back) - 1 : WordAt(After(Slot(k, c), j)) = back[j + 1]
    <3>1. TAKE j \in 0 .. Len(back) - 1
    <3>2. /\ j \in Nat /\ c + j < Len(pool[k]) /\ j + 1 \in 1 .. Len(back)
          /\ (c + j) + 1 = c + (j + 1)
      BY <1>8, <1>9
    <3>3. After(Slot(k, c), j) = Slot(k, c + j)
      BY <3>2, SlotAfter
    <3>4. WordAt(Slot(k, c + j)) = pool[k][(c + j) + 1]
      BY <3>2, WordsThere
    <3> QED
      BY <1>8, <3>2, <3>3, <3>4
  <2>2. Slot(k, c) \in Place
    BY PlacesOfHooks
  <2> QED
    BY <1>6, <2>1, <2>2, JumpGoes
<1> QED
  BY <1>1, <1>5, <1>10, <1>11

\* The slot of a later hook leads to the callback of the hook before it.
LEMMA LaterGoes ==
  ASSUME Layout, NEW h \in 1 .. Len(Plan), h <= installed, NEW x,
         NEW g, Latest(g, Plan[h], h - 1),
         StartsWith(pool[h - 1], Moved(Plan[h], h - 1, Callback(g)))
  PROVE  Goes(Slot(h - 1, 0), x, Callback(g))
<1>1. PICK k, f, to : k \in Nat /\ k = h - 1 /\ f = Plan[h] /\ to = Callback(g)
  BY PlanLength
<1>2. f \in Function /\ lies[f] \in {"near", "even", "odd"}
  <2>1. f \in Function
    BY <1>1, PlanLength, ElementOfSeq
  <2> QED
    BY <2>1 DEF Layout
<1>3. PICK p : p = Moved(f, k, to)
  OBVIOUS
<1>4. Len(p) \in 0 .. Len(pool[k]) /\ \A i \in 1 .. Len(p) : pool[k][i] = p[i]
  BY <1>1, <1>3 DEF StartsWith
<1>5. ASSUME NEW i \in 0 .. Len(p) - 1
      PROVE  WordAt(Slot(k, i)) = p[i + 1]
  <2>1. i < Len(pool[k]) /\ i + 1 \in 1 .. Len(p)
    BY <1>4
  <2> QED
    BY <1>4, <2>1, WordsThere
<1>6. /\ Slot(k, 0) \in Place /\ Slot(k, 1) \in Place
      /\ After(Slot(k, 0), 1) = Slot(k, 1) /\ After(Slot(k, 0), 2) = Slot(k, 2)
      /\ After(Slot(k, 1), 1) = Slot(k, 2) /\ After(Slot(k, 1), 2) = Slot(k, 3)
      /\ Word("low", to).to = to
  <2>1. k \in Int /\ 0 \in Nat /\ 1 \in Nat /\ 2 \in Nat
        /\ 0 + 1 = 1 /\ 0 + 2 = 2 /\ 1 + 1 = 2 /\ 1 + 2 = 3
    BY <1>1
  <2>2. Slot(k, 0) \in Place /\ Slot(k, 1) \in Place
    BY <2>1, PlacesOfHooks
  <2>3. Word("low", to).to = to
    BY DEF Word
  <2>4. /\ After(Slot(k, 0), 1) = Slot(k, 0 + 1) /\ After(Slot(k, 0), 2) = Slot(k, 0 + 2)
        /\ After(Slot(k, 1), 1) = Slot(k, 1 + 1) /\ After(Slot(k, 1), 2) = Slot(k, 1 + 2)
    BY <2>1, SlotAfter, Zenon
  <2> QED
    BY <2>1, <2>2, <2>3, <2>4
<1>7. CASE lies[f] = "near"
  <2>1. p = <<Word("b", to)>>
    BY <1>3, <1>7 DEF Moved
  <2>2. Len(p) = 1 /\ p[0 + 1] = Word("b", to) /\ 0 \in 0 .. Len(p) - 1
    BY <2>1
  <2>3. WordAt(Slot(k, 0)) = Word("b", to)
    BY <1>5, <2>2
  <2>4. Jumps(Slot(k, 0)) /\ NextPlace(Slot(k, 0), x) = to
    BY <2>3, Does
  <2>5. Goes(Slot(k, 0), x, to)
    BY <2>4 DEF In1, Goes
  <2> QED
    BY <1>1, <2>5
<1>8. CASE lies[f] = "even"
  <2>1. p = <<Word("ldr_x17", Nowhere), Word("b", Slot(k, 4)), Word("low", to),
              Word("high", to), Word("br_x17", Nowhere)>>
    BY <1>3, <1>8 DEF Moved
  <2>2. /\ Len(p) = 5 /\ p[1] = Word("ldr_x17", Nowhere) /\ p[2] = Word("b", Slot(k, 4))
        /\ p[3] = Word("low", to) /\ p[5] = Word("br_x17", Nowhere)
    BY <2>1
  <2>3. /\ WordAt(Slot(k, 0)) = Word("ldr_x17", Nowhere)
        /\ WordAt(Slot(k, 1)) = Word("b", Slot(k, 4))
        /\ WordAt(Slot(k, 2)) = Word("low", to)
        /\ WordAt(Slot(k, 4)) = Word("br_x17", Nowhere)
    <3>1. /\ 0 \in 0 .. Len(p) - 1 /\ 1 \in 0 .. Len(p) - 1 /\ 2 \in 0 .. Len(p) - 1
          /\ 4 \in 0 .. Len(p) - 1 /\ 0 + 1 = 1 /\ 1 + 1 = 2 /\ 2 + 1 = 3 /\ 4 + 1 = 5
      BY <2>2
    <3> QED
      BY <1>5, <2>2, <3>1
  <2>4. In3(Slot(k, 0), x, to)
    BY <1>6, <2>3, GoesFar
  <2>5. Goes(Slot(k, 0), x, to)
    BY <2>4 DEF Goes
  <2> QED
    BY <1>1, <2>5
<1>9. CASE lies[f] = "odd"
  <2>1. p = <<Nop, Word("ldr_x17", Nowhere), Word("b", Slot(k, 5)), Word("low", to),
              Word("high", to), Word("br_x17", Nowhere)>>
    BY <1>3, <1>9 DEF Moved
  <2>2. /\ Len(p) = 6 /\ p[1] = Nop /\ p[2] = Word("ldr_x17", Nowhere)
        /\ p[3] = Word("b", Slot(k, 5)) /\ p[4] = Word("low", to)
        /\ p[6] = Word("br_x17", Nowhere)
    BY <2>1
  <2>3. /\ WordAt(Slot(k, 0)) = Nop
        /\ WordAt(Slot(k, 1)) = Word("ldr_x17", Nowhere)
        /\ WordAt(Slot(k, 2)) = Word("b", Slot(k, 5))
        /\ WordAt(Slot(k, 3)) = Word("low", to)
        /\ WordAt(Slot(k, 5)) = Word("br_x17", Nowhere)
    <3>1. /\ 0 \in 0 .. Len(p) - 1 /\ 1 \in 0 .. Len(p) - 1 /\ 2 \in 0 .. Len(p) - 1
          /\ 3 \in 0 .. Len(p) - 1 /\ 5 \in 0 .. Len(p) - 1
          /\ 0 + 1 = 1 /\ 1 + 1 = 2 /\ 2 + 1 = 3 /\ 3 + 1 = 4 /\ 5 + 1 = 6
      BY <2>2
    <3> QED
      BY <1>5, <2>2, <3>1
  <2>4. In3(Slot(k, 1), x, to)
    BY <1>6, <2>3, GoesFar
  <2>5. In4(Slot(k, 0), x, to)
    BY <1>6, <2>3, <2>4, GoesNop
  <2>6. Goes(Slot(k, 0), x, to)
    BY <2>5 DEF Goes
  <2> QED
    BY <1>1, <2>6
<1> QED
  BY <1>2, <1>7, <1>8, <1>9
-----------------------------------------------------------------------------
(***************************************************************************)
(* A call, one step at a time.                                             *)
(***************************************************************************)
CallInv == Layout /\ Slots /\ Running /\ Calling

\* What lies at a callback is no word, and what goes there has arrived.
LEMMA CallbackIsNoWord ==
  ASSUME NEW p, p.in = "callback", NEW x, NEW to
  PROVE  Goes(p, x, to) => p = to
<1>1. ~Jumps(p)
  BY DEF Jumps, WordAt, Word
<1> QED
  BY <1>1 DEF Goes, In1, In2, In3, In4

\* A jump that is executed goes on to the same place.
LEMMA JumpStep ==
  ASSUME Execute, NEW to, Goes(pc, x17, to), pc # to
  PROVE  trace' = trace /\ called' = called /\ Goes(pc, x17, to)'
<1>1. /\ UNCHANGED <<called, code, pool>>
      /\ pc' = IF WordAt(pc).op = "own" /\ WordAt(pc).to.at = FunLen - 1 THEN Returned
               ELSE IF WordAt(pc).op = "b" THEN WordAt(pc).to
               ELSE IF WordAt(pc).op = "br_x17" THEN x17 ELSE After(pc, 1)
      /\ x17' = IF WordAt(pc).op = "ldr_x17" THEN WordAt(After(pc, 2)).to ELSE x17
      /\ trace' = IF WordAt(pc).op = "own" THEN Append(trace, WordAt(pc).to) ELSE trace
  BY DEF Execute, hookVars
<1>2. Jumps(pc)
  BY DEF Goes, In1, In2, In3, In4
<1>3. WordAt(pc).op # "own"
  BY <1>2 DEF Jumps
<1>4. pc' = NextPlace(pc, x17) /\ x17' = Next17(pc, x17) /\ trace' = trace
  BY <1>1, <1>3 DEF NextPlace, Next17
<1>5. \A p : WordAt(p)' = WordAt(p)
  BY <1>1 DEF WordAt
<1>6. \/ pc' = to
      \/ In1(pc', x17', to) \/ In2(pc', x17', to) \/ In3(pc', x17', to)
  BY <1>4 DEF Goes, In1, In2, In3, In4
<1>7. \A p, x : /\ Jumps(p)' = Jumps(p) /\ NextPlace(p, x)' = NextPlace(p, x)
                /\ Next17(p, x)' = Next17(p, x)
  BY <1>5 DEF Jumps, NextPlace, Next17
<1> QED
  BY <1>1, <1>4, <1>6, <1>7 DEF Goes, In1, In2, In3, In4
\* The words stay as they are, and so where they lead.
LEMMA GoesSame ==
  ASSUME UNCHANGED <<lies, code, pool>>
  PROVE  /\ \A p, x, to : Goes(p, x, to)' = Goes(p, x, to)
         /\ \A f : count(f)' = count(f)
<1>1. \A p : WordAt(p)' = WordAt(p)
  BY DEF WordAt
<1>2. \A p, x : /\ Jumps(p)' = Jumps(p) /\ NextPlace(p, x)' = NextPlace(p, x)
                /\ Next17(p, x)' = Next17(p, x)
  BY <1>1 DEF Jumps, NextPlace, Next17
<1>3. \A p, x, to : In1(p, x, to)' = In1(p, x, to)
  BY <1>2 DEF In1
<1>4. \A p, x, to : In2(p, x, to)' = In2(p, x, to)
  BY <1>2, <1>3 DEF In2
<1>5. \A p, x, to : In3(p, x, to)' = In3(p, x, to)
  BY <1>2, <1>4 DEF In3
<1>6. \A p, x, to : In4(p, x, to)' = In4(p, x, to)
  BY <1>2, <1>5 DEF In4
<1>7. \A f : count(f)' = count(f)
  BY DEF count
<1> QED
  BY <1>3, <1>4, <1>5, <1>6, <1>7 DEF Goes

\* A trace that goes on as promised.
Kept(t, f) ==
  /\ t \in Seq(Place) /\ Len(t) <= Len(Promised(f))
  /\ \A i \in 1 .. Len(t) : t[i] = Promised(f)[i]

LEMMA KeptGrows ==
  ASSUME NEW t, NEW f, Kept(t, f), NEW p \in Place,
         Len(t) + 1 <= Len(Promised(f)), Promised(f)[Len(t) + 1] = p
  PROVE  Kept(Append(t, p), f) /\ Len(Append(t, p)) = Len(t) + 1
<1>1. t \in Seq(Place) /\ Len(t) \in Nat
  BY LenProperties DEF Kept
<1>2. PICK u : u = Append(t, p)
  OBVIOUS
<1>3. /\ u \in Seq(Place) /\ Len(u) = Len(t) + 1 /\ u[Len(t) + 1] = p
      /\ \A i \in 1 .. Len(t) : u[i] = t[i]
  BY <1>1, <1>2, AppendProperties
<1>4. ASSUME NEW i \in 1 .. Len(u)
      PROVE  u[i] = Promised(f)[i]
  <2>1. i = Len(t) + 1 \/ i \in 1 .. Len(t)
    BY <1>1, <1>3
  <2> QED
    BY <1>3, <2>1 DEF Kept
<1> QED
  BY <1>2, <1>3, <1>4 DEF Kept

LEMMA CallingIs ==
  ASSUME CallInv
  PROVE  /\ called \in Function /\ Kept(trace, called)
         /\ \/ pc = Returned
            \/ /\ stage = "running" /\ installed = Len(Plan)
               /\ \/ \E h \in 1 .. Len(Plan) : ToCallback(h)
                  \/ \E i \in 0 .. FunLen - 1 : ToOwn(i)
BY DEF CallInv, Calling, Kept

\* What each case of a next state has to show.
LEMMA CallingNext ==
  ASSUME called' \in Function, Kept(trace', called'),
         \/ pc' = Returned
         \/ /\ stage' = "running" /\ installed' = Len(Plan)
            /\ \/ \E h \in 1 .. Len(Plan) : ToCallback(h)'
               \/ \E i \in 0 .. FunLen - 1 : ToOwn(i)'
  PROVE  Calling'
BY DEF Calling, Kept

\* An own instruction is executed.
LEMMA OwnStep ==
  ASSUME CallInv, Execute, NEW i \in 0 .. FunLen - 1,
         Len(trace) = Depth(called, Len(Plan)) + i,
         WordAt(pc) = OwnWord(called, i)
  PROVE  /\ called' = called /\ Kept(trace', called')
         /\ x17' = x17
         /\ IF i = FunLen - 1 THEN pc' = Returned ELSE pc' = After(pc, 1)
         /\ Len(trace') = Depth(called, Len(Plan)) + (i + 1)
<1>1. called \in Function /\ Kept(trace, called) /\ i \in Nat
  BY CallingIs
<1>2. /\ WordAt(pc).op = "own" /\ WordAt(pc).to = Code(called, i)
  BY <1>1, OwnWordIs
<1>3. Code(called, i).at = i
  BY DEF Code
<1>4. /\ called' = called /\ trace' = Append(trace, Code(called, i)) /\ x17' = x17
      /\ IF i = FunLen - 1 THEN pc' = Returned ELSE pc' = After(pc, 1)
  BY <1>2, <1>3 DEF Execute
<1>5. /\ Code(called, i) \in Place /\ Depth(called, Len(Plan)) \in Nat
      /\ Len(Promised(called)) = Depth(called, Len(Plan)) + FunLen
      /\ Promised(called)[Depth(called, Len(Plan)) + i + 1] = Code(called, i)
  BY <1>1, PlacesOfHooks, Depths, PlanLength, Promise
<1>6. /\ Len(trace) + 1 <= Len(Promised(called))
      /\ Promised(called)[Len(trace) + 1] = Code(called, i)
      /\ Len(trace) + 1 = Depth(called, Len(Plan)) + (i + 1)
  BY <1>5
<1>7. /\ Kept(Append(trace, Code(called, i)), called)
      /\ Len(Append(trace, Code(called, i))) = Len(trace) + 1
  BY <1>1, <1>5, <1>6, KeptGrows
<1> QED
  BY <1>4, <1>6, <1>7, Zenon
LEMMA ExecuteCalling ==
  ASSUME CallInv, Calls, Execute
  PROVE  Calling'
<1>1. /\ called \in Function /\ Kept(trace, called)
      /\ UNCHANGED <<lies, code, pool, stage, installed, called>>
      /\ pc.in \in {"code", "slot"} /\ stage = "running"
  BY CallingIs DEF Calls, Execute, layoutVars, hookVars
<1>2. /\ pc # Returned /\ \A h : pc # Callback(h)
  BY <1>1 DEF Returned, Callback
<1>3. /\ installed = Len(Plan)
      /\ \/ \E h \in 1 .. Len(Plan) : ToCallback(h)
         \/ \E i \in 0 .. FunLen - 1 : ToOwn(i)
  BY <1>2, CallingIs
<1>4. /\ \A p, x, to : Goes(p, x, to)' = Goes(p, x, to)
      /\ \A f : count(f)' = count(f)
  BY <1>1, GoesSame
<1>5. Layout /\ Written(called) /\ count(called) \in 1 .. 5 /\ count(called) < FunLen
  BY <1>1, CountIs DEF CallInv, Layout
<1>6. ASSUME NEW h \in 1 .. Len(Plan), ToCallback(h)
      PROVE  Calling'
  <2>1. /\ h \in Hooks(called, Len(Plan)) /\ Goes(pc, x17, Callback(h))
        /\ Len(trace) = Depth(called, Len(Plan)) - Depth(called, h)
    BY <1>6 DEF ToCallback
  <2>2. trace' = trace /\ called' = called /\ Goes(pc, x17, Callback(h))'
    BY <1>2, <2>1, JumpStep
  <2>3. ToCallback(h)'
    BY <2>1, <2>2 DEF ToCallback
  <2> QED
    BY <1>1, <1>3, <2>2, <2>3, CallingNext
<1>7. ASSUME NEW i \in 0 .. FunLen - 1, ToOwn(i)
      PROVE  Calling'
  <2>1. Len(trace) = Depth(called, Len(Plan)) + i
    BY <1>7 DEF ToOwn
  <2>2. CASE /\ count(called) <= i \/ Hooks(called, Len(Plan)) = {}
             /\ Goes(pc, x17, Code(called, i)) /\ pc # Code(called, i)
    <3>1. trace' = trace /\ called' = called
      BY <2>2, JumpStep
    <3>2. Goes(pc, x17, Code(called, i))'
      <4>1. PICK to : to = Code(called, i)
        OBVIOUS
      <4>2. Goes(pc, x17, to)'
        BY <2>2, <4>1, JumpStep
      <4> QED
        BY <3>1, <4>1, <4>2 DEF Code
    <3>3. ToOwn(i)'
      BY <1>4, <2>1, <2>2, <3>1, <3>2 DEF ToOwn
    <3> QED
      BY <1>1, <1>3, <3>1, <3>3, CallingNext
  <2>3. CASE /\ count(called) <= i \/ Hooks(called, Len(Plan)) = {}
             /\ pc = Code(called, i)
    <3>1. WordAt(pc) = OwnWord(called, i)
      <4>1. WordAt(pc) = code[called][i]
        BY <2>3, WordsThere
      <4>2. count(called) <= i => code[called][i] = OwnWord(called, i)
        BY <1>5 DEF Written
      <4>3. i < count(called) /\ Hooks(called, Len(Plan)) = {} =>
              code[called][i] = OwnWord(called, i)
        BY <1>3, <1>5 DEF Written, Latest
      <4> QED
        BY <1>5, <2>3, <4>1, <4>2, <4>3
    <3>2. /\ called' = called /\ Kept(trace', called') /\ x17' = x17
          /\ IF i = FunLen - 1 THEN pc' = Returned ELSE pc' = After(pc, 1)
          /\ Len(trace') = Depth(called, Len(Plan)) + (i + 1)
      BY <2>1, <3>1, OwnStep
    <3>3. CASE i = FunLen - 1
      BY <1>1, <3>2, <3>3, CallingNext
    <3>4. CASE i # FunLen - 1
      <4>1. pc' = Code(called, i + 1)
        <5>1. pc' = After(Code(called, i), 1)
          BY <2>3, <3>2, <3>4, Zenon
        <5>2. called \in Function /\ i \in Nat /\ 1 \in Nat
          BY <1>1
        <5> QED
          BY <5>1, <5>2, CodeAfter, Zenon
      <4>2. Goes(pc, x17, Code(called, i + 1))'
        BY <3>2, <4>1 DEF Goes, Code
      <4>3. (count(called) <= i + 1 \/ Hooks(called, Len(Plan)) = {})
            /\ i + 1 \in 0 .. FunLen - 1
        BY <1>5, <2>3, <3>4
      <4>4. ToOwn(i + 1)'
        BY <1>4, <3>2, <4>2, <4>3 DEF ToOwn
      <4> QED
        BY <1>1, <1>3, <3>2, <4>3, <4>4, CallingNext
    <3> QED
      BY <3>3, <3>4
  <2>4. ASSUME NEW h \in Hooks(called, Len(Plan)), i < count(called),
               Hooks(called, h - 1) = {}, pc = Slot(h - 1, i)
        PROVE  Calling'
    <3>1. h \in 1 .. Len(Plan) /\ Plan[h] = called /\ h - 1 \in Int
          /\ h <= installed
      BY <1>3, PlanLength DEF Hooks
    <3>2. /\ \A j \in 0 .. count(called) - 1 : WordAt(Slot(h - 1, j)) = OwnWord(called, j)
          /\ \A x : Goes(Slot(h - 1, count(called)), x, Code(called, count(called)))
      BY <1>5, <2>4, <3>1, FirstGoes
    <3>3. WordAt(pc) = OwnWord(called, i)
      BY <1>5, <2>4, <3>2
    <3>4. /\ called' = called /\ Kept(trace', called') /\ x17' = x17
          /\ pc' = After(pc, 1)
          /\ Len(trace') = Depth(called, Len(Plan)) + (i + 1)
      BY <1>5, <2>1, <2>4, <3>3, OwnStep
    <3>5. pc' = Slot(h - 1, i + 1) /\ i + 1 \in 0 .. FunLen - 1
      <4>1. PICK k \in Int : k = h - 1
        BY <3>1
      <4>2. i \in Nat /\ 1 \in Nat /\ i + 1 \in 0 .. FunLen - 1
        BY <1>5, <2>4
      <4>3. After(Slot(k, i), 1) = Slot(k, i + 1)
        BY <4>2, SlotAfter
      <4>4. pc' = After(Slot(k, i), 1)
        BY <2>4, <3>4, <4>1, Zenon
      <4> QED
        BY <4>1, <4>2, <4>3, <4>4, Zenon
    <3>6. CASE i + 1 < count(called)
      <4>1. ToOwn(i + 1)'
        BY <1>4, <2>4, <3>4, <3>5, <3>6 DEF ToOwn
      <4> QED
        BY <1>1, <1>3, <3>4, <3>5, <4>1, CallingNext
    <3>7. CASE i + 1 = count(called)
      <4>1. Goes(pc', x17', Code(called, i + 1))
        BY <3>2, <3>5, <3>7
      <4>2. Goes(pc, x17, Code(called, i + 1))'
        BY <1>4, <3>4, <4>1 DEF Code
      <4>3. ToOwn(i + 1)'
        BY <1>4, <1>5, <3>4, <3>7, <4>2 DEF ToOwn
      <4> QED
        BY <1>1, <1>3, <3>4, <3>5, <4>3, CallingNext
    <3> QED
      BY <1>5, <2>4, <3>6, <3>7
  <2> QED
    BY <1>7, <2>2, <2>3, <2>4 DEF ToOwn
<1> QED
  BY <1>3, <1>6, <1>7

LEMMA CallbackCalling ==
  ASSUME CallInv, Calls, RunCallback
  PROVE  Calling'
<1>1. /\ called \in Function /\ Kept(trace, called)
      /\ UNCHANGED <<lies, code, pool, stage, installed, called, x17>>
      /\ pc.in = "callback" /\ stage = "running"
      /\ pc' \in {OrigRef[pc.of], Returned} /\ trace' = Append(trace, pc)
  BY CallingIs DEF Calls, RunCallback, layoutVars, hookVars
<1>2. /\ pc # Returned /\ \A f, i : pc # Code(f, i) /\ pc # Slot(f, i)
  BY <1>1 DEF Returned, Code, Slot
<1>3. /\ installed = Len(Plan)
      /\ \/ \E h \in 1 .. Len(Plan) : ToCallback(h)
         \/ \E i \in 0 .. FunLen - 1 : ToOwn(i)
  BY <1>2, CallingIs
<1>4. /\ \A p, x, to : Goes(p, x, to)' = Goes(p, x, to)
      /\ \A f : count(f)' = count(f)
  BY <1>1, GoesSame
<1>6. \A i : ~ToOwn(i)
  BY <1>1, <1>2, CallbackIsNoWord DEF ToOwn
<1>7. PICK h \in 1 .. Len(Plan) : ToCallback(h)
  BY <1>3, <1>6
<1>8. /\ h \in Hooks(called, Len(Plan)) /\ pc = Callback(h)
      /\ Len(trace) = Depth(called, Len(Plan)) - Depth(called, h)
  BY <1>1, <1>7, CallbackIsNoWord DEF ToCallback
<1>9. /\ Plan[h] = called /\ h \in Nat \ {0} /\ h \in 0 .. Len(Plan) /\ h - 1 \in Nat
      /\ h \in 1 .. installed /\ h - 1 \in Int /\ Len(Plan) \in Nat
  BY <1>3, <1>8, PlanLength DEF Hooks
<1>10. /\ Depth(called, h) = Depth(called, h - 1) + 1
       /\ Depth(called, h - 1) \in Nat /\ Depth(called, Len(Plan)) \in Nat
       /\ Depth(called, h) <= Depth(called, Len(Plan))
       /\ Callback(h) \in Place
       /\ Len(Promised(called)) = Depth(called, Len(Plan)) + FunLen
       /\ Promised(called)[Depth(called, Len(Plan)) - Depth(called, h) + 1] = Callback(h)
  <2>1. Depth(called, h) = Depth(called, h - 1) + 1
    BY <1>9, DepthNext
  <2>2. Depth(called, h - 1) \in Nat /\ Depth(called, Len(Plan)) \in Nat
    BY <1>9, Depths
  <2>3. Depth(called, h) <= Depth(called, Len(Plan))
    BY <1>9, DepthGrows
  <2>4. Callback(h) \in Place
    <3>1. h \in Int
      BY <1>9
    <3> QED
      BY <3>1, PlacesOfHooks
  <2>5. /\ Len(Promised(called)) = Depth(called, Len(Plan)) + FunLen
        /\ Promised(called)[Depth(called, Len(Plan)) - Depth(called, h) + 1] = Callback(h)
    BY <1>1, <1>8, Promise
  <2> QED
    BY <2>1, <2>2, <2>3, <2>4, <2>5
<1>11. /\ Kept(trace', called')
       /\ Len(trace') = Depth(called, Len(Plan)) - Depth(called, h - 1)
  <2>1. /\ Len(trace) + 1 <= Len(Promised(called))
        /\ Promised(called)[Len(trace) + 1] = Callback(h)
        /\ Len(trace) + 1 = Depth(called, Len(Plan)) - Depth(called, h - 1)
    BY <1>8, <1>10
  <2>2. /\ Kept(Append(trace, Callback(h)), called)
        /\ Len(Append(trace, Callback(h))) = Len(trace) + 1
    BY <1>1, <1>10, <2>1, KeptGrows
  <2> QED
    BY <1>1, <1>8, <2>1, <2>2, Zenon
<1>12. CASE pc' = Returned
  BY <1>1, <1>11, <1>12, CallingNext
<1>13. CASE pc' = Slot(h - 1, 0)
  <2>1. Filled(h) /\ Layout /\ count(called) \in 1 .. 5
    BY <1>1, <1>9, CountIs DEF CallInv, Layout
  <2>2. CASE Hooks(called, h - 1) = {}
    <3>1. Depth(called, h - 1) = 0
      BY <1>9, <2>2, Depths
    <3>2. ToOwn(0)'
      <4>1. Len(trace') = Depth(called, Len(Plan)) + 0
        BY <1>10, <1>11, <3>1
      <4>2. 0 < count(called)
        BY <2>1
      <4>3. called' = called /\ count(called)' = count(called)
        BY <1>1, <1>4
      <4> QED
        BY <1>8, <1>13, <2>2, <4>1, <4>2, <4>3, Zenon DEF ToOwn
    <3> QED
      BY <1>1, <1>3, <1>11, <3>2, CallingNext
  <2>3. ASSUME NEW g, Latest(g, Plan[h], h - 1),
               StartsWith(pool[h - 1], Moved(Plan[h], h - 1, Callback(g)))
        PROVE  Calling'
    <3>1. g \in 1 .. h - 1 /\ Plan[g] = called /\ Depth(called, h - 1) = Depth(called, g)
      BY <1>9, <2>3, LatestDepth
    <3>2. \A x : Goes(Slot(h - 1, 0), x, Callback(g))
      BY <1>9, <2>1, <2>3, LaterGoes
    <3>3. Goes(pc, x17, Callback(g))'
      BY <1>4, <1>13, <3>2
    <3>4. g \in Hooks(called, Len(Plan)) /\ g \in 1 .. Len(Plan)
      BY <1>9, <3>1 DEF Hooks
    <3>5. ToCallback(g)'
      BY <1>1, <1>11, <3>1, <3>3, <3>4 DEF ToCallback
    <3> QED
      BY <1>1, <1>3, <1>11, <3>4, <3>5, CallingNext
  <2> QED
    BY <1>9, <2>1, <2>2, <2>3 DEF Filled
<1>14. OrigRef[pc.of] = Slot(h - 1, 0)
  BY <1>8, <1>9 DEF CallInv, Slots, Callback
<1> QED
  BY <1>1, <1>12, <1>13, <1>14

LEMMA GameCalling ==
  ASSUME CallInv, Game
  PROVE  Calling'
<1>1. PICK f \in Function : Call(f)
  BY DEF Game
<1>2. /\ called' = f /\ pc' = Code(f, 0) /\ trace' = << >> /\ x17' = x17
      /\ UNCHANGED <<lies, code, pool, stage, installed>>
      /\ stage = "running" /\ installed = Len(Plan)
  BY <1>1 DEF Game, Call, layoutVars, hookVars, CallInv, Running
<1>3. /\ \A p, x, to : Goes(p, x, to)' = Goes(p, x, to)
      /\ \A e : count(e)' = count(e)
  BY <1>2, GoesSame
<1>4. Kept(trace', called') /\ Len(trace') = 0
  <2>1. << >> \in Seq(Place) /\ Len(<< >>) = 0
    BY EmptySeq
  <2>2. Len(Promised(f)) \in Nat
    BY Promise, LenProperties
  <2>3. PICK t : t = << >>
    OBVIOUS
  <2>4. t \in Seq(Place) /\ Len(t) = 0
    BY <2>1, <2>3
  <2>5. Kept(t, f)
    BY <2>2, <2>4 DEF Kept
  <2> QED
    BY <1>2, <2>3, <2>4, <2>5
<1>5. Layout /\ Written(f) /\ Len(Plan) \in Nat /\ 0 \in 0 .. FunLen - 1
  BY PlanLength DEF CallInv, Layout
<1>6. CASE Hooks(f, Len(Plan)) = {}
  <2>1. Depth(f, Len(Plan)) = 0
    BY <1>5, <1>6, Depths
  <2>2. Goes(pc, x17, Code(called, 0))'
    BY <1>2 DEF Goes, Code
  <2>3. ToOwn(0)'
    BY <1>2, <1>4, <1>6, <2>1, <2>2 DEF ToOwn
  <2> QED
    BY <1>2, <1>4, <1>5, <2>3, CallingNext
<1>7. ASSUME NEW h \in 1 .. Len(Plan), Latest(h, f, Len(Plan)),
             \A i \in 0 .. count(f) - 1 : code[f][i] = JumpTo(f, Callback(h))[i + 1]
      PROVE  Calling'
  <2>1. h \in Int /\ Depth(f, Len(Plan)) = Depth(f, h) /\ Depth(f, h) \in Nat
    BY <1>5, <1>7, LatestDepth, Depths
  <2>2. \A x : Goes(Code(f, 0), x, Callback(h))
    BY <1>5, <1>7, <2>1, CodeGoes
  <2>3. Goes(pc, x17, Callback(h))'
    BY <1>2, <1>3, <2>2
  <2>4. h \in Hooks(f, Len(Plan))
    BY <1>7 DEF Latest
  <2>5. ToCallback(h)'
    BY <1>2, <1>4, <2>1, <2>3, <2>4 DEF ToCallback
  <2> QED
    BY <1>2, <1>4, <1>7, <2>5, CallingNext
<1> QED
  BY <1>2, <1>5, <1>6, <1>7 DEF Written
\* The game runs only when every hook is installed.
LEMMA RunningStep ==
  ASSUME Running, [Next]_vars
  PROVE  Running'
<1>1. CASE InstallHooks
  BY <1>1 DEF InstallHooks, Running
<1>2. CASE FindModules \/ InitPatcherImpl \/ Initialize
  BY <1>2 DEF FindModules, InitPatcherImpl, Initialize, Running, unhooked, hookVars, Abort
<1>3. CASE Game \/ Calls \/ UNCHANGED vars
  <2>1. UNCHANGED <<stage, installed>>
    BY <1>3 DEF Game, Call, Calls, Run, Execute, RunCallback, vars, hookVars
  <2> QED
    BY <2>1 DEF Running
<1> QED
  BY <1>1, <1>2, <1>3 DEF Next

LEMMA CallFirst == Init => CallInv
<1> SUFFICES ASSUME Init PROVE CallInv
  OBVIOUS
<1>1. Layout /\ Slots /\ Running
  BY LayoutFirst, SlotsFirst DEF Init, Running
<1>2. called \in Function /\ trace = << >> /\ pc = Returned
  BY DEF Init, HookInit
<1>3. Kept(trace, called)
  <2>1. Len(Promised(called)) \in Nat
    BY <1>2, Promise, LenProperties
  <2> QED
    BY <1>2, <2>1, EmptySeq DEF Kept
<1> QED
  BY <1>1, <1>2, <1>3 DEF CallInv, Calling, Kept

LEMMA CallStep ==
  ASSUME CallInv, [Next]_vars
  PROVE  CallInv'
<1>1. Layout' /\ Slots' /\ Running'
  BY LayoutStep, SlotsStep, RunningStep DEF CallInv
<1>2. /\ called \in Function /\ Kept(trace, called)
      /\ \/ pc = Returned
         \/ /\ stage = "running" /\ installed = Len(Plan)
            /\ \/ \E h \in 1 .. Len(Plan) : ToCallback(h)
               \/ \E i \in 0 .. FunLen - 1 : ToOwn(i)
  BY CallingIs
<1>3. CASE FindModules \/ InitPatcherImpl \/ Initialize \/ InstallHooks
  <2>1. stage # "running" /\ UNCHANGED callVars
    BY <1>3 DEF FindModules, InitPatcherImpl, Initialize, InstallHooks, Install, unhooked
  <2>2. pc = Returned /\ UNCHANGED <<called, pc, trace>>
    BY <1>2, <2>1 DEF callVars
  <2>3. called' \in Function /\ Kept(trace', called') /\ pc' = Returned
    BY <1>2, <2>2
  <2>4. Calling'
    BY <2>3, CallingNext
  <2> QED
    BY <1>1, <2>4 DEF CallInv
<1>4. CASE Game
  BY <1>1, <1>4, GameCalling DEF CallInv
<1>5. CASE Calls
  <2>1. Execute \/ RunCallback
    BY <1>5 DEF Calls, Run
  <2>2. Calling'
    BY <1>5, <2>1, ExecuteCalling, CallbackCalling
  <2> QED
    BY <1>1, <2>2 DEF CallInv
<1>6. CASE UNCHANGED vars
  <2>1. UNCHANGED <<lies, code, pool, stage, installed, called, pc, x17, trace>>
    BY <1>6 DEF vars, layoutVars, hookVars, callVars
  <2>2. /\ \A p, x, to : Goes(p, x, to)' = Goes(p, x, to)
        /\ \A f : count(f)' = count(f)
    BY <2>1, GoesSame
  <2>3. \A h : ToCallback(h) => ToCallback(h)'
    BY <2>1, <2>2 DEF ToCallback
  <2>4. \A i : ToOwn(i) => ToOwn(i)'
    BY <2>1, <2>2 DEF ToOwn, Code
  <2>5. called' \in Function /\ Kept(trace', called')
    BY <1>2, <2>1
  <2>6. \/ pc' = Returned
        \/ /\ stage' = "running" /\ installed' = Len(Plan)
           /\ \/ \E h \in 1 .. Len(Plan) : ToCallback(h)'
              \/ \E i \in 0 .. FunLen - 1 : ToOwn(i)'
    BY <1>2, <2>1, <2>3, <2>4
  <2>7. Calling'
    BY <2>5, <2>6, CallingNext
  <2> QED
    BY <1>1, <2>7 DEF CallInv
<1> QED
  BY <1>3, <1>4, <1>5, <1>6 DEF Next

\* A trace kept so far is the beginning of what is promised.
LEMMA KeptIsBeginning ==
  ASSUME NEW f \in Function, NEW t, Kept(t, f)
  PROVE  t = SubSeq(Promised(f), 1, Len(t))
<1>1. PICK p \in Seq(Place) : p = Promised(f)
  BY Promise
<1>2. /\ t \in Seq(Place) /\ Len(t) \in Nat /\ Len(t) <= Len(p) /\ Len(p) \in Nat
      /\ \A i \in 1 .. Len(t) : t[i] = p[i]
  BY <1>1, LenProperties DEF Kept
<1>3. PICK s : s = SubSeq(p, 1, Len(t))
  OBVIOUS
<1>4. /\ s \in Seq(Place) /\ Len(s) = Len(t)
      /\ \A i \in 1 .. Len(t) : s[i] = p[i]
  BY <1>2, <1>3, SubSeqProperties
<1>5. t = s
  BY <1>2, <1>4, SeqEqual
<1> QED
  BY <1>1, <1>3, <1>5

(***************************************************************************)
(* A call of a hooked function enters its callbacks, the one hooked last   *)
(* first, and then executes each instruction of the function once and in   *)
(* order, or as much of that as the callbacks let it: for any plan of      *)
(* hooks, near and far, even and odd, and any number of hooks of one       *)
(* function (HookFuncImpl).                                                *)
(***************************************************************************)
THEOREM CallsGoAsInstalled == Spec => []CallsAsInstalled
<1>1. Init => CallInv
  BY CallFirst
<1>2. CallInv /\ [Next]_vars => CallInv'
  BY CallStep
<1>3. CallInv => CallsAsInstalled
  <2> SUFFICES ASSUME CallInv PROVE CallsAsInstalled
    OBVIOUS
  <2>1. called \in Function /\ Kept(trace, called)
    BY CallingIs
  <2> QED
    BY <2>1, KeptIsBeginning DEF CallsAsInstalled, Kept
<1> QED
  BY <1>1, <1>2, <1>3, PTL DEF Spec
-----------------------------------------------------------------------------
(***************************************************************************)
(* The word a call is at can be executed.                                  *)
(***************************************************************************)
CanGoOn ==
  \/ pc.in = "callback"
  \/ /\ pc.in \in {"code", "slot"}
     /\ WordAt(pc).op \in {"own", "nop", "b", "ldr_x17", "br_x17"}

LEMMA JumpsGoOn ==
  ASSUME Jumps(pc)
  PROVE  CanGoOn
<1>1. pc.in \in {"code", "slot"}
  BY DEF Jumps, WordAt, Word
<1> QED
  BY <1>1 DEF CanGoOn, Jumps

LEMMA OwnGoesOn ==
  ASSUME WordAt(pc).op = "own"
  PROVE  CanGoOn
<1>1. pc.in \in {"code", "slot"}
  BY DEF WordAt, Word
<1> QED
  BY <1>1 DEF CanGoOn

LEMMA CallGoesOn ==
  ASSUME CallInv, pc # Returned
  PROVE  CanGoOn
<1>1. /\ called \in Function /\ installed = Len(Plan)
      /\ \/ \E h \in 1 .. Len(Plan) : ToCallback(h)
         \/ \E i \in 0 .. FunLen - 1 : ToOwn(i)
  BY CallingIs
<1>2. Layout /\ Written(called) /\ count(called) \in 1 .. 5 /\ count(called) < FunLen
  BY <1>1, CountIs DEF CallInv, Layout
<1>3. ASSUME NEW h \in 1 .. Len(Plan), ToCallback(h)
      PROVE  CanGoOn
  <2>1. pc = Callback(h) \/ Jumps(pc)
    BY <1>3 DEF ToCallback, Goes, In1, In2, In3, In4
  <2>2. pc = Callback(h) => CanGoOn
    BY DEF Callback, CanGoOn
  <2> QED
    BY <2>1, <2>2, JumpsGoOn
<1>4. ASSUME NEW i \in 0 .. FunLen - 1, ToOwn(i)
      PROVE  CanGoOn
  <2>1. CASE Jumps(pc)
    BY <2>1, JumpsGoOn
  <2>2. CASE /\ count(called) <= i \/ Hooks(called, Len(Plan)) = {}
             /\ pc = Code(called, i)
    <3>1. WordAt(pc) = code[called][i]
      BY <1>1, <2>2, WordsThere
    <3>2. count(called) <= i => code[called][i] = OwnWord(called, i)
      BY <1>2 DEF Written
    <3>3. i < count(called) /\ Hooks(called, Len(Plan)) = {} =>
            code[called][i] = OwnWord(called, i)
      BY <1>1, <1>2 DEF Written, Latest
    <3>4. WordAt(pc) = OwnWord(called, i)
      BY <1>2, <2>2, <3>1, <3>2, <3>3
    <3>5. WordAt(pc).op = "own"
      BY <3>4 DEF OwnWord, Word
    <3> QED
      BY <3>5, OwnGoesOn
  <2>3. ASSUME NEW h \in Hooks(called, Len(Plan)), i < count(called),
               Hooks(called, h - 1) = {}, pc = Slot(h - 1, i)
        PROVE  CanGoOn
    <3>1. h \in 1 .. Len(Plan) /\ Plan[h] = called /\ h - 1 \in Int
          /\ h <= installed
      BY <1>1, PlanLength DEF Hooks
    <3>2. \A j \in 0 .. count(called) - 1 : WordAt(Slot(h - 1, j)) = OwnWord(called, j)
      BY <1>1, <1>2, <2>3, <3>1, FirstGoes
    <3>3. WordAt(pc) = OwnWord(called, i)
      BY <1>2, <2>3, <3>2
    <3>4. WordAt(pc).op = "own"
      BY <3>3 DEF OwnWord, Word
    <3> QED
      BY <3>4, OwnGoesOn
  <2> QED
    BY <1>4, <2>1, <2>2, <2>3 DEF ToOwn, Goes, In1, In2, In3, In4
<1> QED
  BY <1>1, <1>3, <1>4

(***************************************************************************)
(* A call of a hooked function never runs into the words of a jump's       *)
(* address, nor behind the end of a slot: wherever it is before it has     *)
(* returned, there is a callback or an instruction to execute.             *)
(***************************************************************************)
THEOREM CallsNeverStick == Spec => [](pc # Returned => CanGoOn)
<1>1. CallInv => (pc # Returned => CanGoOn)
  BY CallGoesOn
<1> QED
  BY <1>1, CallFirst, CallStep, PTL DEF Spec
-----------------------------------------------------------------------------
(***************************************************************************)
(* Types.                                                                  *)
(***************************************************************************)
Indices(s, n) == Len(s) < 3 /\ \A i \in DOMAIN s : s[i] \in 1 .. n

ScanTyped ==
  /\ state \in Scanning \cup {"found", "aborted"}
  /\ Indices(curModInfo, Len(map))
  /\ Len(s_ModuleInfos) <= s_MaxModules

StageTyped ==
  /\ failed \in BOOLEAN
  /\ stage \in {"InitMemLayout", "InitPatcherImpl", "Initialize", "install", "running"}
  /\ \A h \in Hook : h \in 1 .. installed \/ OrigRef[h] = Nowhere

LEMMA FewIndices ==
  ASSUME NEW n \in Nat
  PROVE  /\ Indices(<< >>, n)
         /\ \A i \in 1 .. n : Indices(<<i>>, n)
         /\ \A i, j \in 1 .. n : Indices(<<i, j>>, n)
<1>1. Indices(<< >>, n)
  BY DEF Indices
<1>2. ASSUME NEW i \in 1 .. n
      PROVE  Indices(<<i>>, n)
  BY DEF Indices
<1>3. ASSUME NEW i \in 1 .. n, NEW j \in 1 .. n
      PROVE  Indices(<<i, j>>, n)
  BY DEF Indices
<1> QED
  BY <1>1, <1>2, <1>3

LEMMA TypedFirst == Init => ScanTyped /\ StageTyped
<1> SUFFICES ASSUME Init PROVE ScanTyped /\ StageTyped
  OBVIOUS
<1>1. /\ map \in Maps /\ state = "LookingForCodeStatic"
      /\ curModInfo = << >> /\ s_ModuleInfos = << >>
      /\ failed = FALSE /\ stage = "InitMemLayout" /\ OrigRef = [h \in Hook |-> Nowhere]
  BY DEF Init, ScanInit, HookInit
<1>2. Indices(curModInfo, Len(map))
  BY <1>1, MapType, FewIndices
<1>3. Len(s_ModuleInfos) <= s_MaxModules
  BY <1>1, MaxModulesAssumption
<1>4. ScanTyped
  BY <1>1, <1>2, <1>3 DEF ScanTyped, Scanning
<1>5. StageTyped
  BY <1>1 DEF StageTyped
<1> QED
  BY <1>4, <1>5

LEMMA ScanTypedStep ==
  ASSUME ScanInv, ScanTyped, [Next]_vars
  PROVE  ScanTyped'
<1>1. CASE UNCHANGED <<map, scanVars>>
  BY <1>1 DEF ScanTyped, scanVars
<1>2. CASE EndScan \/ TooManyStaticModules
  BY <1>2 DEF EndScan, TooManyStaticModules, ScanTyped
<1>3. /\ at \in Nat /\ Len(map) \in Nat /\ Len(map) > 0 /\ DOMAIN map = 1 .. Len(map)
      /\ region \in 1 .. Len(map)
  BY MapType DEF ScanInv, region
<1>4. CASE LookForCodeStatic
  <2>1. /\ map' = map /\ s_ModuleInfos' = s_ModuleInfos
        /\ \/ curModInfo' = <<region>> /\ state' = "ExpectingRodata"
           \/ UNCHANGED <<curModInfo, state>>
    BY <1>4 DEF LookForCodeStatic, Round
  <2>2. Indices(curModInfo', Len(map))
    BY <1>3, <2>1, FewIndices DEF ScanTyped
  <2> QED
    BY <2>1, <2>2 DEF ScanTyped, Scanning
<1>5. CASE ExpectRodata
  <2>1. /\ map' = map /\ s_ModuleInfos' = s_ModuleInfos
        /\ curModInfo = <<at - 1>> /\ at - 1 \in 1 .. Len(map)
        /\ \/ curModInfo' = Append(curModInfo, region) /\ state' = "ExpectingData"
           \/ curModInfo' = << >> /\ state' = "LookingForCodeStatic"
    BY <1>3, <1>5 DEF ExpectRodata, Round, reset, ScanInv, Collected
  <2>2. Append(curModInfo, region) = <<at - 1, region>>
    <3>1. at - 1 \in Int /\ region \in Int
      BY <1>3
    <3> QED
      BY <2>1, <3>1, Pair
  <2>3. Indices(curModInfo', Len(map))
    BY <1>3, <2>1, <2>2, FewIndices
  <2> QED
    BY <2>1, <2>3 DEF ScanTyped, Scanning
<1>6. CASE ExpectData
  <2>1. /\ map' = map /\ Room
        /\ \/ s_ModuleInfos' = Completed \/ s_ModuleInfos' = s_ModuleInfos
        /\ curModInfo' = << >> /\ state' = "LookingForCodeStatic"
    BY <1>6 DEF ExpectData, NotAModule, Round, reset
  <2>2. Indices(curModInfo', Len(map))
    BY <1>3, <2>1, FewIndices
  <2>3. s_ModuleInfos' = Completed => Len(s_ModuleInfos') <= s_MaxModules
    <3>1. PICK c : c = Append(curModInfo, region)
      OBVIOUS
    <3>2. s_ModuleInfos \in Seq(Seq(Int) \cup {c}) /\ Len(s_ModuleInfos) \in Nat
      BY DEF ScanInv, Found
    <3>3. Len(Append(s_ModuleInfos, c)) = Len(s_ModuleInfos) + 1
      BY <3>2, AppendProperties
    <3> QED
      BY <2>1, <3>1, <3>2, <3>3, MaxModulesAssumption DEF Completed, Room
  <2> QED
    BY <2>1, <2>2, <2>3 DEF ScanTyped, Scanning
<1>7. CASE ~FindModules
  <2>1. UNCHANGED <<map, scanVars>>
    BY <1>7 DEF Next, InitPatcherImpl, Initialize, InstallHooks, Game, Calls,
                scanned, vars
  <2> QED
    BY <1>1, <2>1
<1> QED
  BY <1>2, <1>4, <1>5, <1>6, <1>7 DEF FindModules, ScanNext

LEMMA StageTypedStep ==
  ASSUME StageTyped, Slots, [Next]_vars
  PROVE  StageTyped'
<1>1. ASSUME UNCHANGED <<installed, OrigRef>>, failed' \in BOOLEAN,
             stage' \in {"InitMemLayout", "InitPatcherImpl", "Initialize", "install", "running"}
      PROVE  StageTyped'
  BY <1>1 DEF StageTyped
<1>2. CASE FindModules
  BY <1>1, <1>2 DEF FindModules, unhooked, hookVars, StageTyped
<1>3. CASE InitPatcherImpl \/ Initialize
  BY <1>1, <1>3 DEF InitPatcherImpl, Initialize, unhooked, hookVars, Abort, StageTyped
<1>4. CASE InstallHooks
  <2>1. stage' \in {"install", "running"} /\ Install
    BY <1>4 DEF InstallHooks
  <2>2. CASE Abort
    BY <1>1, <2>1, <2>2 DEF Abort
  <2>3. CASE ~Abort
    <3>1. /\ OrigRef' = [OrigRef EXCEPT ![installed + 1] = Slot(index', 0)]
          /\ installed' = installed + 1 /\ failed' = failed
      BY <2>1, <2>3 DEF Install
    <3>2. \A h \in Hook : h \in 1 .. installed' \/ OrigRef'[h] = Nowhere
      <4>1. TAKE h \in Hook
      <4>2. h \in Nat /\ installed \in Nat
        BY PlanLength DEF Slots
      <4>3. CASE h = installed + 1
        BY <3>1, <4>2, <4>3
      <4>4. CASE h # installed + 1
        BY <3>1, <4>2, <4>4 DEF StageTyped, Slots
      <4> QED
        BY <4>3, <4>4
    <3> QED
      BY <2>1, <3>1, <3>2 DEF StageTyped
  <2> QED
    BY <2>2, <2>3
<1>5. CASE Game \/ Calls \/ UNCHANGED vars
  <2>1. UNCHANGED <<stage, installed, OrigRef, failed>>
    BY <1>5 DEF Game, Call, Calls, Run, Execute, RunCallback, vars, hookVars
  <2> QED
    BY <1>1, <2>1 DEF StageTyped
<1> QED
  BY <1>2, <1>3, <1>4, <1>5 DEF Next

(***************************************************************************)
(* Every variable of the scan, the hooks and a call keeps its type: a scan *)
(* collects no more than two regions of the map and stores no more modules *)
(* than fit, a counter of slots never leaves the pool, and a call is at a  *)
(* word, at a callback or back in the game.                                *)
(***************************************************************************)
THEOREM TypeCorrect == Spec => []TypeOK
<1>1. /\ Init => ScanInv /\ CallInv /\ ScanTyped /\ StageTyped
      /\ ScanInv /\ CallInv /\ ScanTyped /\ StageTyped /\ [Next]_vars =>
           ScanInv' /\ CallInv' /\ ScanTyped' /\ StageTyped'
  BY ScanFirst, CallFirst, TypedFirst, ScanStep, CallStep, ScanTypedStep,
     StageTypedStep DEF CallInv
<1>2. ScanInv /\ CallInv /\ ScanTyped /\ StageTyped => TypeOK
  <2> SUFFICES ASSUME ScanInv, CallInv, ScanTyped, StageTyped PROVE TypeOK
    OBVIOUS
  <2>1. ScanTypeOK
    <3>1. map \in Maps /\ at \in 1 .. Len(map) + 2 /\ DOMAIN map = 1 .. Len(map)
      BY MapType DEF ScanInv
    <3>2. s_SelfModuleIdx \in -1 .. s_MaxModules - 1
      <4>1. Len(s_ModuleInfos) \in Nat /\ DOMAIN s_ModuleInfos = 1 .. Len(s_ModuleInfos)
        BY DEF ScanInv, Found
      <4> QED
        BY <4>1, MaxModulesAssumption DEF ScanInv, Own, ScanTyped
    <3> QED
      BY <3>1, <3>2 DEF ScanTyped, Indices, ScanTypeOK
  <2>2. HookTypeOK
    <3>1. installed \in 0 .. Len(Plan) /\ index \in -1 .. HookMax
      BY PlanLength DEF CallInv, Slots
    <3>2. \A f \in Function : DOMAIN code[f] = 0 .. FunLen - 1
      BY DEF CallInv, Layout
    <3>3. OrigRef \in [Hook -> {Nowhere} \cup {Slot(k, 0) : k \in 0 .. HookMax}]
      <4>1. ASSUME NEW h \in Hook
            PROVE  OrigRef[h] \in {Nowhere} \cup {Slot(k, 0) : k \in 0 .. HookMax}
        <5>1. CASE h \in 1 .. installed
          <6>1. OrigRef[h] = Slot(h - 1, 0) /\ h - 1 \in 0 .. HookMax
            BY <3>1, <5>1, PlanLength DEF CallInv, Slots
          <6> QED
            BY <6>1
        <5>2. CASE OrigRef[h] = Nowhere
          BY <5>2
        <5> QED
          BY <5>1, <5>2 DEF StageTyped
      <4> QED
        BY <4>1 DEF CallInv, Slots
    <3>4. called \in Function
      BY CallingIs
    <3>5. pc.in \in {"code", "slot", "callback", "none"}
      <4>1. pc = Returned => pc.in = "none"
        BY DEF Returned
      <4> QED
        BY <4>1, CallGoesOn DEF CanGoOn
    <3> QED
      BY <3>1, <3>2, <3>3, <3>4, <3>5 DEF HookTypeOK, StageTyped
  <2> QED
    BY <2>1, <2>2 DEF StageTyped, TypeOK
<1> QED
  BY <1>1, <1>2, PTL DEF Spec
=============================================================================
