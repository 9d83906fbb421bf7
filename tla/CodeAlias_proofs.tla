-------------------------- MODULE CodeAlias_proofs --------------------------
(***************************************************************************)
(* RwPages opens windows, and does not map before it has the handle; it    *)
(* gives up only for a cause named, and a finished alias shows its code;   *)
(* the list of reservations is whole, and no thread waits in vain: for any *)
(* code, any layout of the address space and any number of claims.         *)
(***************************************************************************)
EXTENDS CodeAlias, FiniteSetTheorems, WellFoundedInduction, TLAPS

(***************************************************************************)
(* The handle.  The second thread lives while the first one sends or       *)
(* waits, and once it has stored the handle that is never taken back.      *)
(***************************************************************************)
HandleInv ==
  /\ server \in {"receiving", "received", "set", "closed"}
       => pc \in {"sending", "joining"}
  /\ server \in {"set", "closed", "exited"} => s_Handle
  /\ pc \in Mapping => s_Handle
  /\ server \in {"none", "receiving", "received", "set", "closed", "exited"}

LEMMA HandleStep ==
  ASSUME HandleInv, [Next]_vars
  PROVE  HandleInv'
<1> USE DEF HandleInv, Mapping
<1>1. ASSUME NEW c \in Claim, Construct(c) \/ Destruct(c)
      PROVE  HandleInv'
  BY <1>1 DEF Construct, Destruct, handleVars
<1>2. CASE Find
  BY <1>2 DEF Find, Die, handleVars
<1>3. CASE Reserve
  BY <1>3 DEF Reserve, Die, handleVars
<1>4. CASE GetHandle
  BY <1>4 DEF GetHandle, AfterHandle, Die, handleVars
<1>5. CASE Server
  <2>1. CASE Store
    BY <2>1 DEF Store
  <2>2. CASE Receive \/ CloseSession \/ ExitThread
    BY <2>2 DEF Receive, CloseSession, Closed, ExitThread
  <2> QED
    BY <1>5, <2>1, <2>2 DEF Server
<1>6. CASE Send
  BY <1>6 DEF Send, handleVars
<1>7. CASE Join
  <2>1. server = "exited" /\ s_Handle /\ UNCHANGED <<server, s_Handle>>
    BY <1>7 DEF Join, Joinable, handleVars
  <2> QED
    BY <2>1
<1>8. CASE MapRange
  <2>1. pc = "mapping" /\ UNCHANGED <<s_Handle, server>>
    BY <1>8 DEF MapRange, Die, handleVars
  <2> QED
    BY <2>1
<1>9. CASE Check
  BY <1>9 DEF Check, Die, handleVars
<1>10. CASE UnmapRange
  <2>1. pc = "unmapping" /\ UNCHANGED <<s_Handle, server>>
    BY <1>10 DEF UnmapRange, Die, handleVars
  <2> QED
    BY <2>1
<1>11. CASE Remove
  BY <1>11 DEF Remove, handleVars
<1>12. CASE UNCHANGED vars
  BY <1>12 DEF vars, handleVars
<1> QED
  BY <1>1, <1>2, <1>3, <1>4, <1>5, <1>6, <1>7, <1>8, <1>9, <1>10, <1>11, <1>12
  DEF Next, Proceed

(***************************************************************************)
(* Pages are mapped and unmapped with the handle at hand, and not while    *)
(* the thread that fetched it still runs on its borrowed stack.            *)
(***************************************************************************)
THEOREM HandleIsThere == Spec => []HandleBeforeUse
<1>1. Init => HandleInv
  BY DEF Init, HandleInv, Mapping
<1>2. HandleInv => HandleBeforeUse
  BY DEF HandleInv, HandleBeforeUse, Mapping
<1> QED
  BY <1>1, <1>2, HandleStep, PTL DEF Spec

-----------------------------------------------------------------------------
(***************************************************************************)
(* The windows.                                                            *)
(***************************************************************************)
Getting == {"handle", "sending", "joining"}
Building == {"reserving", "mapping", "checking"}
Leaving == {"unmapping", "removing"}

\* Which objects have addresses, and where the one at work is.
Placed ==
  /\ pc \in {"idle", "finding", "dead"} \cup Getting \cup Building \cup Leaving
  /\ live \subseteq Claim /\ cur \in Claim \cup {NULL}
  /\ cur = NULL <=> pc = "idle"
  /\ alignedRw \in [Claim -> Page \cup {NULL}]
  /\ \A c \in Claim :
       /\ c \in live => alignedRw[c] # NULL
       /\ c \notin live /\ c # cur => alignedRw[c] = NULL
       /\ alignedRw[c] # NULL => Region(c) \subseteq Page
  /\ pc = "finding" => cur \notin live /\ alignedRw[cur] = NULL
  /\ pc \in Building => cur \notin live
  /\ pc \in Getting \cup Building \cup Leaving => alignedRw[cur] # NULL
  /\ pc \in Leaving => cur \in live

\* How far the pages of the object at work are mapped or unmapped.
Progress ==
  /\ pc \in {"finding", "reserving"} \cup Getting => done = 0
  /\ pc \in Building \cup Leaving => done \in 0 .. GetAlignedSize(cur)
  /\ pc \in {"checking", "removing"} => done = GetAlignedSize(cur)
  /\ pc \in {"mapping", "checking"} =>
       \A i \in 0 .. done - 1 :
         memory[alignedRw[cur] + i] = GetAlignedRo(cur) + i
  /\ pc \in Leaving => \A i \in 0 .. done - 1 : memory[alignedRw[cur] + i] = NULL

Inv == Placed /\ Progress

\* The refinement mapping.
Opened == [c \in Claim |-> IF c \in live \ {cur} THEN alignedRw[c] ELSE NULL]
Shown == [p \in Page |-> IF p \in AtWork THEN NULL ELSE memory[p]]

USE PageSizeAssumption, PageAssumption, ClaimAssumption, NullAssumption
USE DEF Getting, Building, Leaving

\* A claim takes at least one page.
LEMMA SizeType ==
  ASSUME NEW c \in Claim
  PROVE  GetAlignedSize(c) \in Nat /\ GetAlignedSize(c) > 0
<1>1. Size[c] \in Nat /\ Size[c] > 0
  OBVIOUS
<1>2. \A s, n \in Nat : n > 0 /\ s > 0 => (s + n - 1) \div n \in Nat
                                          /\ (s + n - 1) \div n > 0
  BY Z3
<1> QED
  BY <1>1, <1>2 DEF GetAlignedSize

LEMMA InitInv == Init => Inv
BY DEF Init, Inv, Placed, Progress

\* The object at work stays at work.
Working == pc # "idle" /\ pc # "dead"

\* An abort leaves everything where it is.
LEMMA DieKeeps ==
  ASSUME Inv, Working, NEW why, Die(why)
  PROVE  Inv' /\ UNCHANGED <<Opened, Shown>>
<1>1. Inv'
  BY DEF Inv, Placed, Progress, Working, Die, Region
<1> QED
  BY <1>1 DEF Die, Opened, Shown, AtWork, Region

\* What decides how the windows look from outside.
LEMMA BareShows ==
  ASSUME UNCHANGED <<cur, memory, live, alignedRw>>
  PROVE  UNCHANGED <<Opened, Shown>>
BY DEF Opened, Shown, AtWork, Region

\* Getting the handle.
LEMMA GettingKeeps ==
  ASSUME Inv, GetHandle \/ Send \/ Join
  PROVE  Inv' /\ UNCHANGED <<Opened, Shown>>
<1>1. CASE Die("no session")
  <2>1. Working
    BY DEF GetHandle, Send, Join, Working
  <2> QED
    BY <1>1, <2>1, DieKeeps
<1>2. CASE ~Die("no session")
  <2>1. /\ pc \in Getting
        /\ pc' \in Getting \cup {AfterHandle}
        /\ UNCHANGED <<cur, memory, done, live, alignedRw>>
    BY <1>2 DEF GetHandle, Send, Join
  <2>2. Placed'
    BY <2>1 DEF Inv, Placed, AfterHandle, Region
  <2>3. Progress'
    <3>1. done' = 0 /\ cur \in Claim
      BY <2>1 DEF Inv, Placed, Progress
    <3> QED
      BY <2>1, <3>1, SizeType DEF Progress, AfterHandle
  <2> QED
    BY <2>1, <2>2, <2>3, BareShows DEF Inv
<1> QED
  BY <1>1, <1>2

\* The second thread, and steps that change nothing.
LEMMA OthersKeep ==
  ASSUME Inv, Server \/ UNCHANGED vars
  PROVE  Inv' /\ UNCHANGED <<Opened, Shown>>
<1>1. UNCHANGED <<pc, cur, memory, done, live, alignedRw>>
  BY DEF Server, Receive, Store, CloseSession, ExitThread, vars
<1>2. Inv'
  BY <1>1 DEF Inv, Placed, Progress, Region
<1> QED
  BY <1>1, <1>2, BareShows

LEMMA ReserveKeeps ==
  ASSUME Inv, Reserve
  PROVE  Inv' /\ UNCHANGED <<Opened, Shown>>
<1>1. CASE Die("no memory")
  BY <1>1, DieKeeps DEF Reserve, Working
<1>2. CASE ~Die("no memory")
  <2>1. /\ pc = "reserving" /\ pc' = "handle"
        /\ UNCHANGED <<cur, memory, done, live, alignedRw>>
    BY <1>2 DEF Reserve
  <2>2. Inv'
    BY <2>1 DEF Inv, Placed, Progress, Region
  <2> QED
    BY <2>1, <2>2, BareShows
<1> QED
  BY <1>1, <1>2

\* A constructor begins; nothing of its object is there yet.
LEMMA ConstructKeeps ==
  ASSUME Inv, NEW c \in Claim, Construct(c)
  PROVE  Inv' /\ UNCHANGED <<Opened, Shown>>
<1>1. cur = NULL /\ alignedRw[c] = NULL
  BY DEF Construct, Inv, Placed
<1>2. Inv'
  BY <1>1 DEF Construct, Inv, Placed, Progress, Region
<1>3. UNCHANGED Opened
  BY <1>1 DEF Construct, Opened
<1>4. AtWork = {} /\ AtWork' = {}
  BY <1>1 DEF Construct, AtWork
<1> QED
  BY <1>2, <1>3, <1>4 DEF Construct, Shown

\* The pages that Find takes show nothing before and, seen from outside, after.
LEMMA FindKeeps ==
  ASSUME Inv, Find
  PROVE  Inv' /\ UNCHANGED <<Opened, Shown>>
<1>1. CASE Die("no address")
  BY <1>1, DieKeeps DEF Find, Working
<1>2. CASE ~Die("no address")
  <2>1. PICK p \in Page :
          /\ FreeAddress(p, GetAlignedSize(cur))
          /\ pc = "finding" /\ pc' = "reserving"
          /\ alignedRw' = [alignedRw EXCEPT ![cur] = p]
          /\ UNCHANGED <<cur, memory, done, live>>
    BY <1>2 DEF Find
  <2>2. cur \in Claim /\ cur \notin live /\ alignedRw[cur] = NULL
    BY <2>1 DEF Inv, Placed
  <2>3. /\ alignedRw'[cur] = p /\ p # NULL
        /\ \A c \in Claim : c # cur => alignedRw'[c] = alignedRw[c]
    BY <2>1, <2>2 DEF Inv, Placed
  <2>4. /\ Region(cur)' = p .. p + GetAlignedSize(cur) - 1
        /\ \A c \in Claim : c # cur => Region(c)' = Region(c)
    BY <2>1, <2>3 DEF Region
  <2>5. Region(cur)' \subseteq Page /\ \A q \in Region(cur)' : memory[q] = NULL
    BY <2>1, <2>4 DEF FreeAddress
  <2>6. Placed'
    <3>1. alignedRw' \in [Claim -> Page \cup {NULL}]
      BY <2>1, <2>2 DEF Inv, Placed
    <3>2. \A c \in Claim :
            /\ c \in live => alignedRw'[c] # NULL
            /\ c \notin live /\ c # cur => alignedRw'[c] = NULL
            /\ alignedRw'[c] # NULL => Region(c)' \subseteq Page
      <4>1. TAKE c \in Claim
      <4>2. CASE c = cur
        <5>1. Region(c)' = Region(cur)'
          BY <2>1, <4>2
        <5> QED
          BY <2>2, <2>3, <2>5, <4>2, <5>1
      <4>3. CASE c # cur
        BY <2>3, <2>4, <4>3 DEF Inv, Placed
      <4> QED
        BY <4>2, <4>3
    <3>3. pc' = "reserving" /\ cur' = cur /\ live' = live /\ cur # NULL
      BY <2>1, <2>2
    <3>4. \A c \in Claim :
            /\ c \in live' => alignedRw'[c] # NULL
            /\ c \notin live' /\ c # cur' => alignedRw'[c] = NULL
            /\ alignedRw'[c] # NULL => Region(c)' \subseteq Page
      BY <3>2, <3>3
    <3>5. live' \subseteq Claim /\ cur' \in Claim /\ cur' \notin live'
          /\ alignedRw'[cur'] # NULL
      BY <2>2, <2>3, <3>3 DEF Inv, Placed
    <3> QED
      BY <3>1, <3>3, <3>4, <3>5 DEF Placed
  <2>7. Progress'
    <3>1. done = 0 /\ GetAlignedSize(cur) \in Nat
      BY <2>1, <2>2, SizeType DEF Inv, Progress
    <3> QED
      BY <2>1, <3>1 DEF Progress
  <2>8. UNCHANGED Opened
    BY <2>1, <2>2, <2>3 DEF Opened
  <2>9. UNCHANGED Shown
    <3>1. AtWork = {} /\ AtWork' = Region(cur)'
      BY <2>1, <2>2, <2>3 DEF AtWork
    <3> QED
      BY <2>1, <2>5, <3>1 DEF Shown
  <2> QED
    BY <2>6, <2>7, <2>8, <2>9 DEF Inv
<1> QED
  BY <1>1, <1>2

-----------------------------------------------------------------------------
\* The pages of the object at work, seen one by one.
LEMMA Pages ==
  ASSUME Inv, pc \in {"mapping", "checking"} \cup Leaving
  PROVE  /\ cur \in Claim /\ alignedRw[cur] \in Page /\ alignedRw[cur] \in Nat
         /\ GetAlignedSize(cur) \in Nat /\ done \in 0 .. GetAlignedSize(cur)
         /\ AtWork = Region(cur) /\ Region(cur) \subseteq Page
         /\ \A i \in 0 .. GetAlignedSize(cur) - 1 :
              alignedRw[cur] + i \in Region(cur)
<1>1. cur \in Claim /\ alignedRw[cur] \in Page
  BY DEF Inv, Placed
<1>2. GetAlignedSize(cur) \in Nat /\ alignedRw[cur] \in Nat
  BY <1>1, SizeType DEF Page
<1>3. AtWork = Region(cur) /\ Region(cur) \subseteq Page
  BY <1>1 DEF AtWork, Inv, Placed
<1>4. done \in 0 .. GetAlignedSize(cur)
  BY DEF Inv, Progress
<1>5. \A i \in 0 .. GetAlignedSize(cur) - 1 :
        alignedRw[cur] + i \in Region(cur)
  BY <1>2 DEF Region
<1> QED
  BY <1>1, <1>2, <1>3, <1>4, <1>5

\* A step on the pages of the object at work that leaves the others alone.
LEMMA WorkShows ==
  ASSUME AtWork = Region(cur), cur \in Claim, alignedRw[cur] # NULL, cur # NULL,
         UNCHANGED <<cur, live, alignedRw>>,
         \A p \in Page \ Region(cur) : memory'[p] = memory[p]
  PROVE  UNCHANGED <<Opened, Shown>>
<1>1. AtWork' = AtWork
  BY DEF AtWork, Region
<1> QED
  BY <1>1 DEF Opened, Shown

LEMMA MapRangeKeeps ==
  ASSUME Inv, MapRange
  PROVE  Inv' /\ UNCHANGED <<Opened, Shown>>
<1>1. CASE Die("kernel")
  BY <1>1, DieKeeps DEF MapRange, Working
<1>2. CASE ~Die("kernel")
  <2> DEFINE n == GetAlignedSize(cur)
             at == alignedRw[cur]
  <2>1. PICK end \in RangeEnds :
          /\ pc = "mapping"
          /\ memory' = [p \in Page |->
               IF \E i \in done .. end - 1 : p = PageAt(i, done)
               THEN GetAlignedRo(cur)
                      + (CHOOSE i \in done .. end - 1 : p = PageAt(i, done))
               ELSE memory[p]]
          /\ done' = end
          /\ pc' = IF end = n THEN "checking" ELSE "mapping"
          /\ UNCHANGED <<cur, live, alignedRw>>
    BY <1>2 DEF MapRange
  <2>2. /\ cur \in Claim /\ cur \notin live /\ cur # NULL /\ at # NULL
        /\ at \in Nat /\ n \in Nat /\ done \in 0 .. n
        /\ AtWork = Region(cur) /\ Region(cur) \subseteq Page
        /\ \A i \in 0 .. n - 1 : at + i \in Region(cur)
    BY <2>1, Pages DEF Inv, Placed
  <2>3. end \in done + 1 .. n
    BY DEF RangeEnds
  <2>4. \A i \in done .. end - 1 : memory'[at + i] = GetAlignedRo(cur) + i
    <3>1. TAKE i \in done .. end - 1
    <3>2. at + i \in Page
      BY <2>2, <2>3
    <3>3. \E j \in done .. end - 1 : at + i = at + j
      OBVIOUS
    <3>4. (CHOOSE j \in done .. end - 1 : at + i = at + j) = i
      BY <2>2, <2>3
    <3> QED
      BY <2>1, <3>2, <3>3, <3>4 DEF PageAt
  <2>5. \A p \in Page : (\A i \in done .. end - 1 : p # at + i)
                         => memory'[p] = memory[p]
    BY <2>1 DEF PageAt
  <2>6. \A i \in 0 .. end - 1 : memory'[at + i] = GetAlignedRo(cur) + i
    <3>1. \A i \in 0 .. done - 1 : memory[at + i] = GetAlignedRo(cur) + i
      BY <2>1 DEF Inv, Progress
    <3>2. \A i \in 0 .. done - 1 : memory'[at + i] = memory[at + i]
      BY <2>2, <2>3, <2>5
    <3> QED
      BY <2>2, <2>3, <2>4, <3>1, <3>2
  <2>7. \A p \in Page \ Region(cur) : memory'[p] = memory[p]
    BY <2>2, <2>3, <2>5
  <2>8. Placed'
    BY <2>1, <2>2 DEF Inv, Placed, Region
  <2>9. Progress'
    BY <2>1, <2>2, <2>3, <2>6, SMTT(30) DEF Progress, GetAlignedRo, GetAlignedSize
  <2> QED
    BY <2>1, <2>2, <2>7, <2>8, <2>9, WorkShows DEF Inv
<1> QED
  BY <1>1, <1>2

\* After memcmp the window opens.
LEMMA CheckOpens ==
  ASSUME Inv, Check
  PROVE  Inv' /\ [Windows!WindowNext]_Windows!windowVars
<1>1. CASE Die("memcmp")
  BY <1>1, DieKeeps DEF Check, Working, Windows!windowVars, Opened, Shown
<1>2. CASE ~Die("memcmp")
  <2> DEFINE n == GetAlignedSize(cur)
             at == alignedRw[cur]
  <2>1. /\ pc = "checking" /\ pc' = "idle" /\ live' = live \cup {cur}
        /\ cur' = NULL /\ done' = 0 /\ UNCHANGED <<memory, alignedRw>>
    BY <1>2 DEF Check
  <2>2. /\ cur \in Claim /\ cur \notin live /\ cur # NULL /\ at # NULL
        /\ at \in Page /\ at \in Nat /\ n \in Nat
        /\ AtWork = Region(cur) /\ Region(cur) \subseteq Page
    BY <2>1, Pages DEF Inv, Placed
  <2>3. Inv'
    BY <2>1, <2>2 DEF Inv, Placed, Progress, Region
  <2>4. \A q \in Region(cur) : memory[q] = GetAlignedRo(cur) + (q - at)
    <3>1. TAKE q \in Region(cur)
    <3>2. done = n /\ q - at \in 0 .. n - 1 /\ at + (q - at) = q
      BY <2>1, <2>2 DEF Inv, Progress, Region
    <3>3. memory[at + (q - at)] = GetAlignedRo(cur) + (q - at)
      BY <2>1, <3>2 DEF Inv, Progress
    <3> QED
      BY <3>2, <3>3
  <2>5. Opened[cur] = NULL /\ Opened' = [Opened EXCEPT ![cur] = at]
    <3>1. live \ {cur} = live /\ live' \ {cur'} = live \cup {cur}
      BY <2>1, <2>2 DEF Inv, Placed
    <3> QED
      BY <2>1, <2>2, <3>1 DEF Opened
  <2>6. \A q \in Region(cur) : Shown[q] = NULL
    BY <2>2 DEF Shown
  <2>7. Shown' = [q \in Page |-> IF q \in Region(cur)
                                 THEN GetAlignedRo(cur) + (q - at) ELSE Shown[q]]
    <3>1. AtWork' = {}
      BY <2>1 DEF AtWork
    <3> QED
      BY <2>1, <2>2, <2>4, <3>1 DEF Shown
  <2>8. Windows!Window(cur, at) = Region(cur)
    BY <2>2 DEF Windows!Window, Region
  <2>9. PICK c \in Claim, a \in Page : c = cur /\ a = at
    BY <2>2
  <2>10. Windows!Open(c)
    <3>1. /\ Windows!Window(c, a) \subseteq Page
          /\ \A q \in Windows!Window(c, a) : Shown[q] = NULL
      BY <2>2, <2>6, <2>8, <2>9
    <3>2. Opened[c] = NULL /\ Opened' = [Opened EXCEPT ![c] = a]
      BY <2>5, <2>9
    <3>3. [d \in Claim |-> GetAlignedRo(d)][c] = GetAlignedRo(c)
      OBVIOUS
    <3>4. Shown' = [q \in Page |-> IF q \in Windows!Window(c, a)
                                   THEN [d \in Claim |-> GetAlignedRo(d)][c] + (q - a)
                                   ELSE Shown[q]]
      BY <2>7, <2>8, <2>9, <3>3
    <3> QED
      BY ONLY <3>1, <3>2, <3>4, a \in Page DEF Windows!Open, Opened, Shown
  <2> QED
    BY <2>3, <2>10 DEF Windows!WindowNext
<1> QED
  BY <1>1, <1>2

\* A destructor begins with closing the window.
LEMMA DestructCloses ==
  ASSUME Inv, NEW c \in Claim, Destruct(c)
  PROVE  Inv' /\ Windows!Close(c)
<1>1. /\ pc = "idle" /\ cur = NULL /\ c \in live /\ c # NULL
      /\ alignedRw[c] # NULL /\ AtWork = {}
  BY DEF Destruct, Inv, Placed, AtWork
<1>2. Inv'
  BY <1>1 DEF Destruct, Inv, Placed, Progress, Region
<1>3. Opened[c] = alignedRw[c] /\ Opened' = [Opened EXCEPT ![c] = NULL]
  BY <1>1 DEF Destruct, Opened
<1>4. Shown' = [q \in Page |-> IF q \in Region(c) THEN NULL ELSE Shown[q]]
  <2>1. AtWork' = Region(c)
    BY <1>1 DEF Destruct, AtWork, Region
  <2> QED
    BY <1>1, <2>1 DEF Destruct, Shown
<1>5. Windows!Window(c, Opened[c]) = Region(c)
  BY <1>3 DEF Windows!Window, Region
<1> QED
  BY <1>1, <1>2, <1>3, <1>4, <1>5 DEF Windows!Close, Opened, Shown

LEMMA UnmapRangeKeeps ==
  ASSUME Inv, UnmapRange
  PROVE  Inv' /\ UNCHANGED <<Opened, Shown>>
<1>1. CASE Die("kernel")
  BY <1>1, DieKeeps DEF UnmapRange, Working
<1>2. CASE ~Die("kernel")
  <2> DEFINE n == GetAlignedSize(cur)
             at == alignedRw[cur]
  <2>1. PICK end \in RangeEnds :
          /\ pc = "unmapping"
          /\ memory' = [p \in Page |->
               IF \E i \in done .. end - 1 : p = at + i THEN NULL ELSE memory[p]]
          /\ done' = end
          /\ pc' = IF end = n THEN "removing" ELSE "unmapping"
          /\ UNCHANGED <<cur, live, alignedRw>>
    BY <1>2 DEF UnmapRange, PagesUnmapped, PageAt
  <2>2. /\ cur \in Claim /\ cur \in live /\ cur # NULL /\ at # NULL
        /\ at \in Nat /\ n \in Nat /\ done \in 0 .. n
        /\ AtWork = Region(cur) /\ Region(cur) \subseteq Page
        /\ \A i \in 0 .. n - 1 : at + i \in Region(cur)
    BY <2>1, Pages DEF Inv, Placed
  <2>3. end \in done + 1 .. n
    BY DEF RangeEnds
  <2>4. \A i \in 0 .. end - 1 : memory'[at + i] = NULL
    <3>1. TAKE i \in 0 .. end - 1
    <3>2. at + i \in Page
      BY <2>2, <2>3
    <3>3. i < done => memory[at + i] = NULL
      BY <2>1, <2>2, <2>3 DEF Inv, Progress
    <3>4. ~(i < done) => i \in done .. end - 1
      BY <2>2, <2>3
    <3> QED
      BY <2>1, <3>2, <3>3, <3>4
  <2>5. \A p \in Page \ Region(cur) : memory'[p] = memory[p]
    BY <2>1, <2>2, <2>3
  <2>6. Placed'
    BY <2>1, <2>2 DEF Inv, Placed, Region
  <2>7. Progress'
    BY <2>1, <2>2, <2>3, <2>4 DEF Progress, GetAlignedRo, GetAlignedSize
  <2> QED
    BY <2>2, <2>1, <2>5, <2>6, <2>7, WorkShows DEF Inv
<1> QED
  BY <1>1, <1>2

\* When an object is gone its pages show nothing.
LEMMA RemoveKeeps ==
  ASSUME Inv, Remove
  PROVE  Inv' /\ UNCHANGED <<Opened, Shown>>
<1>1. /\ pc = "removing" /\ pc' = "idle" /\ cur' = NULL
      /\ live' = live \ {cur} /\ UNCHANGED memory
      /\ alignedRw' = [alignedRw EXCEPT ![cur] = NULL]
  BY DEF Remove
<1>2. /\ cur \in Claim /\ cur # NULL
      /\ alignedRw[cur] \in Nat /\ GetAlignedSize(cur) \in Nat
      /\ AtWork = Region(cur) /\ Region(cur) \subseteq Page
  BY <1>1, Pages DEF Inv, Placed
<1>3. \A q \in Region(cur) : memory[q] = NULL
  <2>1. TAKE q \in Region(cur)
  <2> DEFINE i == q - alignedRw[cur]
  <2>2. i \in 0 .. GetAlignedSize(cur) - 1 /\ alignedRw[cur] + i = q
    BY <1>2 DEF Region
  <2>3. memory[alignedRw[cur] + i] = NULL
    BY <1>1, <2>2 DEF Inv, Progress
  <2> QED
    BY <2>2, <2>3
<1>4. \A c \in Claim : c # cur =>
        /\ alignedRw'[c] = alignedRw[c]
        /\ Region(c)' = Region(c)
  BY <1>1, <1>2 DEF Region, Inv, Placed
<1>5. alignedRw'[cur] = NULL /\ alignedRw' \in [Claim -> Page \cup {NULL}]
  BY <1>1, <1>2 DEF Inv, Placed
<1>6. Inv'
  <2>1. \A c \in Claim :
          /\ c \in live' => alignedRw'[c] # NULL
          /\ c \notin live' => alignedRw'[c] = NULL
          /\ alignedRw'[c] # NULL => Region(c)' \subseteq Page
    BY <1>1, <1>4, <1>5 DEF Inv, Placed
  <2> QED
    BY <1>1, <1>5, <2>1 DEF Inv, Placed, Progress
<1>7. UNCHANGED Opened
  BY <1>1, <1>2, <1>4 DEF Opened
<1>8. AtWork' = {}
  BY <1>1 DEF AtWork
<1> QED
  BY <1>1, <1>2, <1>3, <1>6, <1>7, <1>8 DEF Shown

\* Windows open and close as the objects begin and end.
LEMMA Step ==
  ASSUME Inv, [Next]_vars
  PROVE  Inv' /\ [Windows!WindowNext]_Windows!windowVars
<1>1. ASSUME NEW c \in Claim, Destruct(c)
      PROVE  Inv' /\ Windows!WindowNext
  BY <1>1, DestructCloses DEF Windows!WindowNext
<1>2. ASSUME \/ Find \/ Reserve \/ GetHandle \/ Send \/ Join \/ MapRange
             \/ UnmapRange \/ Remove \/ Server \/ UNCHANGED vars
             \/ \E c \in Claim : Construct(c)
      PROVE  Inv' /\ UNCHANGED <<Opened, Shown>>
  BY <1>2, FindKeeps, ReserveKeeps, GettingKeeps, MapRangeKeeps,
     UnmapRangeKeeps, RemoveKeeps, OthersKeep, ConstructKeeps
<1>3. UNCHANGED <<Opened, Shown>> => UNCHANGED Windows!windowVars
  BY DEF Opened, Shown, Windows!windowVars
<1> QED
  BY <1>1, <1>2, <1>3, CheckOpens DEF Next, Proceed

(***************************************************************************)
(* RwPages opens and closes windows onto code: whatever the layout of the  *)
(* address space and of the code, whichever objects exist and in whatever  *)
(* order they go, a window shows its pages in order, in pages that showed  *)
(* nothing, and nothing is left of it when its object is gone.             *)
(***************************************************************************)
THEOREM OpensItsWindows == Spec => OpensWindows
<1>1. Init => Windows!WindowInit
  BY DEF Init, Windows!WindowInit, AtWork
<1> QED
  BY <1>1, InitInv, Step, PTL DEF Spec, OpensWindows, Windows!WindowSpec

-----------------------------------------------------------------------------
(***************************************************************************)
(* What is behind the windows.  Division first: a claim's words, counted   *)
(* in pages from the first one, are where they should be.                  *)
(***************************************************************************)
LEMMA DivAdd ==
  ASSUME NEW p \in Nat \ {0}, NEW a \in Int, NEW r \in Nat
  PROVE  (a * p + r) \div p = a + r \div p
<1> DEFINE q == r \div p
           m == r - q * p
<1>1. q \in Int
  BY Z3
<1>2. q * p <= r /\ r < (q + 1) * p
  BY Z3
<1>3. (q + 1) * p = q * p + p /\ q * p \in Int
  BY <1>1, Z3
<1>4. m \in 0 .. p - 1
  BY <1>1, <1>2, <1>3
<1>5. \A k \in Int, n \in 0 .. p - 1 : (k * p + n) \div p = k
  BY Z3
<1> HIDE DEF q
<1>6. a * p + r = (a + q) * p + m
  BY <1>1, Z3
<1>7. (a * p + r) \div p = a + q
  BY <1>1, <1>4, <1>5, <1>6
<1> QED
  BY <1>7 DEF q

LEMMA DivMonotone ==
  ASSUME NEW p \in Nat \ {0}, NEW r \in Nat, NEW s \in Nat, r <= s
  PROVE  r \div p \in Nat /\ r \div p <= s \div p
BY Z3

\* How many pages behind its first one word i of claim c lies.
PagesIn(c, i) == ((Ro[c] % PAGE_SIZE) + i) \div PAGE_SIZE

LEMMA WordsInPages ==
  ASSUME NEW c \in Claim, NEW i \in 0 .. Size[c] - 1
  PROVE  /\ GetAlignedRo(c) \in Nat /\ Size[c] \in Nat \ {0}
         /\ PagesIn(c, i) \in Nat /\ PagesIn(c, i) <= PagesIn(c, Size[c] - 1)
         /\ PageOf(Ro[c] + i) = GetAlignedRo(c) + PagesIn(c, i)
         /\ alignedRw[c] \in Nat =>
              PageOf(m_Rw(c) + i) = alignedRw[c] + PagesIn(c, i)
<1>1. /\ Ro[c] \in Nat /\ Size[c] \in Nat \ {0} /\ i \in Nat
      /\ PAGE_SIZE \in Nat \ {0}
  BY DEF Word
<1>2. \A r \in Nat, p \in Nat \ {0} :
        r % p \in Nat /\ r \div p \in Nat /\ r = p * (r \div p) + (r % p)
  BY Z3
<1>3. /\ Ro[c] % PAGE_SIZE \in Nat /\ Ro[c] \div PAGE_SIZE \in Nat
      /\ Ro[c] = PAGE_SIZE * (Ro[c] \div PAGE_SIZE) + (Ro[c] % PAGE_SIZE)
  BY <1>1, <1>2
<1> DEFINE low == Ro[c] % PAGE_SIZE
           high == Ro[c] \div PAGE_SIZE
<1>4. low + i \in Nat /\ low + (Size[c] - 1) \in Nat
      /\ low + i <= low + (Size[c] - 1)
  <2> DEFINE n == Size[c]
  <2>1. low \in Nat /\ n \in Nat \ {0} /\ i \in 0 .. n - 1
    BY <1>1, <1>3
  <2> HIDE DEF low, n
  <2>2. low + i \in Nat /\ low + (n - 1) \in Nat /\ low + i <= low + (n - 1)
    BY <2>1
  <2> QED
    BY <2>2 DEF n
<1>5. \A h, l \in Nat, p \in Nat \ {0} : (p * h + l) + i = h * p + (l + i)
  BY <1>1, Z3
<1>6. Ro[c] + i = high * PAGE_SIZE + (low + i)
  BY <1>1, <1>3, <1>5
<1>7. \A a \in Nat : (a * PAGE_SIZE + (low + i)) \div PAGE_SIZE
                       = a + PagesIn(c, i)
  <2> HIDE DEF low
  <2>1. TAKE a \in Nat
  <2>2. (a * PAGE_SIZE + (low + i)) \div PAGE_SIZE = a + (low + i) \div PAGE_SIZE
    BY <1>1, <1>4, DivAdd
  <2> QED
    BY <2>2 DEF PagesIn, low
<1>8. PageOf(Ro[c] + i) = GetAlignedRo(c) + PagesIn(c, i)
  BY <1>3, <1>6, <1>7 DEF PageOf, GetAlignedRo
<1>9. alignedRw[c] \in Nat =>
        PageOf(m_Rw(c) + i) = alignedRw[c] + PagesIn(c, i)
  <2>1. HAVE alignedRw[c] \in Nat
  <2>2. \A a \in Nat, l \in Nat, p \in Nat \ {0} : (a * p + l) + i = a * p + (l + i)
    BY <1>1, Z3
  <2>3. m_Rw(c) + i = alignedRw[c] * PAGE_SIZE + (low + i)
    BY <1>1, <1>3, <2>1, <2>2 DEF m_Rw
  <2> QED
    BY <1>7, <2>1, <2>3 DEF PageOf
<1>10. PagesIn(c, i) \in Nat /\ PagesIn(c, i) <= PagesIn(c, Size[c] - 1)
  BY <1>1, <1>4, DivMonotone DEF PagesIn
<1> QED
  BY <1>1, <1>3, <1>8, <1>9, <1>10 DEF GetAlignedRo, PageOf

\* The pages a claim maps are pages of memory.
LEMMA CodeIsThere ==
  ASSUME NEW c \in Claim, NEW i \in 0 .. GetAlignedSize(c) - 1
  PROVE  GetAlignedRo(c) + i \in Page /\ GetAlignedRo(c) + i # NULL
<1> DEFINE s == Size[c] - 1
<1>1. /\ PAGE_SIZE \in Nat \ {0} /\ s \in Nat /\ Ro[c] % PAGE_SIZE \in Nat
      /\ GetAlignedRo(c) \in Nat /\ GetAlignedSize(c) \in Nat
      /\ PageOf(Ro[c] + s) = GetAlignedRo(c) + PagesIn(c, s)
      /\ PagesIn(c, s) \in Nat
  <2>1. Size[c] \in Nat \ {0} /\ s \in 0 .. Size[c] - 1
    OBVIOUS
  <2>2. Ro[c] \in Nat
    BY DEF Word
  <2>3. Ro[c] % PAGE_SIZE \in Nat
    BY <2>2
  <2> QED
    BY <2>1, <2>3, WordsInPages, SizeType
<1>2. GetAlignedSize(c) = 1 + s \div PAGE_SIZE
  <2>1. Size[c] + PAGE_SIZE - 1 = 1 * PAGE_SIZE + s
    OBVIOUS
  <2> HIDE DEF s
  <2>2. (1 * PAGE_SIZE + s) \div PAGE_SIZE = 1 + s \div PAGE_SIZE
    BY <1>1, DivAdd
  <2> QED
    BY <2>1, <2>2 DEF GetAlignedSize
<1>3. s \div PAGE_SIZE \in Nat /\ s \div PAGE_SIZE <= PagesIn(c, s)
  BY <1>1, DivMonotone DEF PagesIn
<1>4. GetAlignedRo(c) + i \in GetAlignedRo(c) .. PageOf(Ro[c] + s)
  BY <1>1, <1>2, <1>3
<1>5. PageOf(Ro[c]) .. PageOf(Ro[c] + s) \subseteq Page
  <2>1. PageOf(Ro[c]) .. PageOf(Ro[c] + Size[c] - 1) \subseteq Occupied
    OBVIOUS
  <2>2. Ro[c] + Size[c] - 1 = Ro[c] + s
    BY DEF Word
  <2> QED
    BY <2>1, <2>2
<1> QED
  BY <1>4, <1>5 DEF GetAlignedRo

\* Unless it crosses a page, a claim whose pages show its code shows its words.
LEMMA PagesShowCode ==
  ASSUME NEW c \in Claim, alignedRw[c] \in Nat, Region(c) \subseteq Page,
         ~CrossesPage(c),
         \A i \in 0 .. GetAlignedSize(c) - 1 :
           memory[alignedRw[c] + i] = GetAlignedRo(c) + i
  PROVE  ShowsCode(c)
<1> SUFFICES ASSUME NEW i \in 0 .. Size[c] - 1
             PROVE  /\ PageOf(m_Rw(c) + i) \in Page
                    /\ memory[PageOf(m_Rw(c) + i)] = PageOf(Ro[c] + i)
  BY DEF ShowsCode
<1> DEFINE k == PagesIn(c, i)
           last == PagesIn(c, Size[c] - 1)
<1>1. /\ GetAlignedRo(c) \in Nat /\ k \in Nat /\ k <= last
      /\ PageOf(Ro[c] + i) = GetAlignedRo(c) + k
      /\ PageOf(m_Rw(c) + i) = alignedRw[c] + k
  BY WordsInPages
<1>2. PageOf(Ro[c] + Size[c] - 1) = GetAlignedRo(c) + last /\ last \in Nat
  <2>1. Size[c] - 1 \in 0 .. Size[c] - 1 /\ Size[c] \in Nat
    OBVIOUS
  <2>2. PageOf(Ro[c] + (Size[c] - 1)) = GetAlignedRo(c) + last /\ last \in Nat
    BY <2>1, WordsInPages
  <2>3. Ro[c] + (Size[c] - 1) = Ro[c] + Size[c] - 1
    BY DEF Word
  <2> QED
    BY <2>2, <2>3
<1>3. last < GetAlignedSize(c) /\ GetAlignedSize(c) \in Nat
  BY <1>1, <1>2, SizeType DEF CrossesPage
<1>4. k \in 0 .. GetAlignedSize(c) - 1
  BY <1>1, <1>2, <1>3
<1>5. alignedRw[c] + k \in Page
  BY <1>3, <1>4 DEF Region
<1> QED
  BY <1>1, <1>4, <1>5

(***************************************************************************)
(* Pages stay as they are: those of an object in use show its code, those  *)
(* found for an object under construction nothing, until they are mapped.  *)
(***************************************************************************)
Shows(c, i) == memory[alignedRw[c] + i] = GetAlignedRo(c) + i

Kept ==
  /\ \A c \in live \ {cur} : \A i \in 0 .. GetAlignedSize(c) - 1 : Shows(c, i)
  /\ cur \in live /\ pc \in Getting \cup {"unmapping"} =>
       \A i \in done .. GetAlignedSize(cur) - 1 : Shows(cur, i)
  /\ cur \notin live /\ pc \in Getting \cup {"reserving", "mapping"} =>
       \A i \in done .. GetAlignedSize(cur) - 1 :
         memory[alignedRw[cur] + i] = NULL

\* Two objects have no page in common.
Apart ==
  \A c, d \in Claim :
    c # d /\ alignedRw[c] # NULL /\ alignedRw[d] # NULL =>
      Region(c) \cap Region(d) = {}

Sound == Kept /\ Apart /\ DiesOnlyForCause

LEMMA InitSound == Init => Sound
BY DEF Init, Sound, Kept, Apart, DiesOnlyForCause

\* An abort for a cause.
LEMMA DieSound ==
  ASSUME Sound, NEW why, Die(why),
         \/ why \in {"no address", "no memory", "no session"}
         \/ why = "memcmp" /\ CrossesPage(cur)
  PROVE  Sound'
<1>1. /\ pc' = "dead" /\ cause' = why
      /\ UNCHANGED <<cur, memory, done, live, alignedRw>>
  BY DEF Die
<1>2. Kept'
  BY <1>1 DEF Sound, Kept, Shows
<1>3. Apart'
  BY <1>1 DEF Sound, Apart, Region
<1>4. DiesOnlyForCause'
  BY <1>1 DEF DiesOnlyForCause, CrossesPage
<1> QED
  BY <1>2, <1>3, <1>4 DEF Sound

\* Steps that leave the pages alone.
LEMMA BareSound ==
  ASSUME Inv, Sound, UNCHANGED <<cur, memory, done, live, alignedRw>>,
         \/ UNCHANGED <<pc, cause>>
         \/ pc = "reserving" /\ pc' = "handle"
         \/ pc \in Getting /\ pc' \in Getting \cup {AfterHandle}
  PROVE  Sound'
<1>1. Kept'
  BY DEF Inv, Placed, Sound, Kept, Shows, AfterHandle
<1>2. Apart'
  BY DEF Sound, Apart, Region
<1>3. DiesOnlyForCause'
  <2>1. CASE UNCHANGED <<pc, cause>>
    BY <2>1 DEF Sound, DiesOnlyForCause, CrossesPage
  <2>2. CASE pc' # "dead"
    BY <2>2 DEF DiesOnlyForCause
  <2> QED
    BY <2>1, <2>2 DEF AfterHandle
<1> QED
  BY <1>1, <1>2, <1>3 DEF Sound

LEMMA WaitingSound ==
  ASSUME Inv, Sound,
         Reserve \/ GetHandle \/ Send \/ Join \/ Server \/ UNCHANGED vars
  PROVE  Sound'
<1>1. CASE Reserve
  <2>1. CASE Die("no memory")
    BY <2>1, DieSound
  <2>2. CASE ~Die("no memory")
    BY <1>1, <2>2, BareSound DEF Reserve
  <2> QED
    BY <2>1, <2>2
<1>2. CASE GetHandle \/ Send \/ Join
  <2>1. CASE Die("no session")
    BY <2>1, DieSound
  <2>2. CASE ~Die("no session")
    <3>1. /\ pc \in Getting /\ pc' \in Getting \cup {AfterHandle}
          /\ UNCHANGED <<cur, memory, done, live, alignedRw>>
      BY <1>2, <2>2 DEF GetHandle, Send, Join
    <3> QED
      BY <3>1, BareSound
  <2> QED
    BY <2>1, <2>2
<1>3. CASE Server \/ UNCHANGED vars
  <2>1. UNCHANGED <<pc, cause, cur, memory, done, live, alignedRw>>
    BY <1>3 DEF Server, Receive, Store, CloseSession, ExitThread, vars
  <2> QED
    BY <2>1, BareSound
<1> QED
  BY <1>1, <1>2, <1>3

\* An object begins or ends its life: nobody is at work before.
LEMMA BeginSound ==
  ASSUME Inv, Sound, NEW c \in Claim, Construct(c) \/ Destruct(c)
  PROVE  Sound'
<1>1. /\ pc = "idle" /\ cur = NULL /\ cur' = c /\ c # NULL /\ done' = 0
      /\ UNCHANGED <<memory, live, alignedRw>>
      /\ \/ pc' = "finding" /\ c \notin live
         \/ pc' = "handle" /\ c \in live
  BY DEF Construct, Destruct, Inv, Placed
<1>2. live \ {cur} = live
  BY <1>1 DEF Inv, Placed
<1>3. Kept'
  <2>1. \A d \in live : \A i \in 0 .. GetAlignedSize(d) - 1 : Shows(d, i)
    BY <1>2 DEF Sound, Kept
  <2>2. \A d, i : Shows(d, i)' = Shows(d, i)
    BY <1>1 DEF Shows
  <2> QED
    BY <1>1, <2>1, <2>2 DEF Kept
<1>4. Apart'
  BY <1>1 DEF Sound, Apart, Region
<1>5. DiesOnlyForCause'
  BY <1>1 DEF DiesOnlyForCause
<1> QED
  BY <1>3, <1>4, <1>5 DEF Sound

\* The pages found show nothing, and so are no pages of another object.
LEMMA FindSound ==
  ASSUME Inv, Sound, Find
  PROVE  Sound'
<1>1. CASE Die("no address")
  BY <1>1, DieSound
<1>2. CASE ~Die("no address")
  <2>1. PICK p \in Page :
          /\ FreeAddress(p, GetAlignedSize(cur))
          /\ pc = "finding" /\ pc' = "reserving"
          /\ alignedRw' = [alignedRw EXCEPT ![cur] = p]
          /\ UNCHANGED <<cur, memory, done, live>>
    BY <1>2 DEF Find
  <2>2. /\ cur \in Claim /\ cur \notin live /\ cur # NULL /\ done = 0
        /\ p \in Nat /\ GetAlignedSize(cur) \in Nat
    BY <2>1, SizeType DEF Inv, Placed, Progress, Page
  <2>3. /\ alignedRw'[cur] = p
        /\ \A c \in Claim : c # cur => alignedRw'[c] = alignedRw[c]
        /\ \A c \in live : c \in Claim /\ c # cur
    BY <2>1, <2>2 DEF Inv, Placed
  <2>4. \A q \in p .. p + GetAlignedSize(cur) - 1 : memory[q] = NULL
    BY <2>1 DEF FreeAddress
  <2>5. \A c \in live : \A i \in 0 .. GetAlignedSize(c) - 1 : Shows(c, i)
    BY <2>3 DEF Sound, Kept
  <2>6. Kept'
    <3>1. \A c \in live : \A i \in 0 .. GetAlignedSize(c) - 1 : Shows(c, i)'
      BY <2>1, <2>3, <2>5 DEF Shows
    <3>2. \A i \in 0 .. GetAlignedSize(cur) - 1 : memory[p + i] = NULL
      BY <2>2, <2>4
    <3>3. /\ live' = live /\ cur' = cur /\ pc' = "reserving" /\ done' = 0
          /\ memory' = memory
      BY <2>1, <2>2
    <3> QED
      BY <2>2, <2>3, <3>1, <3>2, <3>3 DEF Kept
  <2>7. Apart'
    <3>1. \A c \in Claim : c # cur /\ alignedRw[c] # NULL =>
            Region(c) \cap (p .. p + GetAlignedSize(cur) - 1) = {}
      <4>1. SUFFICES ASSUME NEW c \in Claim, c # cur, alignedRw[c] # NULL,
                            NEW q \in Region(c),
                            q \in p .. p + GetAlignedSize(cur) - 1
                     PROVE  FALSE
        OBVIOUS
      <4>2. c \in live /\ alignedRw[c] \in Nat /\ GetAlignedSize(c) \in Nat
        BY <4>1, SizeType DEF Inv, Placed, Page
      <4>3. PICK i \in 0 .. GetAlignedSize(c) - 1 : q = alignedRw[c] + i
        <5>1. q - alignedRw[c] \in 0 .. GetAlignedSize(c) - 1
              /\ q = alignedRw[c] + (q - alignedRw[c])
          BY <4>2 DEF Region
        <5> QED
          BY <5>1
      <4>4. memory[q] = GetAlignedRo(c) + i
        BY <2>5, <4>2, <4>3 DEF Shows
      <4> QED
        BY <2>4, <4>1, <4>4, CodeIsThere
    <3>2. /\ Region(cur)' = p .. p + GetAlignedSize(cur) - 1
          /\ \A c \in Claim : c # cur => Region(c)' = Region(c)
      BY <2>1, <2>3 DEF Region
    <3> SUFFICES ASSUME NEW c \in Claim, NEW d \in Claim, c # d,
                        alignedRw'[c] # NULL, alignedRw'[d] # NULL
                 PROVE  Region(c)' \cap Region(d)' = {}
      BY DEF Apart
    <3>3. CASE c = cur
      <4>1. Region(c)' = p .. p + GetAlignedSize(cur) - 1
        BY <2>1, <3>2, <3>3
      <4> QED
        BY <2>3, <3>1, <3>2, <3>3, <4>1
    <3>4. CASE d = cur
      <4>1. Region(d)' = p .. p + GetAlignedSize(cur) - 1
        BY <2>1, <3>2, <3>4
      <4> QED
        BY <2>3, <3>1, <3>2, <3>4, <4>1
    <3>5. CASE c # cur /\ d # cur
      BY <2>3, <3>2, <3>5 DEF Sound, Apart
    <3> QED
      BY <3>3, <3>4, <3>5
  <2>8. DiesOnlyForCause'
    BY <2>1 DEF DiesOnlyForCause
    <2> QED
    BY <2>6, <2>7, <2>8 DEF Sound
<1> QED
  BY <1>1, <1>2

\* A step on the pages of the object at work is none on those of another.
LEMMA OthersShow ==
  ASSUME Inv, Sound, cur \in Claim, alignedRw[cur] # NULL,
         UNCHANGED <<cur, live, alignedRw>>,
         \A p \in Page \ Region(cur) : memory'[p] = memory[p],
         NEW c \in live \ {cur}
  PROVE  \A i \in 0 .. GetAlignedSize(c) - 1 : Shows(c, i)'
<1>1. /\ c \in Claim /\ alignedRw[c] # NULL /\ alignedRw[c] \in Nat
      /\ Region(c) \subseteq Page /\ GetAlignedSize(c) \in Nat
  BY SizeType DEF Inv, Placed, Page
<1>2. Region(c) \cap Region(cur) = {}
  BY <1>1 DEF Sound, Apart
<1> TAKE i \in 0 .. GetAlignedSize(c) - 1
<1>3. alignedRw[c] + i \in Region(c)
  BY <1>1 DEF Region
<1>4. memory'[alignedRw[c] + i] = memory[alignedRw[c] + i]
  BY <1>1, <1>2, <1>3
<1>5. Shows(c, i)
  BY DEF Sound, Kept
<1> QED
  BY <1>4, <1>5 DEF Shows

LEMMA MapRangeSound ==
  ASSUME Inv, Sound, MapRange
  PROVE  Sound'
<1> DEFINE n == GetAlignedSize(cur)
           at == alignedRw[cur]
<1>1. /\ pc = "mapping" /\ cur \in Claim /\ cur \notin live /\ cur # NULL
      /\ at # NULL /\ at \in Nat /\ n \in Nat /\ done \in 0 .. n
      /\ \A i \in 0 .. n - 1 : at + i \in Region(cur)
  BY Pages DEF MapRange, Inv, Placed
<1>2. PICK end \in RangeEnds :
        \/ /\ memory' = [p \in Page |->
               IF \E i \in done .. end - 1 : p = PageAt(i, done)
               THEN GetAlignedRo(cur)
                      + (CHOOSE i \in done .. end - 1 : p = PageAt(i, done))
               ELSE memory[p]]
           /\ done' = end /\ pc' = IF end = n THEN "checking" ELSE "mapping"
           /\ UNCHANGED <<cur, live, alignedRw>>
        \/ \E i \in done .. end - 1 : memory[PageAt(i, done)] # NULL
  BY DEF MapRange
<1>3. end \in done + 1 .. n
  BY DEF RangeEnds
<1>4. \A i \in done .. n - 1 : memory[at + i] = NULL
  BY <1>1 DEF Sound, Kept
<1>5. \A i \in done .. end - 1 : memory[PageAt(i, done)] = NULL
  BY <1>1, <1>3, <1>4 DEF PageAt
<1>6. /\ done' = end /\ pc' = IF end = n THEN "checking" ELSE "mapping"
      /\ UNCHANGED <<cur, live, alignedRw>>
      /\ \A p \in Page : (\A i \in done .. end - 1 : p # at + i)
                          => memory'[p] = memory[p]
  BY <1>2, <1>5 DEF PageAt
<1>7. \A p \in Page \ Region(cur) : memory'[p] = memory[p]
  BY <1>1, <1>3, <1>6
<1>8. \A i \in end .. n - 1 : memory'[at + i] = NULL
  <2>1. TAKE i \in end .. n - 1
  <2>2. at + i \in Page
    BY <1>1, <1>3, Pages
  <2>3. \A j \in done .. end - 1 : at + i # at + j
    BY <1>1, <1>3
  <2> QED
    BY <1>1, <1>3, <1>4, <1>6, <2>2, <2>3
<1>9. Kept'
  <2>1. \A c \in live \ {cur} :
          \A i \in 0 .. GetAlignedSize(c) - 1 : Shows(c, i)'
    BY <1>1, <1>6, <1>7, OthersShow
  <2> QED
    BY <1>1, <1>6, <1>8, <2>1 DEF Kept
<1>10. Apart'
  BY <1>6 DEF Sound, Apart, Region
<1>11. DiesOnlyForCause'
  BY <1>6 DEF DiesOnlyForCause
<1> QED
  BY <1>9, <1>10, <1>11 DEF Sound

\* memcmp fails only if the code goes on behind the pages that were mapped.
LEMMA CheckSound ==
  ASSUME Inv, Sound, Check
  PROVE  Sound'
<1>1. /\ pc = "checking" /\ cur \in Claim /\ cur \notin live
      /\ alignedRw[cur] \in Nat /\ Region(cur) \subseteq Page
      /\ \A i \in 0 .. GetAlignedSize(cur) - 1 : Shows(cur, i)
  BY Pages DEF Check, Inv, Placed, Progress, Shows
<1>2. CASE ~SameData
  <2>1. Die("memcmp")
    BY <1>2 DEF Check
  <2>2. CrossesPage(cur)
    BY <1>1, <1>2, PagesShowCode DEF SameData, Shows
  <2> QED
    BY <2>1, <2>2, DieSound
<1>3. CASE SameData
  <2>1. /\ pc' = "idle" /\ live' = live \cup {cur} /\ cur' = NULL /\ done' = 0
        /\ UNCHANGED <<memory, alignedRw>>
    BY <1>3 DEF Check
  <2>2. NULL \notin Claim
    OBVIOUS
  <2>3. Kept'
    <3>1. \A c \in live \cup {cur} :
            \A i \in 0 .. GetAlignedSize(c) - 1 : Shows(c, i)'
      BY <1>1, <2>1 DEF Sound, Kept, Shows
    <3>2. live' \ {cur'} \subseteq live \cup {cur} /\ cur' \notin live'
      BY <1>1, <2>1, <2>2 DEF Inv, Placed
    <3> QED
      BY <2>1, <3>1, <3>2 DEF Kept
  <2>4. Apart'
    BY <2>1 DEF Sound, Apart, Region
  <2>5. DiesOnlyForCause'
    BY <2>1 DEF DiesOnlyForCause
  <2> QED
    BY <2>3, <2>4, <2>5 DEF Sound
<1> QED
  BY <1>2, <1>3

LEMMA UnmapRangeSound ==
  ASSUME Inv, Sound, UnmapRange
  PROVE  Sound'
<1> DEFINE n == GetAlignedSize(cur)
           at == alignedRw[cur]
<1>1. /\ pc = "unmapping" /\ cur \in Claim /\ cur \in live /\ cur # NULL
      /\ at # NULL /\ at \in Nat /\ n \in Nat /\ done \in 0 .. n
      /\ \A i \in 0 .. n - 1 : at + i \in Region(cur)
  BY Pages DEF UnmapRange, Inv, Placed
<1>2. PICK end \in RangeEnds :
        \/ /\ memory' = [p \in Page |->
               IF \E i \in done .. end - 1 : p = at + i THEN NULL ELSE memory[p]]
           /\ done' = end /\ pc' = IF end = n THEN "removing" ELSE "unmapping"
           /\ UNCHANGED <<cur, live, alignedRw>>
        \/ \E i \in done .. end - 1 : memory[at + i] # GetAlignedRo(cur) + i
  BY DEF UnmapRange, PagesUnmapped, PageAt
<1>3. end \in done + 1 .. n
  BY DEF RangeEnds
<1>4. \A i \in done .. n - 1 : memory[at + i] = GetAlignedRo(cur) + i
  BY <1>1 DEF Sound, Kept, Shows
<1>5. \A i \in done .. end - 1 : memory[at + i] = GetAlignedRo(cur) + i
  BY <1>1, <1>3, <1>4
<1>6. /\ done' = end /\ pc' = IF end = n THEN "removing" ELSE "unmapping"
      /\ UNCHANGED <<cur, live, alignedRw>>
      /\ \A p \in Page : (\A i \in done .. end - 1 : p # at + i)
                          => memory'[p] = memory[p]
  BY <1>2, <1>5
<1>7. \A p \in Page \ Region(cur) : memory'[p] = memory[p]
  BY <1>1, <1>3, <1>6
<1>8. \A i \in end .. n - 1 : Shows(cur, i)'
  <2>1. TAKE i \in end .. n - 1
  <2>2. at + i \in Page
    BY <1>1, <1>3, Pages
  <2>3. \A j \in done .. end - 1 : at + i # at + j
    BY <1>1, <1>3
  <2>4. memory'[at + i] = GetAlignedRo(cur) + i
    BY <1>1, <1>3, <1>4, <1>6, <2>2, <2>3
  <2> QED
    BY <1>6, <2>4 DEF Shows
<1>9. Kept'
  <2>1. \A c \in live \ {cur} :
          \A i \in 0 .. GetAlignedSize(c) - 1 : Shows(c, i)'
    BY <1>1, <1>6, <1>7, OthersShow
  <2> QED
    BY <1>1, <1>6, <1>8, <2>1 DEF Kept, Shows
<1>10. Apart'
  BY <1>6 DEF Sound, Apart, Region
<1>11. DiesOnlyForCause'
  BY <1>6 DEF DiesOnlyForCause
<1> QED
  BY <1>9, <1>10, <1>11 DEF Sound

LEMMA RemoveSound ==
  ASSUME Inv, Sound, Remove
  PROVE  Sound'
<1>1. /\ pc' = "idle" /\ live' = live \ {cur} /\ cur' = NULL /\ cur \in Claim
      /\ UNCHANGED memory
      /\ \A c \in Claim : c # cur => alignedRw'[c] = alignedRw[c]
      /\ alignedRw'[cur] = NULL
  BY DEF Remove, Inv, Placed
<1>2. live' \ {cur'} = live \ {cur} /\ cur' \notin live' /\ live \subseteq Claim
  BY <1>1 DEF Inv, Placed
<1>3. Kept'
  <2>1. \A c \in live \ {cur} :
          \A i \in 0 .. GetAlignedSize(c) - 1 : Shows(c, i)'
    BY <1>1, <1>2 DEF Sound, Kept, Shows
  <2> QED
    BY <1>1, <1>2, <2>1 DEF Kept
<1>4. Apart'
  <2>1. \A c \in Claim : alignedRw'[c] # NULL =>
          c # cur /\ alignedRw[c] # NULL /\ Region(c)' = Region(c)
    BY <1>1 DEF Region
  <2> SUFFICES ASSUME NEW c \in Claim, NEW d \in Claim, c # d,
                      alignedRw'[c] # NULL, alignedRw'[d] # NULL
               PROVE  Region(c)' \cap Region(d)' = {}
    BY DEF Apart
  <2> QED
    BY <2>1 DEF Sound, Apart
<1>5. DiesOnlyForCause'
  BY <1>1 DEF DiesOnlyForCause
<1> QED
  BY <1>3, <1>4, <1>5 DEF Sound

LEMMA SoundStep ==
  ASSUME Inv, Sound, [Next]_vars
  PROVE  Inv' /\ Sound'
<1>1. ASSUME NEW c \in Claim, Construct(c) \/ Destruct(c)
      PROVE  Sound'
  BY <1>1, BeginSound
<1>2. ASSUME Find \/ MapRange \/ Check \/ UnmapRange \/ Remove
      PROVE  Sound'
  BY <1>2, FindSound, MapRangeSound, CheckSound, UnmapRangeSound, RemoveSound
<1>3. ASSUME Reserve \/ GetHandle \/ Send \/ Join \/ Server \/ UNCHANGED vars
      PROVE  Sound'
  BY <1>3, WaitingSound
<1>4. Sound'
  BY <1>1, <1>2, <1>3 DEF Next, Proceed
<1> QED
  BY <1>4, Step

LEMMA Soundness == Spec => [](Inv /\ Sound)
BY InitInv, InitSound, SoundStep, PTL DEF Spec

(***************************************************************************)
(* RwPages aborts for want of addresses, memory or a session, or because   *)
(* its code crosses a page, and for nothing else: no mapping call of the   *)
(* kernel fails, whatever was mapped and unmapped before.                  *)
(***************************************************************************)
THEOREM AbortsAreExplained == Spec => []DiesOnlyForCause
<1>1. Sound => DiesOnlyForCause
  BY DEF Sound
<1> QED
  BY <1>1, Soundness, PTL

(***************************************************************************)
(* If no code that is claimed crosses a page behind its aligned size, an   *)
(* object in use shows every word of its code, whatever else comes and     *)
(* goes.                                                                   *)
(***************************************************************************)
THEOREM CodeIsShown ==
  ASSUME \A c \in Claim : ~CrossesPage(c)
  PROVE  Spec => []AliasShowsCode
<1>1. Inv /\ Sound => AliasShowsCode
  <2> SUFFICES ASSUME Inv, Sound, NEW c \in live \ {cur}
               PROVE  ShowsCode(c)
    BY DEF AliasShowsCode
  <2>1. c \in Claim /\ alignedRw[c] \in Nat /\ Region(c) \subseteq Page
    BY DEF Inv, Placed, Page
  <2>2. \A i \in 0 .. GetAlignedSize(c) - 1 : Shows(c, i)
    BY DEF Sound, Kept
  <2> QED
    BY <2>1, <2>2, PagesShowCode DEF Shows
<1> QED
  BY <1>1, Soundness, PTL
-----------------------------------------------------------------------------
(***************************************************************************)
(* The list of reservations.  There is an order of the objects that have   *)
(* a node, in which next leads on and prev leads back.                     *)
(***************************************************************************)
Listed(n, order) ==
  /\ \A i, j \in 1 .. n : order[i] = order[j] => i = j
  /\ Reserved = {order[i] : i \in 1 .. n}
  /\ g_Reservations = IF n = 0 THEN NULL ELSE order[1]
  /\ \A i \in 1 .. n :
       /\ next[order[i]] = IF i = n THEN NULL ELSE order[i + 1]
       /\ prev[order[i]] = IF i = 1 THEN NULL ELSE order[i - 1]

Ordered == \E n \in Nat : \E order \in [1 .. n -> Claim] : Listed(n, order)

ListInv ==
  /\ next \in [Claim -> Claim \cup {NULL}]
  /\ prev \in [Claim -> Claim \cup {NULL}]
  /\ cause = "none" \/ pc = "dead"
  /\ Ordered

\* Most steps leave the list alone, and who has a node.
LEMMA ListStays ==
  ASSUME ListInv, Reserved' = Reserved, UNCHANGED listVars,
         cause' = "none" \/ pc' = "dead"
  PROVE  ListInv'
<1>1. UNCHANGED <<g_Reservations, next, prev>>
  BY DEF listVars
<1>2. PICK n \in Nat : \E order \in [1 .. n -> Claim] : Listed(n, order)
  BY DEF ListInv, Ordered
<1>3. PICK order \in [1 .. n -> Claim] : Listed(n, order)
  BY <1>2
<1>4. Listed(n, order)'
  BY <1>1, <1>3 DEF Listed
<1>5. Ordered'
  BY <1>4 DEF Ordered
<1> QED
  BY <1>1, <1>5 DEF ListInv

\* virtmemAddReservation puts the node before all others.
LEMMA ReserveStep ==
  ASSUME Inv, ListInv, Reserve
  PROVE  ListInv'
<1>1. CASE Die("no memory")
  <2>1. Reserved' = Reserved
    BY <1>1 DEF Die, Reserved, Reserve, ListInv
  <2> QED
    BY <1>1, <2>1, ListStays DEF Die
<1>2. CASE ~Die("no memory")
  <2>1. /\ pc = "reserving" /\ pc' = "handle"
        /\ g_Reservations' = cur
        /\ next' = [next EXCEPT ![cur] = g_Reservations]
        /\ prev' = [c \in Claim |->
                      IF c = cur THEN NULL
                      ELSE IF c = g_Reservations THEN cur ELSE prev[c]]
        /\ UNCHANGED <<cur, cause, live>>
    BY <1>2 DEF Reserve
  <2>2. cur \in Claim /\ cur \notin live /\ cause = "none"
    BY <2>1 DEF Inv, Placed, ListInv
  <2>3. Reserved = live /\ Reserved' = live \cup {cur}
    BY <2>1, <2>2 DEF Reserved
  <2>4a. PICK n \in Nat : \E order \in [1 .. n -> Claim] : Listed(n, order)
    BY DEF ListInv, Ordered
  <2>4. PICK order \in [1 .. n -> Claim] : Listed(n, order)
    BY <2>4a
  <2> DEFINE longer == [i \in 1 .. n + 1 |-> IF i = 1 THEN cur ELSE order[i - 1]]
  <2>5. longer \in [1 .. n + 1 -> Claim] /\ n + 1 \in Nat
    BY <2>2
  <2>6. \A i \in 1 .. n : order[i] # cur /\ order[i] \in Claim
    BY <2>2, <2>3, <2>4 DEF Listed
  <2>7. g_Reservations = IF n = 0 THEN NULL ELSE order[1]
    BY <2>4 DEF Listed
  <2>8. \E m \in Nat : \E o \in [1 .. m -> Claim] : Listed(m, o)'
    <3>1. \A i, j \in 1 .. n + 1 : longer[i] = longer[j] => i = j
      <4>1. \A i, j \in 1 .. n : order[i] = order[j] => i = j
        BY <2>4 DEF Listed
      <4> QED
        BY <2>6, <4>1
    <3>2. Reserved' = {longer[i] : i \in 1 .. n + 1}
      <4>1. live = {order[i] : i \in 1 .. n}
        BY <2>3, <2>4 DEF Listed
      <4>2. \A i \in 1 .. n : i + 1 \in 1 .. n + 1 /\ longer[i + 1] = order[i]
        OBVIOUS
      <4>3. \A i \in 1 .. n + 1 : i = 1 \/ (i - 1 \in 1 .. n /\ longer[i] = order[i - 1])
        OBVIOUS
      <4>4. 1 \in 1 .. n + 1 /\ longer[1] = cur
        OBVIOUS
      <4> HIDE DEF longer
      <4> QED
        <5>1. ASSUME NEW c \in Reserved'
              PROVE  c \in {longer[i] : i \in 1 .. n + 1}
          <6>1. CASE c = cur
            BY <4>4, <6>1
          <6>2. CASE c \in live
            <7>1. PICK k \in 1 .. n : c = order[k]
              BY <4>1, <6>2
            <7>2. k + 1 \in 1 .. n + 1 /\ longer[k + 1] = c
              BY <4>2, <7>1
            <7> QED
              BY <7>2, Zenon
          <6>3. c = cur \/ c \in live
            BY <2>3, <5>1, Zenon
          <6> QED
            BY <6>1, <6>2, <6>3, Zenon
        <5>2. ASSUME NEW i \in 1 .. n + 1
              PROVE  longer[i] \in Reserved'
          BY <2>3, <4>1, <4>3, <4>4
        <5> QED
          BY <5>1, <5>2
    <3>3. g_Reservations' = IF n + 1 = 0 THEN NULL ELSE longer[1]
      BY <2>1
    <3>4. ASSUME NEW i \in 1 .. n + 1
          PROVE  /\ next'[longer[i]] = IF i = n + 1 THEN NULL ELSE longer[i + 1]
                 /\ prev'[longer[i]] = IF i = 1 THEN NULL ELSE longer[i - 1]
      <4>1. CASE i = 1
        <5>1. next'[cur] = g_Reservations /\ prev'[cur] = NULL
          BY <2>1, <2>2 DEF ListInv
        <5> QED
          BY <2>7, <4>1, <5>1
      <4>2. CASE i # 1
        <5> DEFINE j == i - 1
        <5>1. j \in 1 .. n /\ i = j + 1 /\ longer[i] = order[j]
          BY <4>2
        <5>2. /\ next[order[j]] = IF j = n THEN NULL ELSE order[j + 1]
              /\ prev[order[j]] = IF j = 1 THEN NULL ELSE order[j - 1]
          BY <2>4, <5>1 DEF Listed
        <5>3. next'[order[j]] = next[order[j]]
          BY <2>1, <2>6, <5>1 DEF ListInv
        <5>4. prev'[order[j]] = IF j = 1 THEN cur ELSE prev[order[j]]
          <6>1. order[j] = g_Reservations <=> j = 1
            <7>1. 1 \in 1 .. n /\ g_Reservations = order[1]
              BY <2>7, <5>1
            <7>2. order[j] = order[1] => j = 1
              BY <2>4, <5>1, <7>1 DEF Listed
            <7> QED
              BY <7>1, <7>2
          <6> QED
            BY <2>1, <2>6, <5>1, <6>1
        <5>5. i # n + 1 => longer[i + 1] = order[j + 1]
          BY <5>1
        <5>6. longer[i - 1] = IF j = 1 THEN cur ELSE order[j - 1]
          BY <5>1
        <5> QED
          BY <4>2, <5>1, <5>2, <5>3, <5>4, <5>5, <5>6
      <4> QED
        BY <4>1, <4>2
    <3>5. PICK m \in Nat : m = n + 1
      OBVIOUS
    <3>6. PICK o \in [1 .. m -> Claim] : o = longer
      BY <2>5, <3>5
    <3>7. /\ \A i, j \in 1 .. m : o[i] = o[j] => i = j
          /\ Reserved' = {o[i] : i \in 1 .. m}
          /\ g_Reservations' = IF m = 0 THEN NULL ELSE o[1]
          /\ \A i \in 1 .. m :
               /\ next'[o[i]] = IF i = m THEN NULL ELSE o[i + 1]
               /\ prev'[o[i]] = IF i = 1 THEN NULL ELSE o[i - 1]
      <4> HIDE DEF longer
      <4> QED
        BY <3>1, <3>2, <3>3, <3>4, <3>5, <3>6
    <3>8. Listed(m, o)'
      BY <3>7 DEF Listed
    <3> QED
      BY <3>8
  <2>9. Ordered'
    BY <2>8 DEF Ordered
  <2>10. next' \in [Claim -> Claim \cup {NULL}] /\ prev' \in [Claim -> Claim \cup {NULL}]
    <3>1. g_Reservations \in Claim \cup {NULL}
      BY <2>6, <2>7
    <3> QED
      BY <2>1, <2>2, <3>1 DEF ListInv
  <2> QED
    BY <2>1, <2>2, <2>9, <2>10 DEF ListInv
<1> QED
  BY <1>1, <1>2

\* virtmemRemoveReservation takes it out wherever it is.
LEMMA RemoveStep ==
  ASSUME Inv, ListInv, Remove
  PROVE  ListInv'
<1>1. /\ pc = "removing" /\ pc' = "idle" /\ live' = live \ {cur} /\ cur' = NULL
      /\ prev' = [PrevAfter(cur) EXCEPT ![cur] = NULL]
      /\ next' = [NextAfter(cur) EXCEPT ![cur] = NULL]
      /\ g_Reservations' = IF prev[cur] = NULL THEN next[cur] ELSE g_Reservations
      /\ UNCHANGED cause
  BY DEF Remove
<1>2. cur \in Claim /\ cur \in live /\ cause = "none"
  BY <1>1 DEF Inv, Placed, ListInv
<1>3. Reserved = live /\ Reserved' = live \ {cur}
  BY <1>1, <1>2 DEF Reserved
<1>4a. PICK n \in Nat : \E order \in [1 .. n -> Claim] : Listed(n, order)
  BY DEF ListInv, Ordered
<1>4. PICK order \in [1 .. n -> Claim] : Listed(n, order)
  BY <1>4a
<1>5. PICK k \in 1 .. n : order[k] = cur
  BY <1>2, <1>3, <1>4 DEF Listed
<1>6. \A i, j \in 1 .. n : order[i] = order[j] => i = j
  BY <1>4 DEF Listed
<1>7. \A i \in 1 .. n :
        /\ order[i] \in Claim
        /\ next[order[i]] = IF i = n THEN NULL ELSE order[i + 1]
        /\ prev[order[i]] = IF i = 1 THEN NULL ELSE order[i - 1]
  BY <1>4 DEF Listed
<1>8. \A c \in Claim : c # NULL
  OBVIOUS
<1> DEFINE at(i) == IF i < k THEN i ELSE i + 1
           shorter == [i \in 1 .. n - 1 |-> order[at(i)]]
<1>9. \A i \in 1 .. n - 1 : at(i) \in 1 .. n /\ at(i) # k /\ shorter[i] = order[at(i)]
  OBVIOUS
<1>10. next[cur] = (IF k = n THEN NULL ELSE order[k + 1])
       /\ prev[cur] = (IF k = 1 THEN NULL ELSE order[k - 1])
  BY <1>5, <1>7
<1>11. ASSUME NEW i \in 1 .. n, i # k
       PROVE  /\ next'[order[i]] = IF i + 1 = k THEN next[cur] ELSE next[order[i]]
              /\ prev'[order[i]] = IF i = k + 1 THEN prev[cur] ELSE prev[order[i]]
  <2>1. order[i] # cur /\ order[i] \in Claim
    BY <1>5, <1>6, <1>7, <1>11
  <2>2. NextAfter(cur)[order[i]] = IF i + 1 = k THEN next[cur] ELSE next[order[i]]
    <3>1. CASE k = 1
      BY <1>10, <3>1 DEF NextAfter
    <3>2. CASE k # 1
      <4>1. prev[cur] = order[k - 1] /\ k - 1 \in 1 .. n /\ order[k - 1] \in Claim
        BY <1>7, <1>10, <3>2
      <4>2. order[i] = order[k - 1] <=> i + 1 = k
        BY <1>6, <4>1
      <4> QED
        BY <1>8, <2>1, <4>1, <4>2 DEF NextAfter, ListInv
    <3> QED
      BY <3>1, <3>2
  <2>3. PrevAfter(cur)[order[i]] = IF i = k + 1 THEN prev[cur] ELSE prev[order[i]]
    <3>1. CASE k = n
      BY <1>10, <3>1 DEF PrevAfter
    <3>2. CASE k # n
      <4>1. next[cur] = order[k + 1] /\ k + 1 \in 1 .. n /\ order[k + 1] \in Claim
        BY <1>7, <1>10, <3>2
      <4>2. order[i] = order[k + 1] <=> i = k + 1
        BY <1>6, <4>1
      <4> QED
        BY <1>8, <2>1, <4>1, <4>2 DEF PrevAfter, ListInv
    <3> QED
      BY <3>1, <3>2
  <2>4. next'[order[i]] = NextAfter(cur)[order[i]]
    <3>1. NextAfter(cur) \in [Claim -> Claim \cup {NULL}]
      BY <1>7, <1>10 DEF NextAfter, ListInv
    <3> QED
      BY <1>1, <2>1, <3>1
  <2>5. prev'[order[i]] = PrevAfter(cur)[order[i]]
    <3>1. PrevAfter(cur) \in [Claim -> Claim \cup {NULL}]
      BY <1>7, <1>10 DEF PrevAfter, ListInv
    <3> QED
      BY <1>1, <2>1, <3>1
  <2> QED
    BY <2>2, <2>3, <2>4, <2>5
<1>12. shorter \in [1 .. n - 1 -> Claim] /\ n - 1 \in Nat
  BY <1>7, <1>9
<1>13. Listed(n - 1, shorter)'
  <2>1. \A i, j \in 1 .. n - 1 : shorter[i] = shorter[j] => i = j
    <3>1. \A i, j \in 1 .. n - 1 : at(i) = at(j) => i = j
      OBVIOUS
    <3> HIDE DEF at, shorter
    <3> QED
      BY <1>6, <1>9, <3>1
  <2>2. Reserved' = {shorter[i] : i \in 1 .. n - 1}
    <3>1. live = {order[i] : i \in 1 .. n}
      BY <1>3, <1>4 DEF Listed
    <3>2. \A j \in 1 .. n : j # k => \E i \in 1 .. n - 1 : at(i) = j
      <4> TAKE j \in 1 .. n
      <4>1. CASE j < k
        <5>1. j \in 1 .. n - 1 /\ at(j) = j
          BY <4>1
        <5> QED
          BY <5>1
      <4>2. CASE j > k
        <5>1. j - 1 \in 1 .. n - 1 /\ at(j - 1) = j
          BY <4>2
        <5> QED
          BY <5>1
      <4> QED
        BY <4>1, <4>2
    <3> HIDE DEF at, shorter
    <3>3. ASSUME NEW c \in live, c # cur
          PROVE  c \in {shorter[i] : i \in 1 .. n - 1}
      <4>1. PICK j \in 1 .. n : c = order[j]
        BY <3>1
      <4>2. PICK i \in 1 .. n - 1 : at(i) = j
        BY <1>5, <3>2, <3>3, <4>1
      <4> QED
        BY <1>9, <4>1, <4>2
    <3>4. ASSUME NEW i \in 1 .. n - 1
          PROVE  shorter[i] \in live /\ shorter[i] # cur
      BY <1>5, <1>6, <1>9, <3>1
    <3> QED
      BY <1>3, <3>3, <3>4
  <2>3. g_Reservations' = IF n - 1 = 0 THEN NULL ELSE shorter[1]
    <3>1. g_Reservations = order[1]
      BY <1>4 DEF Listed
    <3>2. CASE k = 1
      <4>1. g_Reservations' = IF n = 1 THEN NULL ELSE order[2]
        BY <1>1, <1>10, <3>2
      <4> QED
        BY <3>2, <4>1
    <3>3. CASE k # 1
      <4>1. g_Reservations' = order[1]
        <5>1. order[k - 1] # NULL
          BY <1>7, <1>8, <3>3
        <5> QED
          BY <1>1, <1>10, <3>1, <3>3, <5>1
      <4> QED
        BY <3>3, <4>1
    <3> QED
      BY <3>2, <3>3
  <2>4. ASSUME NEW i \in 1 .. n - 1
        PROVE  next'[shorter[i]] = IF i = n - 1 THEN NULL ELSE shorter[i + 1]
    <3> DEFINE j == at(i)
    <3>1. j \in 1 .. n /\ j # k /\ shorter[i] = order[j]
      BY <1>9
    <3>2. next'[order[j]] = IF j + 1 = k THEN next[cur] ELSE next[order[j]]
      <4> HIDE DEF j
      <4> QED
        BY <1>11, <3>1
    <3>3. next'[order[j]] = IF j + 1 = k
                            THEN IF k = n THEN NULL ELSE order[k + 1]
                            ELSE IF j = n THEN NULL ELSE order[j + 1]
      <4> HIDE DEF j
      <4> QED
        BY <1>7, <1>10, <3>1, <3>2
    <3>4. CASE i < k - 1
      <4>1. j = i /\ i # n - 1 /\ shorter[i + 1] = order[i + 1]
        BY <3>4
      <4> QED
        BY <3>1, <3>3, <3>4, <4>1
    <3>5. CASE i = k - 1
      <4>1. j = i /\ (i # n - 1 => shorter[i + 1] = order[k + 1])
        BY <3>5
      <4> QED
        BY <3>1, <3>3, <3>5, <4>1
    <3>6. CASE i > k - 1
      <4>1. j = i + 1 /\ (i # n - 1 => shorter[i + 1] = order[i + 2])
        BY <3>6
      <4> QED
        BY <3>1, <3>3, <3>6, <4>1
    <3> QED
      BY <3>4, <3>5, <3>6
  <2>5. ASSUME NEW i \in 1 .. n - 1
        PROVE  prev'[shorter[i]] = IF i = 1 THEN NULL ELSE shorter[i - 1]
    <3> DEFINE j == at(i)
    <3>1. j \in 1 .. n /\ j # k /\ shorter[i] = order[j]
      BY <1>9
    <3>2. prev'[order[j]] = IF j = k + 1 THEN prev[cur] ELSE prev[order[j]]
      <4> HIDE DEF j
      <4> QED
        BY <1>11, <3>1
    <3>3. prev'[order[j]] = IF j = k + 1
                            THEN IF k = 1 THEN NULL ELSE order[k - 1]
                            ELSE IF j = 1 THEN NULL ELSE order[j - 1]
      <4> HIDE DEF j
      <4> QED
        BY <1>7, <1>10, <3>1, <3>2
    <3>4. CASE i < k
      <4>1. j = i /\ (i # 1 => shorter[i - 1] = order[i - 1])
        BY <3>4
      <4> QED
        BY <3>1, <3>3, <3>4, <4>1
    <3>5. CASE i = k
      <4>1. j = k + 1 /\ (i # 1 => shorter[i - 1] = order[k - 1])
        BY <3>5
      <4> QED
        BY <3>1, <3>3, <3>5, <4>1
    <3>6. CASE i > k
      <4>1. j = i + 1 /\ i # 1 /\ shorter[i - 1] = order[i]
        BY <3>6
      <4> QED
        BY <3>1, <3>3, <3>6, <4>1
    <3> QED
      BY <3>4, <3>5, <3>6
  <2> HIDE DEF shorter
  <2> QED
    BY <2>1, <2>2, <2>3, <2>4, <2>5 DEF Listed
<1>14. Ordered'
  <2> HIDE DEF shorter
  <2> QED
    BY <1>12, <1>13 DEF Ordered
<1>15. next' \in [Claim -> Claim \cup {NULL}] /\ prev' \in [Claim -> Claim \cup {NULL}]
  <2>1. next[cur] \in Claim \cup {NULL} /\ prev[cur] \in Claim \cup {NULL}
    BY <1>2 DEF ListInv
  <2>2. NextAfter(cur) \in [Claim -> Claim \cup {NULL}]
    BY <2>1 DEF NextAfter, ListInv
  <2>3. PrevAfter(cur) \in [Claim -> Claim \cup {NULL}]
    BY <2>1 DEF PrevAfter, ListInv
  <2> QED
    BY <1>1, <2>2, <2>3
<1> QED
  BY <1>1, <1>2, <1>14, <1>15 DEF ListInv

LEMMA ListStep ==
  ASSUME Inv, ListInv, [Next]_vars
  PROVE  ListInv'
<1> USE DEF Reserved, ListInv
<1>1. ASSUME NEW c \in Claim, Construct(c) \/ Destruct(c) PROVE ListInv'
  <2>1. Reserved' = Reserved
    BY <1>1 DEF Construct, Destruct
  <2> QED
    BY <1>1, <2>1, ListStays DEF Construct, Destruct
<1>2. CASE Find
  <2>1. Reserved' = Reserved /\ UNCHANGED listVars
        /\ (UNCHANGED cause \/ pc' = "dead")
    BY <1>2 DEF Find, Die
  <2> QED
    BY <1>2, <2>1, ListStays DEF Find
<1>3. CASE Reserve
  BY <1>3, ReserveStep
<1>4. CASE GetHandle \/ Send \/ Join
  <2>1. Reserved' = Reserved /\ UNCHANGED listVars
        /\ (cause' = "none" \/ pc' = "dead")
    BY <1>4 DEF GetHandle, Send, Join, AfterHandle, Die
  <2> QED
    BY <2>1, ListStays
<1>5. CASE Server
  <2>1. UNCHANGED <<pc, cur, cause, live, listVars>>
    BY <1>5 DEF Server, Receive, Store, CloseSession, ExitThread
  <2> QED
    BY <2>1, ListStays
<1>6. CASE MapRange
  <2>1. pc = "mapping" /\ UNCHANGED <<cur, live, listVars>>
        /\ \/ pc' \in {"mapping", "checking"} /\ UNCHANGED cause
           \/ pc' = "dead" /\ cause' = "kernel"
    BY <1>6 DEF MapRange, Die
  <2> QED
    BY <2>1, ListStays
<1>7. CASE Check
  <2>1. pc = "checking" /\ UNCHANGED listVars
        /\ \/ pc' = "idle" /\ live' = live \cup {cur} /\ UNCHANGED cause
           \/ pc' = "dead" /\ cause' = "memcmp" /\ UNCHANGED <<live, cur>>
    BY <1>7 DEF Check, Die
  <2> QED
    BY <2>1, ListStays
<1>8. CASE UnmapRange
  <2>1. pc = "unmapping" /\ UNCHANGED <<cur, live, listVars>>
        /\ \/ pc' \in {"unmapping", "removing"} /\ UNCHANGED cause
           \/ pc' = "dead" /\ cause' = "kernel"
    BY <1>8 DEF UnmapRange, Die
  <2>2. cur \in live
    BY <2>1 DEF Inv, Placed
  <2> QED
    BY <2>1, <2>2, ListStays
<1>9. CASE Remove
  BY <1>9, RemoveStep
<1>10. CASE UNCHANGED vars
  BY <1>10, ListStays DEF vars
<1> QED
  BY <1>1, <1>2, <1>3, <1>4, <1>5, <1>6, <1>7, <1>8, <1>9, <1>10 DEF Next, Proceed

-----------------------------------------------------------------------------
(***************************************************************************)
(* The walk along the list.  A set of natural numbers that is not empty    *)
(* has a least element: what an induction needs to say of where two walks  *)
(* part.                                                                   *)
(***************************************************************************)
LEMMA Least ==
  ASSUME NEW S \in SUBSET Nat, S # {}
  PROVE  \E n \in S : \A m \in S : n <= m
<1>1. PICK n \in S : \A m \in S : <<m, n>> \notin OpToRel(<, Nat)
  BY WFMin, NatLessThanWellFounded
<1>2. \A m \in S : ~(m < n)
  BY <1>1 DEF OpToRel
<1> QED
  BY <1>2

\* Where a walk of m steps gets, from the head of the list along next.
Walk(m, walk) ==
  walk = [i \in 0 .. m |->
            IF i = 0 THEN g_Reservations
            ELSE IF walk[i - 1] = NULL THEN NULL ELSE next[walk[i - 1]]]

LEMMA OneWalk ==
  ASSUME NEW m \in Nat, NEW v, NEW w, Walk(m, v), Walk(m, w)
  PROVE  v = w
<1> DEFINE Parted == {i \in 0 .. m : v[i] # w[i]}
<1>1. /\ v[0] = g_Reservations /\ w[0] = g_Reservations
      /\ \A i \in 0 .. m : i # 0 =>
           /\ v[i] = IF v[i - 1] = NULL THEN NULL ELSE next[v[i - 1]]
           /\ w[i] = IF w[i - 1] = NULL THEN NULL ELSE next[w[i - 1]]
  BY DEF Walk
<1>2. Parted = {}
  <2> SUFFICES ASSUME Parted # {} PROVE FALSE
    OBVIOUS
  <2>1. PICK i \in Parted : \A j \in Parted : i <= j
    <3>1. Parted \in SUBSET Nat
      OBVIOUS
    <3> HIDE DEF Parted
    <3> QED
      BY <3>1, Least
  <2>2. i # 0 /\ i - 1 \in 0 .. m /\ ~(i <= i - 1)
    BY <1>1
  <2>3. v[i - 1] = w[i - 1]
    BY <2>1, <2>2
  <2> QED
    BY <1>1, <2>2, <2>3
<1>3. \A i \in 0 .. m : v[i] = w[i]
  BY <1>2
<1>4. v = [i \in 0 .. m |-> v[i]] /\ w = [i \in 0 .. m |-> w[i]]
  BY DEF Walk
<1> QED
  BY <1>3, <1>4

\* The walk of virtmem meets the objects in their order, and all of them.
LEMMA WalkMeetsAll ==
  ASSUME NEW n \in Nat, NEW order \in [1 .. n -> Claim], Listed(n, order)
  PROVE  Walked = Reserved
<1> DEFINE N == Cardinality(Claim)
           w == [i \in 0 .. N |-> IF i < n THEN order[i + 1] ELSE NULL]
           v == CHOOSE walk : Walk(N, walk)
<1>1. n <= N /\ N \in Nat
  <2>1. order \in Injection(1 .. n, Claim)
    BY DEF Listed, Injection, IsInjective
  <2>2. Cardinality(1 .. n) = n
    BY FS_Interval
  <2>3. Cardinality(1 .. n) <= Cardinality(Claim)
    BY <2>1, FS_Injection
  <2> QED
    BY <2>2, <2>3, FS_CardinalityType
<1>2. Walk(N, w)
  <2> SUFFICES ASSUME NEW i \in 0 .. N
               PROVE  w[i] = IF i = 0 THEN g_Reservations
                             ELSE IF w[i - 1] = NULL THEN NULL ELSE next[w[i - 1]]
    BY DEF Walk
  <2> HIDE DEF N
  <2>1. CASE i = 0
    BY <1>1, <2>1 DEF Listed
  <2>2. CASE i # 0 /\ i <= n
    <3>1. w[i - 1] = order[i] /\ i \in 1 .. n /\ order[i] # NULL
      BY <1>1, <2>2
    <3>2. next[order[i]] = IF i = n THEN NULL ELSE order[i + 1]
      BY <3>1 DEF Listed
    <3>3. w[i] = IF i = n THEN NULL ELSE order[i + 1]
      BY <1>1, <2>2
    <3> QED
      BY <2>2, <3>1, <3>2, <3>3
  <2>3. CASE i > n
    BY <1>1, <2>3
  <2> QED
    BY <1>1, <2>1, <2>2, <2>3
<1>3. v = w
  <2>1. Walk(N, v)
    <3> HIDE DEF w, N
    <3> QED
      BY <1>2, Zenon
  <2> HIDE DEF v, w, N
  <2> QED
    BY <1>1, <1>2, <2>1, OneWalk
<1>4. Walked = {v[i] : i \in DOMAIN v} \ {NULL}
  BY DEF Walked, Walk
<1>5. Walked = {w[i] : i \in 0 .. N} \ {NULL}
  <2> HIDE DEF v, N
  <2> QED
    BY <1>3, <1>4
<1>6. \A i \in 1 .. n : i - 1 \in 0 .. N /\ w[i - 1] = order[i] /\ order[i] # NULL
  <2> HIDE DEF N
  <2> QED
    BY <1>1
<1>7. \A i \in 0 .. N : w[i] = NULL \/ (i + 1 \in 1 .. n /\ w[i] = order[i + 1])
  <2> HIDE DEF N
  <2> QED
    BY <1>1
<1>8. Reserved = {order[i] : i \in 1 .. n}
  BY DEF Listed
<1> HIDE DEF v, w, N
<1> QED
  BY <1>5, <1>6, <1>7, <1>8

\* At first the list is empty.
LEMMA ListFirst == Init => ListInv
<1> SUFFICES ASSUME Init PROVE ListInv
  OBVIOUS
<1> DEFINE none == [i \in 1 .. 0 |-> NULL]
<1>1. none \in [1 .. 0 -> Claim] /\ 1 .. 0 = {}
  OBVIOUS
<1>2. Reserved = {}
  BY DEF Init, Reserved
<1>3. Listed(0, none)
  BY <1>1, <1>2 DEF Init, Listed
<1> QED
  BY <1>1, <1>3 DEF Init, ListInv, Ordered

(***************************************************************************)
(* In whatever order objects go away, the list of reservations holds those *)
(* of the objects that exist, from its head along next to the last, and    *)
(* prev leads back: virtmemAddReservation and virtmemRemoveReservation.    *)
(***************************************************************************)
THEOREM ReservationsAreListed == Spec => []ListIsReservations
<1>1. Init => ListInv
  BY ListFirst
<1>2. Inv /\ ListInv => ListIsReservations
  <2> SUFFICES ASSUME Inv, ListInv PROVE ListIsReservations
    OBVIOUS
  <2>1a. PICK n \in Nat : \E order \in [1 .. n -> Claim] : Listed(n, order)
    BY DEF ListInv, Ordered
  <2>1. PICK order \in [1 .. n -> Claim] : Listed(n, order)
    BY <2>1a
  <2>2. Walked = Reserved
    BY <2>1, WalkMeetsAll
  <2>3. g_Reservations # NULL => prev[g_Reservations] = NULL
    BY <2>1 DEF Listed
  <2>4. ASSUME NEW c \in Walked, next[c] # NULL PROVE prev[next[c]] = c
    <3>1. PICK i \in 1 .. n : c = order[i]
      BY <2>1, <2>2 DEF Listed
    <3>2. i # n /\ next[c] = order[i + 1] /\ i + 1 \in 1 .. n
      BY <2>1, <2>4, <3>1 DEF Listed
    <3> QED
      BY <2>1, <3>1, <3>2 DEF Listed
  <2> QED
    BY <2>2, <2>3, <2>4 DEF ListIsReservations
<1>3. Inv /\ ListInv /\ [Next]_vars => Inv' /\ ListInv'
  BY ListStep, Step
<1> QED
  BY <1>1, <1>2, <1>3, InitInv, PTL DEF Spec
-----------------------------------------------------------------------------
(***************************************************************************)
(* Types.  Placed and ListInv know most of them; what is left is how far   *)
(* the object at work has come, what lies behind a page, and the handle.   *)
(***************************************************************************)
Typed ==
  /\ cause \in {"none", "no address", "no memory", "no session", "kernel", "memcmp"}
  /\ memory \in [Page -> Page \cup {NULL}]
  /\ cur = NULL => done = 0
  /\ cur # NULL => done \in 0 .. GetAlignedSize(cur)
  /\ g_Reservations \in Claim \cup {NULL}
  /\ s_Handle \in BOOLEAN
  /\ server \in {"none", "receiving", "received", "set", "closed", "exited"}

LEMMA TypedFirst == Init => Typed
BY ZenonT(30) DEF Init, Typed

LEMMA DieTyped ==
  ASSUME Typed, \/ Die("no address") \/ Die("no memory") \/ Die("no session")
                \/ Die("kernel") \/ Die("memcmp")
  PROVE  Typed'
BY DEF Typed, Die, listVars, handleVars

\* A range of pages is mapped: the pages of the code are pages.
LEMMA MapRangeTyped ==
  ASSUME Inv, Typed, MapRange
  PROVE  Typed'
<1>1. CASE Die("kernel")
  BY <1>1, DieTyped
<1>2. CASE ~Die("kernel")
  <2>1. PICK end \in RangeEnds :
          /\ memory' = [p \in Page |->
               IF \E i \in done .. end - 1 : p = PageAt(i, done)
               THEN GetAlignedRo(cur)
                      + (CHOOSE i \in done .. end - 1 : p = PageAt(i, done))
               ELSE memory[p]]
          /\ done' = end
          /\ UNCHANGED <<cur, cause, listVars, handleVars>>
    BY <1>2 DEF MapRange
  <2>2. cur \in Claim /\ cur # NULL /\ GetAlignedSize(cur) \in Nat
        /\ done \in 0 .. GetAlignedSize(cur)
    BY Pages DEF MapRange
  <2>3. end \in done + 1 .. GetAlignedSize(cur)
    BY DEF RangeEnds
  <2>4. \A i \in done .. end - 1 : GetAlignedRo(cur) + i \in Page
    BY <2>2, <2>3, CodeIsThere
  <2>5. memory' \in [Page -> Page \cup {NULL}]
    <3>1. ASSUME NEW p \in Page
          PROVE  memory'[p] \in Page \cup {NULL}
      <4>1. CASE \E i \in done .. end - 1 : p = PageAt(i, done)
        <5>1. PICK j : j = CHOOSE i \in done .. end - 1 : p = PageAt(i, done)
          OBVIOUS
        <5>2. j \in done .. end - 1
          BY <4>1, <5>1
        <5>3. memory'[p] = GetAlignedRo(cur) + j
          BY <2>1, <4>1, <5>1
        <5> QED
          BY <2>4, <5>2, <5>3
      <4>2. CASE ~\E i \in done .. end - 1 : p = PageAt(i, done)
        BY <2>1, <4>2 DEF Typed
      <4> QED
        BY <4>1, <4>2
    <3>2. memory' = [p \in Page |-> memory'[p]]
      BY <2>1
    <3> QED
      BY <3>1, <3>2
  <2>6. cur' = cur /\ GetAlignedSize(cur)' = GetAlignedSize(cur)
    BY <2>1 DEF GetAlignedSize
  <2>7. cur' # NULL /\ done' \in 0 .. GetAlignedSize(cur)'
    BY <2>1, <2>2, <2>3, <2>6
  <2> QED
    BY <2>1, <2>5, <2>7 DEF Typed, listVars, handleVars
<1> QED
  BY <1>1, <1>2

LEMMA UnmapRangeTyped ==
  ASSUME Inv, Typed, UnmapRange
  PROVE  Typed'
<1>1. CASE Die("kernel")
  BY <1>1, DieTyped
<1>2. CASE ~Die("kernel")
  <2>1. PICK end \in RangeEnds :
          /\ memory' = [p \in Page |->
               IF \E i \in PagesUnmapped(end) : p = PageAt(i, done)
               THEN NULL ELSE memory[p]]
          /\ done' = end
          /\ UNCHANGED <<cur, cause, listVars, handleVars>>
    BY <1>2 DEF UnmapRange
  <2>2. cur \in Claim /\ cur # NULL /\ GetAlignedSize(cur) \in Nat
        /\ done \in 0 .. GetAlignedSize(cur)
    BY Pages DEF UnmapRange
  <2>3. end \in done + 1 .. GetAlignedSize(cur)
    BY DEF RangeEnds
  <2>4. memory' \in [Page -> Page \cup {NULL}]
    BY <2>1 DEF Typed
  <2>5. cur' = cur /\ GetAlignedSize(cur)' = GetAlignedSize(cur)
    BY <2>1 DEF GetAlignedSize
  <2>6. cur' # NULL /\ done' \in 0 .. GetAlignedSize(cur)'
    BY <2>1, <2>2, <2>3, <2>5
  <2> QED
    BY <2>1, <2>4, <2>6 DEF Typed, listVars, handleVars
<1> QED
  BY <1>1, <1>2

LEMMA TypedStep ==
  ASSUME Inv, ListInv, Typed, [Next]_vars
  PROVE  Typed'
<1>1. ASSUME NEW c \in Claim, Construct(c) \/ Destruct(c)
      PROVE  Typed'
  <2>1. /\ cur' = c /\ done' = 0
        /\ UNCHANGED <<cause, memory, g_Reservations, s_Handle, server>>
    BY <1>1 DEF Construct, Destruct, listVars, handleVars
  <2>2. cur' # NULL /\ done' \in 0 .. GetAlignedSize(cur)'
    <3>1. GetAlignedSize(c) \in Nat /\ GetAlignedSize(cur)' = GetAlignedSize(c)
      BY <2>1, SizeType DEF GetAlignedSize
    <3> QED
      BY <2>1, <3>1
  <2> QED
    BY <2>1, <2>2 DEF Typed
<1>2. CASE Find
  BY <1>2, DieTyped DEF Find, Typed, listVars, handleVars
<1>3. CASE Reserve
  <2>1. cur \in Claim
    BY <1>3 DEF Reserve, Inv, Placed
  <2> QED
    BY <1>3, <2>1, DieTyped DEF Reserve, Typed, handleVars
<1>4. CASE GetHandle \/ Send \/ Join
  <2>1. CASE Die("no session")
    BY <2>1, DieTyped
  <2>2. CASE ~Die("no session")
    BY <1>4, <2>2 DEF GetHandle, Send, Join, Typed, listVars, handleVars
  <2> QED
    BY <2>1, <2>2
<1>5. CASE Server
  BY <1>5 DEF Server, Receive, Store, CloseSession, Closed, ExitThread, Typed, listVars
<1>6. CASE Check
  <2>1. CASE Die("memcmp")
    BY <2>1, DieTyped
  <2>2. CASE ~Die("memcmp")
    BY <1>6, <2>2 DEF Check, Typed, listVars, handleVars
  <2> QED
    BY <2>1, <2>2
<1>7. CASE Remove
  <2>1. /\ done' = 0 /\ cur' = NULL /\ UNCHANGED <<cause, memory, handleVars>>
        /\ g_Reservations' = IF prev[cur] = NULL THEN next[cur] ELSE g_Reservations
        /\ cur \in Claim
    BY <1>7 DEF Remove, Inv, Placed
  <2> QED
    BY <2>1 DEF Typed, ListInv, handleVars
<1>8. CASE UNCHANGED vars
  BY <1>8 DEF vars, Typed, listVars, handleVars
<1> QED
  BY <1>1, <1>2, <1>3, <1>4, <1>5, <1>6, <1>7, <1>8, MapRangeTyped, UnmapRangeTyped
  DEF Next, Proceed

(***************************************************************************)
(* Every variable of RwPages, virtmem and the handle's thread keeps its    *)
(* type: no more pages are counted than an object has, and only pages of   *)
(* the address space are given to the kernel's mapping calls.              *)
(***************************************************************************)
THEOREM TypeCorrect == Spec => []TypeOK
<1>1. Inv /\ ListInv /\ Typed /\ [Next]_vars => Inv' /\ ListInv' /\ Typed'
  BY Step, ListStep, TypedStep
<1>2. Inv /\ ListInv /\ Typed => TypeOK
  <2> SUFFICES ASSUME Inv, ListInv, Typed PROVE TypeOK
    OBVIOUS
  <2>1. done \in 0 .. IF cur = NULL THEN 0 ELSE GetAlignedSize(cur)
    <3>1. PICK n : n = IF cur = NULL THEN 0 ELSE GetAlignedSize(cur)
      OBVIOUS
    <3>2. CASE cur = NULL
      <4>1. n = 0 /\ done = 0
        BY <3>1, <3>2 DEF Typed
      <4>2. done \in 0 .. n
        BY <4>1
      <4> QED
        BY <3>1, <4>2
    <3>3. CASE cur # NULL
      <4>1. n = GetAlignedSize(cur) /\ done \in 0 .. GetAlignedSize(cur)
        BY <3>1, <3>3 DEF Typed
      <4> QED
        BY <3>1, <4>1
    <3> QED
      BY <3>2, <3>3
  <2> QED
    BY <2>1 DEF Inv, Placed, ListInv, Typed, TypeOK, Mapping
<1> QED
  BY <1>1, <1>2, InitInv, ListFirst, TypedFirst, PTL DEF Spec
-----------------------------------------------------------------------------
(***************************************************************************)
(* Neither thread waits for the other in vain: whoever waits, waits for a  *)
(* thread that is there and has not passed the point; and a loop over the  *)
(* ranges of pages that is not done has a range to go on with.             *)
(***************************************************************************)
SomeoneGoesOn ==
  /\ pc = "sending" => server \in {"receiving", "received", "set", "closed", "exited"}
  /\ pc = "joining" => server \in {"closed", "exited"}
  /\ pc \in Mapping => RangeEnds # {}

Awaited ==
  /\ pc = "sending" => server \in {"receiving", "received", "set", "closed", "exited"}
  /\ pc = "joining" => server \in {"closed", "exited"}
  /\ pc \in Mapping => done < GetAlignedSize(cur)

LEMMA RangeLeft ==
  ASSUME Inv, pc \in Mapping, done < GetAlignedSize(cur)
  PROVE  RangeEnds # {}
<1> DEFINE n == GetAlignedSize(cur)
           at == GetAlignedRo(cur)
<1>1. n \in Nat /\ done \in 0 .. n /\ cur \in Claim
  BY Pages DEF Mapping
<1>2. at \in Nat
  BY <1>1 DEF GetAlignedRo, PageOf, Word
<1> DEFINE E == {end \in done + 1 .. n : end = n \/ at + end \in RangeStart}
<1>3. E \in SUBSET Nat /\ n \in E
  BY <1>1
<1>4. PICK end \in E : \A m \in E : end <= m
  BY <1>3, Least
<1>5. \A i \in done + 1 .. end - 1 : at + i \notin RangeStart
  <2>1. TAKE i \in done + 1 .. end - 1
  <2>2. i \in done + 1 .. n /\ i < end
    BY <1>1, <1>4
  <2> QED
    BY <1>4, <2>2
<1> QED
  BY <1>4, <1>5 DEF RangeEnds

LEMMA AwaitedStep ==
  ASSUME Inv, HandleInv, Awaited, [Next]_vars
  PROVE  Awaited'
<1>0. ASSUME pc' \notin {"sending", "joining"} \cup Mapping
      PROVE  Awaited'
  BY <1>0 DEF Awaited
<1>1. ASSUME NEW c \in Claim, Construct(c) \/ Destruct(c)
      PROVE  Awaited'
  BY <1>0, <1>1 DEF Construct, Destruct, Mapping
<1>2. CASE Find \/ Reserve \/ Check \/ Remove
  BY <1>0, <1>2 DEF Find, Reserve, Check, Remove, Die, Mapping
<1>3. CASE Server
  BY <1>3 DEF Server, Receive, Store, CloseSession, Closed, ExitThread, Awaited, Mapping,
     GetAlignedSize
<1>4. ASSUME pc' = AfterHandle, pc \in Getting, UNCHANGED <<cur, done>>
      PROVE  Awaited'
  <2>1. pc' \in Mapping /\ cur \in Claim /\ done = 0
    BY <1>4 DEF AfterHandle, Mapping, Inv, Placed, Progress
  <2>2. done' < GetAlignedSize(cur)'
    <3>1. GetAlignedSize(cur)' = GetAlignedSize(cur)
      BY <1>4 DEF GetAlignedSize
    <3>2. GetAlignedSize(cur) \in Nat /\ GetAlignedSize(cur) > 0
      BY <2>1, SizeType
    <3> QED
      BY <1>4, <2>1, <3>1, <3>2
  <2> QED
    BY <2>1, <2>2 DEF Awaited, Mapping
<1>5. CASE GetHandle
  <2>1. CASE pc' = AfterHandle
    <3>1. AfterHandle # "dead"
      BY DEF AfterHandle
    <3> QED
      BY <1>4, <1>5, <2>1, <3>1 DEF GetHandle, Die
  <2>2. CASE pc' = "sending" /\ server' = "receiving"
    BY <2>2 DEF Awaited, Mapping
  <2>3. CASE pc' = "dead"
    BY <1>0, <2>3 DEF Mapping
  <2> QED
    BY <1>5, <2>1, <2>2, <2>3 DEF GetHandle, Die
<1>6. CASE Send
  BY <1>6 DEF Send, Awaited, Mapping, handleVars
<1>7. CASE Join
  BY <1>4, <1>7 DEF Join
<1>8. CASE MapRange \/ UnmapRange
  <2>1. CASE pc' \in {"mapping", "unmapping"}
    <3>1. PICK end \in RangeEnds : done' = end /\ cur' = cur /\ end # GetAlignedSize(cur)
      BY <1>8, <2>1 DEF MapRange, UnmapRange, Die
    <3>2. end \in done + 1 .. GetAlignedSize(cur)
      BY DEF RangeEnds
    <3>3. GetAlignedSize(cur) \in Nat /\ done \in 0 .. GetAlignedSize(cur)
      BY <1>8, Pages DEF MapRange, UnmapRange
    <3>4. GetAlignedSize(cur)' = GetAlignedSize(cur)
      BY <3>1 DEF GetAlignedSize
    <3>5. done' < GetAlignedSize(cur)'
      BY <3>1, <3>2, <3>3, <3>4
    <3> QED
      BY <2>1, <3>5 DEF Awaited
  <2>2. CASE pc' \notin {"mapping", "unmapping"}
    <3>1. pc' \in {"checking", "removing", "dead"}
      BY <1>8, <2>2 DEF MapRange, UnmapRange, Die
    <3> QED
      BY <1>0, <3>1 DEF Mapping
  <2> QED
    BY <2>1, <2>2
<1>9. CASE UNCHANGED vars
  BY <1>9 DEF vars, handleVars, Awaited, GetAlignedSize
<1> QED
  BY <1>1, <1>2, <1>3, <1>5, <1>6, <1>7, <1>8, <1>9 DEF Next, Proceed

(***************************************************************************)
(* The threads of GetViaIpcTrick never wait for each other: the one that   *)
(* sends has one that receives, the one that joins has one that is to      *)
(* exit, and no loop over memory ranges is left without a range.  It is    *)
(* what keeps ClaimEnds from failing by a deadlock.                        *)
(***************************************************************************)
THEOREM NobodyWaitsInVain == Spec => []SomeoneGoesOn
<1>1. Init => HandleInv /\ Awaited
  BY DEF Init, HandleInv, Awaited, Mapping
<1>2. Inv /\ HandleInv /\ Awaited /\ [Next]_vars => Inv' /\ HandleInv' /\ Awaited'
  BY Step, HandleStep, AwaitedStep
<1>3. Inv /\ Awaited => SomeoneGoesOn
  BY RangeLeft DEF Awaited, SomeoneGoesOn
<1> QED
  BY <1>1, <1>2, <1>3, InitInv, PTL DEF Spec
=============================================================================
