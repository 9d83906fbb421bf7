--------------------------- MODULE NvnOverlay_proofs ---------------------------
(***************************************************************************)
(* The overlay's use of command buffers and of its backend, what its lists *)
(* read, and that the game draws with the pools it would use alone: for    *)
(* any number of the game's buffers and pools, recordings of any length    *)
(* and any draw data.                                                      *)
(***************************************************************************)
EXTENDS NvnOverlay, SequenceTheorems, WellFoundedInduction, TLAPS

Commands == Seq(Alone!Command)

\* The driver records where the game thinks it does.
Recorded ==
  /\ recording \in [Buffer -> Commands \cup {None}]
  /\ gameRecording \in [Buffer -> Commands \cup {None}]
  /\ \A b \in Buffer : recording[b] = None <=> gameRecording[b] = None

\* The backend is set up once InitImGui has succeeded, with a buffer of the game.
SetUp ==
  /\ hasInitImGui <=> backend # "none"
  /\ backend = "ready" => cmdBuf \in Buffer

Inv == Recorded /\ SetUp /\ ~misuse /\ ~aborted

USE NoneAssumption

\* A recording begins empty, and that is not the same as none.
LEMMA NothingRecorded == << >> \in Commands /\ << >> # None
<1>1. << >> \in Commands
  BY EmptySeq DEF Commands
<1> QED
  BY <1>1 DEF Commands

LEMMA InitInv == Init => Inv
BY DEF Init, Inv, Recorded, SetUp

\* InitImGui sets the backend up, once, or leaves it as it is.
LEMMA InitImGuiKeeps ==
  ASSUME SetUp, ~aborted, NEW b \in Buffer, cmdBufInit(b)
  PROVE  SetUp' /\ ~aborted'
<1>1. CASE UNCHANGED backendVars
  BY <1>1 DEF SetUp, backendVars
<1>2. CASE ~hasInitImGui /\ InitBackend(b) /\ hasInitImGui'
  BY <1>2 DEF SetUp, InitBackend
<1> QED
  BY <1>1, <1>2 DEF cmdBufInit, InitImGui, Succeeded

\* What the game records goes to the driver as well.
LEMMA BothKeeps ==
  ASSUME Inv, NEW b \in Buffer, NEW c \in Alone!Command, Both(b, c)
  PROVE  Inv'
<1>1. gameRecording[b] \in Commands /\ recording[b] \in Commands
  BY DEF Both, Inv, Recorded
<1>2. /\ Append(gameRecording[b], c) \in Commands
      /\ Append(recording[b], c) \in Commands
  BY <1>1 DEF Commands
<1>3. recording[b] # None
  BY <1>1 DEF Commands
<1>4. /\ gameRecording' = [gameRecording EXCEPT ![b] = Append(gameRecording[b], c)]
      /\ recording' = [recording EXCEPT ![b] = Append(recording[b], c)]
      /\ ~misuse'
  BY <1>3 DEF Both, Inv
<1>5. Recorded'
  BY <1>1, <1>2, <1>4 DEF Inv, Recorded, Commands
<1>6. SetUp' /\ ~aborted'
  BY DEF Both, Unchanged, backendVars, Inv, SetUp
<1> QED
  BY <1>4, <1>5, <1>6 DEF Inv

LEMMA GameKeeps ==
  ASSUME Inv, Game
  PROVE  Inv'
<1>1. CASE deviceInit \/ queueInit
  BY <1>1 DEF deviceInit, queueInit, Inv, Recorded, SetUp, gameVars, driverVars,
     backendVars
<1>2. ASSUME NEW b \in Buffer, cmdBufInit(b)
      PROVE  Inv'
  <2>1. SetUp' /\ ~aborted'
    BY <1>2, InitImGuiKeeps DEF Inv
  <2> QED
    BY <1>2, <2>1 DEF cmdBufInit, Inv, Recorded, gameVars, driverVars
<1>3. ASSUME NEW b \in Buffer, BeginRecording(b)
      PROVE  Inv'
  <2>1. << >> \in Commands /\ << >> # None
    BY NothingRecorded
  <2>2. recording[b] = None
    BY <1>3 DEF BeginRecording, Inv, Recorded
  <2>3. /\ gameRecording' = [gameRecording EXCEPT ![b] = << >>]
        /\ recording' = [recording EXCEPT ![b] = << >>]
        /\ ~misuse'
    BY <1>3, <2>2 DEF BeginRecording, Inv
  <2>4. Recorded'
    BY <2>1, <2>3 DEF Inv, Recorded
  <2>5. SetUp' /\ ~aborted'
    BY <1>3 DEF BeginRecording, Unchanged, backendVars, Inv, SetUp
  <2> QED
    BY <2>3, <2>4, <2>5 DEF Inv
<1>4. ASSUME NEW b \in Buffer, SubmitCommands(b)
      PROVE  Inv'
  <2>1. /\ gameRecording' = [gameRecording EXCEPT ![b] = None]
        /\ recording' = [recording EXCEPT ![b] = None]
        /\ ~misuse'
    BY <1>4 DEF SubmitCommands, Inv, Recorded
  <2>2. Recorded'
    BY <2>1 DEF Inv, Recorded
  <2>3. SetUp' /\ ~aborted'
    BY <1>4 DEF SubmitCommands, Unchanged, backendVars, Inv, SetUp
  <2> QED
    BY <2>1, <2>2, <2>3 DEF Inv
<1>5. ASSUME NEW b \in Buffer, Draw(b)
      PROVE  Inv'
  <2>1. Alone!draw \in Alone!Command
    BY DEF Alone!Command
  <2> QED
    BY <1>5, <2>1, BothKeeps DEF Draw
<1>6. ASSUME NEW b \in Buffer, NEW p \in Texture, setTexturePool(b, p)
      PROVE  Inv'
  <2>1. [set |-> "texture", pool |-> p] \in Alone!Command
    BY DEF Alone!Command, Alone!Kind
  <2> QED
    BY <1>6, <2>1, BothKeeps DEF setTexturePool
<1>7. ASSUME NEW b \in Buffer, NEW p \in Sampler, setSamplerPool(b, p)
      PROVE  Inv'
  <2>1. [set |-> "sampler", pool |-> p] \in Alone!Command
    BY DEF Alone!Command, Alone!Kind
  <2> QED
    BY <1>7, <2>1, BothKeeps DEF setSamplerPool
<1> QED
  BY <1>1, <1>2, <1>3, <1>4, <1>5, <1>6, <1>7 DEF Game

\* The overlay draws with a buffer of the game's that nobody records, once the
\* game's own recording is ended.
LEMMA PresentKeeps ==
  ASSUME Inv, NEW data, NEW drawn \in BOOLEAN, presentTexture(data, drawn)
  PROVE  Inv'
<1>1. __cmdBuf \in Buffer /\ gameRecording[__cmdBuf] # None
      /\ \A b \in Buffer : b # __cmdBuf => gameRecording[b] = None
  BY DEF presentTexture
<1>2. recording[__cmdBuf] # None
      /\ \A b \in Buffer : b # __cmdBuf => recording[b] = None
  BY <1>1 DEF Inv, Recorded
<1>3. drawn => backend = "ready" /\ cmdBuf \in Buffer
  BY DEF presentTexture, procDraw, renderDrawData, Early, Inv, SetUp
<1>4. Ended = [b \in Buffer |-> None]
  BY <1>1, <1>2 DEF Ended, Inv, Recorded
<1> DEFINE drew == IF drawn THEN [Ended EXCEPT ![cmdBuf] = None] ELSE Ended
<1>5. drew = [b \in Buffer |-> None]
  BY <1>3, <1>4
<1>6. /\ misuse' = \/ misuse
                   \/ recording[__cmdBuf] = None
                   \/ drawn /\ Ended[cmdBuf] # None
                   \/ drew[__cmdBuf] # None
      /\ recording' = [drew EXCEPT ![__cmdBuf] = << >>]
      /\ UNCHANGED gameRecording
  BY DEF presentTexture, gameVars
<1>7. ~misuse'
  BY <1>1, <1>2, <1>3, <1>4, <1>5, <1>6 DEF Inv
<1>8. << >> \in Commands /\ << >> # None
  BY NothingRecorded
<1>9. Recorded'
  BY <1>1, <1>5, <1>6, <1>8 DEF Inv, Recorded
<1>10. SetUp' /\ ~aborted'
  <2>1. CASE UNCHANGED backendVars
    BY <2>1 DEF backendVars, Inv, SetUp
  <2>2. CASE hasInitImGui /\ aborted' = (aborted \/ backend = "none")
             /\ UNCHANGED <<hasInitImGui, backend, cmdBuf>>
    BY <2>2 DEF Inv, SetUp
  <2> QED
    BY <2>1, <2>2 DEF presentTexture, procDraw
<1> QED
  BY <1>7, <1>9, <1>10 DEF Inv

LEMMA Inductive == Spec => []Inv
<1>1. Inv /\ UNCHANGED vars => Inv'
  BY DEF Inv, Recorded, SetUp, vars, gameVars, driverVars, backendVars
<1>2. Inv /\ [Next]_vars => Inv'
  BY <1>1, GameKeeps, PresentKeeps DEF Next
<1> QED
  BY <1>2, InitInv, PTL DEF Spec

(***************************************************************************)
(* presentTexture ends, draws and begins again in turn, whichever buffer   *)
(* the game records and whichever InitImGui took.                          *)
(***************************************************************************)
THEOREM BuffersInTurn == Spec => []RecordsInTurn
<1>1. Inv => RecordsInTurn
  BY DEF Inv, RecordsInTurn
<1> QED
  BY <1>1, Inductive, PTL

(***************************************************************************)
(* InitImGui sets the backend up once and no frame comes before.           *)
(***************************************************************************)
THEOREM AssertionsHold == Spec => []NeverAborts
<1>1. Inv => NeverAborts
  BY DEF Inv, NeverAborts
<1> QED
  BY <1>1, Inductive, PTL
-----------------------------------------------------------------------------
(***************************************************************************)
(* Sums and walks along a sequence.  A set of numbers that is not empty    *)
(* has a least one; a function given by its first value and by a step      *)
(* exists.                                                                 *)
(***************************************************************************)
LEMMA Least ==
  ASSUME NEW S \in SUBSET Nat, S # {}
  PROVE  \E n \in S : \A m \in S : n <= m
<1>1. PICK n \in S : \A m \in S : <<m, n>> \notin OpToRel(<, Nat)
  BY WFMin, NatLessThanWellFounded
<1>2. \A m \in S : ~(m < n)
  BY <1>1 DEF OpToRel
<1> QED
  BY <1>2

\* g runs through S from s0, n steps, the i-th as G[i] says.
Runs(g, n, S, s0, G) ==
  g \in [0 .. n -> S] /\ g[0] = s0 /\ \A i \in 1 .. n : g[i] = G[i][g[i - 1]]

LEMMA Recursion ==
  ASSUME NEW n \in Nat, NEW S, NEW s0 \in S, NEW G \in [1 .. n -> [S -> S]]
  PROVE  \E g : Runs(g, n, S, s0, G)
<1> DEFINE Ok(m) == \E g : Runs(g, m, S, s0, G)
           Bad == {m \in 0 .. n : ~Ok(m)}
<1>1. Ok(0)
  <2> DEFINE g == [i \in 0 .. 0 |-> s0]
  <2>1. g \in [0 .. 0 -> S] /\ g[0] = s0 /\ 1 .. 0 = {}
    OBVIOUS
  <2>2. Runs(g, 0, S, s0, G)
    BY <2>1 DEF Runs
  <2> QED
    BY <2>2
<1>2. ASSUME NEW m \in 0 .. n, m # n, Ok(m)
      PROVE  Ok(m + 1)
  <2>0. PICK g : Runs(g, m, S, s0, G)
    BY <1>2
  <2>1. g \in [0 .. m -> S] /\ g[0] = s0 /\ \A i \in 1 .. m : g[i] = G[i][g[i - 1]]
    BY <2>0 DEF Runs
  <2> DEFINE h == [i \in 0 .. m + 1 |-> IF i <= m THEN g[i] ELSE G[m + 1][g[m]]]
  <2>2. m + 1 \in 1 .. n /\ g[m] \in S /\ G[m + 1][g[m]] \in S
    BY <1>2, <2>1
  <2>3. h \in [0 .. m + 1 -> S]
    BY <2>1, <2>2
  <2>4. h[0] = s0 /\ \A i \in 1 .. m + 1 : h[i] = G[i][h[i - 1]]
    BY <2>1
  <2>5. Runs(h, m + 1, S, s0, G)
    <3> HIDE DEF h
    <3> QED
      BY <2>3, <2>4 DEF Runs
  <2> QED
    BY <2>5
<1>3. Bad = {}
  <2> SUFFICES ASSUME Bad # {}
               PROVE  FALSE
    OBVIOUS
  <2>1. PICK m \in Bad : \A k \in Bad : m <= k
    <3>1. Bad \in SUBSET Nat
      OBVIOUS
    <3> HIDE DEF Bad
    <3> QED
      BY <3>1, Least
  <2>2. m # 0
    BY <1>1
  <2>3. m - 1 \in 0 .. n /\ m - 1 # n /\ m - 1 + 1 = m /\ m - 1 \notin Bad
    <3> HIDE DEF Ok
    <3>1. m \in 0 .. n
      OBVIOUS
    <3>2. m - 1 \in 0 .. n /\ m - 1 # n /\ m - 1 + 1 = m /\ ~(m <= m - 1)
      BY <2>2, <3>1
    <3> HIDE DEF Bad
    <3> QED
      BY <2>1, <3>2
  <2> HIDE DEF Ok
  <2>4. Ok(m - 1)
    BY <2>3
  <2>5. Ok(m)
    BY <1>2, <2>3, <2>4
  <2> QED
    BY <2>1, <2>5
<1>4. n \in 0 .. n
  OBVIOUS
<1>5. Ok(n)
  <2> HIDE DEF Ok
  <2> QED
    BY <1>3, <1>4
<1> QED
  BY <1>5
-----------------------------------------------------------------------------
(***************************************************************************)
(* The lists of a frame lie one behind the other.                          *)
(***************************************************************************)
Lists == Seq([vtx : Nat \ {0}, idx : Nat \ {0}])
Part == {"vtx", "idx"}

LEMMA Offsets ==
  ASSUME NEW data \in Lists, NEW k \in Part
  PROVE  /\ Offset(data, k, 1) = 0
         /\ \A i \in 1 .. Len(data) : /\ Offset(data, k, i) \in Nat
                                      /\ data[i][k] \in Nat \ {0}
                                      /\ Offset(data, k, i + 1) = Offset(data, k, i) + data[i][k]
<1> DEFINE n == Len(data)
           G == [i \in 1 .. n |-> [x \in Nat |-> x + data[i][k]]]
<1>1. n \in Nat /\ \A i \in 1 .. n : data[i][k] \in Nat \ {0}
  <2>1. n \in Nat /\ \A i \in 1 .. n : data[i] \in [vtx : Nat \ {0}, idx : Nat \ {0}]
    BY ElementOfSeq, LenProperties DEF Lists
  <2> QED
    BY <2>1 DEF Part
<1>2. G \in [1 .. n -> [Nat -> Nat]]
  BY <1>1
<1>0. PICK g : Runs(g, n, Nat, 0, G)
  <2>1. 0 \in Nat
    OBVIOUS
  <2> HIDE DEF n, G
  <2> QED
    BY <1>1, <1>2, <2>1, Recursion
<1>3. g \in [0 .. n -> Nat] /\ g[0] = 0 /\ \A i \in 1 .. n : g[i] = G[i][g[i - 1]]
  BY <1>0 DEF Runs
<1>4. \A i \in 1 .. n : g[i] = g[i - 1] + data[i][k]
  <2> TAKE i \in 1 .. n
  <2>1. i - 1 \in 0 .. n
    BY <1>1
  <2>2. g[i - 1] \in Nat
    BY <1>3, <2>1
  <2>3. g[i] = G[i][g[i - 1]]
    BY <1>3
  <2> QED
    BY <2>2, <2>3
<1> DEFINE h == [j \in 1 .. Len(data) + 1 |-> g[j - 1]]
           sum == CHOOSE s : s = [j \in 1 .. Len(data) + 1 |->
                                    IF j = 1 THEN 0 ELSE s[j - 1] + data[j - 1][k]]
<1>5. h = [j \in 1 .. Len(data) + 1 |-> IF j = 1 THEN 0 ELSE h[j - 1] + data[j - 1][k]]
  <2>1. ASSUME NEW j \in 1 .. Len(data) + 1
        PROVE  h[j] = IF j = 1 THEN 0 ELSE h[j - 1] + data[j - 1][k]
    <3>1. CASE j = 1
      BY <1>3, <3>1
    <3>2. CASE j # 1
      <4>1. j - 1 \in 1 .. n
        BY <1>1, <3>2
      <4>2. g[j - 1] = g[j - 1 - 1] + data[j - 1][k]
        BY <1>4, <4>1
      <4>3. h[j - 1] = g[j - 1 - 1]
        BY <1>1, <4>1
      <4> QED
        BY <3>2, <4>2, <4>3
    <3> QED
      BY <3>1, <3>2
  <2> QED
    BY <2>1
<1>6. sum = [j \in 1 .. Len(data) + 1 |->
               IF j = 1 THEN 0 ELSE sum[j - 1] + data[j - 1][k]]
  <2> HIDE DEF h
  <2> QED
    BY <1>5, Zenon
<1>7. \A i : Offset(data, k, i) = sum[i]
  BY DEF Offset
<1> HIDE DEF sum
<1>8. sum[1] = 0 /\ \A i \in 1 .. n : sum[i + 1] = sum[i] + data[i][k]
  <2>1. sum[1] = 0
    BY <1>1, <1>6
  <2>2. ASSUME NEW i \in 1 .. n
        PROVE  sum[i + 1] = sum[i] + data[i][k]
    <3>1. i + 1 \in 1 .. Len(data) + 1 /\ i + 1 # 1 /\ i + 1 - 1 = i
      BY <1>1
    <3> QED
      BY <1>6, <3>1
  <2> QED
    BY <2>1, <2>2
<1> DEFINE Bad == {i \in 1 .. n : sum[i] \notin Nat}
<1>9. Bad = {}
  <2> SUFFICES ASSUME Bad # {}
               PROVE  FALSE
    OBVIOUS
  <2>1. PICK i \in Bad : \A j \in Bad : i <= j
    <3>1. Bad \in SUBSET Nat
      OBVIOUS
    <3> HIDE DEF Bad
    <3> QED
      BY <3>1, Least
  <2>2. i \in 1 .. n /\ sum[i] \notin Nat /\ i # 1
    BY <1>8
  <2>3. i - 1 \in 1 .. n /\ i - 1 + 1 = i /\ ~(i <= i - 1)
    BY <1>1, <2>2
  <2>4. sum[i - 1] \in Nat
    BY <2>1, <2>3
  <2>5. sum[i] = sum[i - 1] + data[i - 1][k]
    BY <1>8, <2>3
  <2> QED
    BY <1>1, <2>2, <2>3, <2>4, <2>5
<1> QED
  BY <1>1, <1>7, <1>8, <1>9, SMTT(30)

\* A list that comes later begins behind the end of an earlier one.
LEMMA OneBehindTheOther ==
  ASSUME NEW data \in Lists, NEW k \in Part,
         NEW i \in 1 .. Len(data), NEW j \in 1 .. Len(data), i < j
  PROVE  Offset(data, k, i) + data[i][k] <= Offset(data, k, j)
<1> DEFINE n == Len(data)
           At0(m) == Offset(data, k, m)
           Bad == {m \in i + 1 .. n : ~(At0(i + 1) <= At0(m))}
<1>1. n \in Nat /\ i \in Nat /\ j \in i + 1 .. n
  BY DEF Lists
<1>2. \A m \in 1 .. n : At0(m) \in Nat /\ data[m][k] \in Nat /\ At0(m + 1) = At0(m) + data[m][k]
  BY Offsets
<1>3. i + 1 \in 1 .. n
  BY <1>1
<1> HIDE DEF At0, n
<1>4. Bad = {}
  <2> SUFFICES ASSUME Bad # {}
               PROVE  FALSE
    OBVIOUS
  <2>1. PICK m \in Bad : \A l \in Bad : m <= l
    <3>1. Bad \in SUBSET Nat
      BY <1>1
    <3> HIDE DEF Bad
    <3> QED
      BY <3>1, Least
  <2>2. m \in i + 1 .. n /\ ~(At0(i + 1) <= At0(m))
    OBVIOUS
  <2>3. m # i + 1
    BY <1>2, <1>3, <2>2
  <2>4. m - 1 \in i + 1 .. n /\ ~(m <= m - 1) /\ m - 1 \in 1 .. n /\ m - 1 + 1 = m
    BY <1>1, <2>2, <2>3
  <2>5. At0(i + 1) <= At0(m - 1)
    BY <2>1, <2>4
  <2>6. At0(m - 1) \in Nat /\ data[m - 1][k] \in Nat /\ At0(m) = At0(m - 1) + data[m - 1][k]
    BY <1>2, <2>4
  <2>7. At0(i + 1) \in Nat
    BY <1>2, <1>3
  <2> HIDE DEF Bad
  <2>8. At0(m - 1) <= At0(m)
    BY <2>6
  <2>9. ~(At0(i + 1) <= At0(m)) /\ At0(m) \in Nat
    BY <2>2, <2>6
  <2> QED
    BY <2>5, <2>6, <2>7, <2>8, <2>9
<1>5. At0(i + 1) <= At0(j)
  BY <1>1, <1>4
<1>6. At0(i + 1) = At0(i) + data[i][k]
  BY <1>2 DEF n
<1> QED
  BY <1>5, <1>6 DEF At0

\* So what is behind a list's offset is the list's own.
LEMMA ReadsItsOwn ==
  ASSUME NEW data \in Lists, NEW k \in Part, NEW i \in 1 .. Len(data)
  PROVE  Read(data, k, i) = [n \in 1 .. data[i][k] |-> <<i, n>>]
<1>1. \A j \in 1 .. Len(data) : Offset(data, k, j) \in Nat /\ data[j][k] \in Nat
  BY Offsets
<1>2. DOMAIN data = 1 .. Len(data)
  BY DEF Lists
<1> DEFINE writers(n) == {j \in DOMAIN data :
             At(data, k, i) + n \in At(data, k, j) + 1 ..
                                       At(data, k, j) + data[j][k]}
           last(n) == CHOOSE j \in writers(n) : \A l \in writers(n) : l <= j
<1>3. ASSUME NEW n \in 1 .. data[i][k]
      PROVE  last(n) = i
  <2>1. i \in writers(n)
    BY <1>1, <1>2 DEF At
  <2>2. ASSUME NEW j \in writers(n), j # i
        PROVE  FALSE
    <3>1. /\ j \in 1 .. Len(data)
          /\ Offset(data, k, j) + 1 <= Offset(data, k, i) + n
          /\ Offset(data, k, i) + n <= Offset(data, k, j) + data[j][k]
      BY <1>1, <1>2 DEF At
    <3>2. n \in Nat /\ 1 <= n /\ n <= data[i][k]
      BY <1>1
    <3>3. i < j \/ j < i
      BY <2>2, <3>1 DEF Lists
    <3>4. CASE i < j
      BY <1>1, <3>1, <3>2, <3>4, OneBehindTheOther
    <3>5. CASE j < i
      BY <1>1, <3>1, <3>2, <3>5, OneBehindTheOther
    <3> QED
      BY <3>3, <3>4, <3>5
  <2>3. writers(n) = {i}
    BY <2>1, <2>2
  <2>4. last(n) = CHOOSE j \in {i} : \A l \in {i} : l <= j
    BY <2>3
  <2>5. \E j \in {i} : \A l \in {i} : l <= j
    OBVIOUS
  <2> QED
    BY <2>4, <2>5
<1>4. Read(data, k, i) =
        [n \in 1 .. data[i][k] |-> <<last(n), At(data, k, i) + n - At(data, k, last(n))>>]
  BY DEF Read
<1> HIDE DEF last
<1>5. \A n \in 1 .. data[i][k] : At(data, k, i) + n - At(data, k, i) = n
  BY <1>1 DEF At
<1> QED
  BY <1>3, <1>4, <1>5

-----------------------------------------------------------------------------
(***************************************************************************)
(* renderDrawData's buffers hold the frame.                                *)
(***************************************************************************)
Holding ==
  shown # << >> =>
    /\ shown \in DrawData
    /\ vtxBuffer.ready /\ Total(shown, "vtx") <= vtxBuffer.size
    /\ idxBuffer.ready /\ Total(shown, "idx") <= idxBuffer.size

\* A total is a number.
LEMMA TotalType ==
  ASSUME NEW data \in Lists, NEW k \in Part
  PROVE  Total(data, k) \in Nat
<1> DEFINE n == Len(data)
<1>1. n \in Nat
  BY LenProperties DEF Lists
<1>2. CASE n = 0
  BY <1>2, Offsets DEF Total
<1>3. CASE n # 0
  <2>1. n \in 1 .. n
    BY <1>1, <1>3
  <2>2. Offset(data, k, n) \in Nat /\ data[n][k] \in Nat /\ Offset(data, k, n + 1) = Offset(data, k, n) + data[n][k]
    BY <2>1, Offsets
  <2> QED
    BY <2>2 DEF Total
<1> QED
  BY <1>2, <1>3

\* A buffer that is ready after Resized is as large as was asked for.
LEMMA ResizedHolds ==
  ASSUME NEW buffer, NEW size \in Nat, NEW new \in Resized(buffer, size), new.ready
  PROVE  size <= new.size
<1>1. CASE Suffices(buffer, size)
  BY <1>1 DEF Resized, Suffices
<1>2. CASE ~Suffices(buffer, size)
  <2>1. new \in MemoryBuffers(size)
    BY <1>2 DEF Resized
  <2>2. new.size = ALIGN_UP(size)
    BY <2>1 DEF MemoryBuffers
  <2>3. size <= ((size + PageSize - 1) \div PageSize) * PageSize
    BY PageSizeAssumption
  <2> QED
    BY <2>2, <2>3 DEF ALIGN_UP
<1> QED
  BY <1>1, <1>2

LEMMA HoldingKept ==
  ASSUME Holding, [Next]_vars
  PROVE  Holding'
<1>1. CASE UNCHANGED bufferVars
  BY <1>1 DEF Holding, bufferVars, Total, Offset
<1>2. ASSUME NEW data \in DrawData, NEW drawn \in BOOLEAN, renderDrawData(data, drawn)
      PROVE  Holding'
  <2>1. CASE shown' = << >>
    BY <2>1 DEF Holding
  <2>2. CASE shown' # << >>
    <3>1. /\ drawn /\ shown' = data
          /\ vtxBuffer' \in Resized(vtxBuffer, Total(data, "vtx"))
          /\ idxBuffer' \in Resized(idxBuffer, Total(data, "idx"))
          /\ drawn = ReadyToDraw
      BY <1>2, <2>2 DEF renderDrawData
    <3>2. vtxBuffer'.ready /\ idxBuffer'.ready
      BY <3>1 DEF ReadyToDraw
    <3>3. data \in Lists /\ "vtx" \in Part /\ "idx" \in Part
      BY DrawDataAssumption DEF Lists, Part
    <3>4. Total(data, "vtx") \in Nat /\ Total(data, "idx") \in Nat
      BY <3>3, TotalType
    <3>5. Total(data, "vtx") <= vtxBuffer'.size /\ Total(data, "idx") <= idxBuffer'.size
      BY <3>1, <3>2, <3>4, ResizedHolds
    <3>6. Total(shown, "vtx")' = Total(data, "vtx") /\ Total(shown, "idx")' = Total(data, "idx")
      BY <3>1 DEF Total, Offset
    <3> QED
      BY <3>1, <3>2, <3>5, <3>6 DEF Holding
  <2> QED
    BY <2>1, <2>2
<1>3. CASE Game
  <2>1. UNCHANGED bufferVars
    BY <1>3 DEF Game, deviceInit, queueInit, cmdBufInit, BeginRecording, Both,
       Draw, setTexturePool, setSamplerPool, SubmitCommands, Unchanged
  <2> QED
    BY <1>1, <2>1
<1>4. ASSUME NEW data \in DrawData, NEW drawn \in BOOLEAN, presentTexture(data, drawn)
      PROVE  Holding'
  BY <1>1, <1>2, <1>4 DEF presentTexture, procDraw
<1>5. CASE UNCHANGED vars
  BY <1>1, <1>5 DEF vars
<1> QED
  BY <1>3, <1>4, <1>5 DEF Next

(***************************************************************************)
(* Every list is drawn with its own vertices and indices, whatever the     *)
(* frames and whichever buffers could be made: the offsets renderDrawData  *)
(* counts up keep the lists apart, and a buffer that is ready is as large  *)
(* as all of them.                                                         *)
(***************************************************************************)
THEOREM ListsApart == Spec => []ListsReadTheirOwn
<1>1. Init => Holding
  BY DEF Init, Holding
<1>2. Holding /\ [Next]_vars => Holding'
  BY HoldingKept
<1>3. Holding => ListsReadTheirOwn
  <2> SUFFICES ASSUME Holding, shown # << >>, NEW k \in {"vtx", "idx"}
               PROVE  LET buffer == IF k = "vtx" THEN vtxBuffer ELSE idxBuffer
                      IN /\ buffer.ready /\ Total(shown, k) <= buffer.size
                         /\ \A i \in DOMAIN shown :
                              Read(shown, k, i) = [n \in 1 .. shown[i][k] |-> <<i, n>>]
    BY DEF ListsReadTheirOwn
  <2>1. shown \in Lists /\ k \in Part
    BY DrawDataAssumption DEF Holding, Lists, Part
  <2>2. DOMAIN shown = 1 .. Len(shown)
    BY <2>1 DEF Lists
  <2>3. \A i \in DOMAIN shown : Read(shown, k, i) = [n \in 1 .. shown[i][k] |-> <<i, n>>]
    BY <2>1, <2>2, ReadsItsOwn
  <2> QED
    BY <2>3 DEF Holding
<1> QED
  BY <1>1, <1>2, <1>3, PTL DEF Spec

-----------------------------------------------------------------------------
(***************************************************************************)
(* The pools along a submission.                                           *)
(***************************************************************************)
AnyPool == Texture \cup Sampler \cup {Overlay, None}
QueuePools == [Kind -> AnyPool]
AnyCommand == [set : Kind, pool : AnyPool] \cup {Alone!draw}

LEMMA SetType ==
  ASSUME NEW p \in QueuePools, NEW c \in AnyCommand
  PROVE  Alone!Set(p, c) \in QueuePools
BY DEF QueuePools, AnyCommand, Alone!Set

LEMMA BeforeSteps ==
  ASSUME NEW p \in QueuePools, NEW cs \in Seq(AnyCommand)
  PROVE  /\ Alone!Before(p, cs) \in [1 .. Len(cs) + 1 -> QueuePools]
         /\ Alone!Before(p, cs)[1] = p
         /\ \A i \in 1 .. Len(cs) :
              Alone!Before(p, cs)[i + 1] = Alone!Set(Alone!Before(p, cs)[i], cs[i])
<1> DEFINE n == Len(cs)
           G == [i \in 1 .. n |-> [q \in QueuePools |-> Alone!Set(q, cs[i])]]
           B == Alone!Before(p, cs)
<1>1. n \in Nat /\ \A i \in 1 .. n : cs[i] \in AnyCommand
  BY ElementOfSeq, LenProperties
<1>2. G \in [1 .. n -> [QueuePools -> QueuePools]]
  BY <1>1, SetType
<1>3. PICK g : Runs(g, n, QueuePools, p, G)
  <2> HIDE DEF n, G
  <2> QED
    BY <1>1, <1>2, Recursion
<1>4. /\ g \in [0 .. n -> QueuePools] /\ g[0] = p
      /\ \A i \in 1 .. n : g[i] = Alone!Set(g[i - 1], cs[i])
  <2>1. g \in [0 .. n -> QueuePools] /\ g[0] = p /\ \A i \in 1 .. n : g[i] = G[i][g[i - 1]]
    BY <1>3 DEF Runs
  <2>2. ASSUME NEW i \in 1 .. n
        PROVE  g[i] = Alone!Set(g[i - 1], cs[i])
    <3>1. g[i - 1] \in QueuePools
      BY <1>1, <2>1
    <3> QED
      BY <2>1, <3>1
  <2> QED
    BY <2>1, <2>2
<1> DEFINE h == [i \in 1 .. Len(cs) + 1 |-> g[i - 1]]
<1>5. h = [i \in 1 .. Len(cs) + 1 |->
             IF i = 1 THEN p ELSE Alone!Set(h[i - 1], cs[i - 1])]
  <2>1. ASSUME NEW i \in 1 .. Len(cs) + 1
        PROVE  h[i] = IF i = 1 THEN p ELSE Alone!Set(h[i - 1], cs[i - 1])
    <3>1. CASE i = 1
      BY <1>4, <3>1
    <3>2. CASE i # 1
      <4>1. i - 1 \in 1 .. n /\ i - 1 \in 1 .. Len(cs) + 1
        BY <1>1, <3>2
      <4>2. g[i - 1] = Alone!Set(g[i - 1 - 1], cs[i - 1])
        BY <1>4, <4>1
      <4>3. h[i - 1] = g[i - 1 - 1] /\ h[i] = g[i - 1]
        BY <4>1
      <4> QED
        BY <3>2, <4>2, <4>3
    <3> QED
      BY <3>1, <3>2
  <2> QED
    BY <2>1
<1>6. B = [i \in 1 .. Len(cs) + 1 |->
             IF i = 1 THEN p ELSE Alone!Set(B[i - 1], cs[i - 1])]
  <2> HIDE DEF h
  <2> QED
    BY <1>5, Zenon DEF Alone!Before
<1> HIDE DEF B
<1>7. B[1] = p
  BY <1>1, <1>6
<1>8. \A i \in 1 .. n : B[i + 1] = Alone!Set(B[i], cs[i])
  <2> TAKE i \in 1 .. n
  <2>1. i + 1 \in 1 .. Len(cs) + 1 /\ i + 1 # 1 /\ i + 1 - 1 = i
    BY <1>1
  <2> QED
    BY <1>6, <2>1
<1> DEFINE Bad == {i \in 1 .. n + 1 : B[i] \notin QueuePools}
<1>9. Bad = {}
  <2> SUFFICES ASSUME Bad # {}
               PROVE  FALSE
    OBVIOUS
  <2>1. PICK i \in Bad : \A j \in Bad : i <= j
    <3>1. Bad \in SUBSET Nat
      BY <1>1
    <3> HIDE DEF Bad
    <3> QED
      BY <3>1, Least
  <2>2. i \in 1 .. n + 1 /\ B[i] \notin QueuePools /\ i # 1
    BY <1>7
  <2>3. i - 1 \in 1 .. n /\ i - 1 + 1 = i /\ ~(i <= i - 1) /\ i - 1 \in 1 .. n + 1
    BY <1>1, <2>2
  <2>4. B[i - 1] \in QueuePools
    BY <2>1, <2>3
  <2>5. B[i] = Alone!Set(B[i - 1], cs[i - 1])
    BY <1>8, <2>3
  <2> QED
    BY <1>1, <2>2, <2>3, <2>4, <2>5, SetType
<1>10. B \in [1 .. n + 1 -> QueuePools]
  <2>1. \A i \in 1 .. n + 1 : B[i] \in QueuePools
    BY <1>9
  <2> DEFINE F == [i \in 1 .. Len(cs) + 1 |->
                     IF i = 1 THEN p ELSE Alone!Set(B[i - 1], cs[i - 1])]
  <2>2. B = F /\ F = [i \in 1 .. n + 1 |-> F[i]]
    BY <1>6
  <2> HIDE DEF F
  <2>3. B = [i \in 1 .. n + 1 |-> B[i]]
    BY <2>2
  <2> QED
    BY <2>1, <2>3
<1> QED
  BY <1>7, <1>8, <1>10 DEF B

LEMMA AfterType ==
  ASSUME NEW p \in QueuePools, NEW cs \in Seq(AnyCommand)
  PROVE  Alone!After(p, cs) \in QueuePools
<1>1. Len(cs) + 1 \in 1 .. Len(cs) + 1
  BY LenProperties
<1> QED
  BY <1>1, BeforeSteps DEF Alone!After

LEMMA AfterEmpty ==
  ASSUME NEW p \in QueuePools
  PROVE  Alone!After(p, << >>) = p
<1>1. << >> \in Seq(AnyCommand) /\ Len(<< >>) + 1 = 1
  BY EmptySeq
<1> QED
  BY <1>1, BeforeSteps DEF Alone!After

\* One more command changes nothing in front of it.
LEMMA BeforeAppend ==
  ASSUME NEW p \in QueuePools, NEW cs \in Seq(AnyCommand), NEW c \in AnyCommand
  PROVE  \A i \in 1 .. Len(cs) + 1 :
           Alone!Before(p, Append(cs, c))[i] = Alone!Before(p, cs)[i]
<1> DEFINE n == Len(cs)
           A == Alone!Before(p, cs)
           B == Alone!Before(p, Append(cs, c))
           Bad == {i \in 1 .. n + 1 : B[i] # A[i]}
<1>1. /\ n \in Nat
      /\ Append(cs, c) \in Seq(AnyCommand) /\ Len(Append(cs, c)) = n + 1
      /\ \A i \in 1 .. n : Append(cs, c)[i] = cs[i]
  BY AppendProperties, LenProperties
<1>2. A[1] = p /\ \A i \in 1 .. n : A[i + 1] = Alone!Set(A[i], cs[i])
  BY BeforeSteps
<1>3. B[1] = p /\ \A i \in 1 .. n : B[i + 1] = Alone!Set(B[i], cs[i])
  <2>1. B[1] = p /\ \A i \in 1 .. n + 1 : B[i + 1] = Alone!Set(B[i], Append(cs, c)[i])
    <3>1. PICK longer \in Seq(AnyCommand) : longer = Append(cs, c)
      BY <1>1
    <3>2. /\ Alone!Before(p, longer)[1] = p
          /\ \A i \in 1 .. Len(longer) :
               Alone!Before(p, longer)[i + 1] = Alone!Set(Alone!Before(p, longer)[i], longer[i])
      BY BeforeSteps
    <3>3. Len(longer) = n + 1
      BY <1>1, <3>1
    <3> QED
      BY <3>1, <3>2, <3>3
  <2>2. \A i \in 1 .. n : i \in 1 .. n + 1
    BY <1>1
  <2> HIDE DEF n, B
  <2> QED
    BY <1>1, <2>1, <2>2
<1> HIDE DEF n, A, B
<1>4. Bad = {}
  <2> SUFFICES ASSUME Bad # {}
               PROVE  FALSE
    OBVIOUS
  <2>1. PICK i \in Bad : \A j \in Bad : i <= j
    <3>1. Bad \in SUBSET Nat
      BY <1>1
    <3> HIDE DEF Bad
    <3> QED
      BY <3>1, Least
  <2>2. i \in 1 .. n + 1 /\ B[i] # A[i] /\ i # 1
    BY <1>2, <1>3
  <2>3. i - 1 \in 1 .. n /\ i - 1 + 1 = i /\ ~(i <= i - 1) /\ i - 1 \in 1 .. n + 1
    BY <1>1, <2>2
  <2>4. B[i - 1] = A[i - 1]
    BY <2>1, <2>3
  <2>5. A[i - 1 + 1] = Alone!Set(A[i - 1], cs[i - 1])
        /\ B[i - 1 + 1] = Alone!Set(B[i - 1], cs[i - 1])
    BY <1>2, <1>3, <2>3
  <2> QED
    BY <2>2, <2>3, <2>4, <2>5
<1> QED
  BY <1>4 DEF n, A, B

LEMMA AfterAppend ==
  ASSUME NEW p \in QueuePools, NEW cs \in Seq(AnyCommand), NEW c \in AnyCommand
  PROVE  Alone!After(p, Append(cs, c)) = Alone!Set(Alone!After(p, cs), c)
<1> DEFINE n == Len(cs)
<1>1. /\ n \in Nat /\ n + 1 \in 1 .. n + 1
      /\ Append(cs, c) \in Seq(AnyCommand) /\ Len(Append(cs, c)) = n + 1
      /\ Append(cs, c)[n + 1] = c
  BY AppendProperties, LenProperties
<1>2. Alone!Before(p, Append(cs, c))[n + 1 + 1] =
        Alone!Set(Alone!Before(p, Append(cs, c))[n + 1], Append(cs, c)[n + 1])
  <2>1. PICK longer \in Seq(AnyCommand) : longer = Append(cs, c)
    BY <1>1
  <2>2. \A i \in 1 .. Len(longer) :
          Alone!Before(p, longer)[i + 1] = Alone!Set(Alone!Before(p, longer)[i], longer[i])
    BY BeforeSteps
  <2>3. Len(longer) = n + 1
    BY <1>1, <2>1
  <2> QED
    BY <1>1, <2>1, <2>2, <2>3
<1>3. Alone!Before(p, Append(cs, c))[n + 1] = Alone!Before(p, cs)[n + 1]
  BY <1>1, BeforeAppend
<1> QED
  BY <1>1, <1>2, <1>3 DEF Alone!After

\* What the draws of a submission have used before its command i + 1.
Used(p, cs) ==
  CHOOSE used : used = [i \in 0 .. Len(cs) |->
    IF i = 0 THEN << >>
    ELSE IF cs[i] = Alone!draw
         THEN Append(used[i - 1], Alone!Before(p, cs)[i])
         ELSE used[i - 1]]

LEMMA UsedSteps ==
  ASSUME NEW p \in QueuePools, NEW cs \in Seq(AnyCommand)
  PROVE  /\ Alone!Uses(p, cs) = Used(p, cs)[Len(cs)]
         /\ Used(p, cs)[0] = << >>
         /\ \A i \in 1 .. Len(cs) :
              Used(p, cs)[i] = IF cs[i] = Alone!draw
                               THEN Append(Used(p, cs)[i - 1], Alone!Before(p, cs)[i])
                               ELSE Used(p, cs)[i - 1]
<1> DEFINE n == Len(cs)
           S == Seq(QueuePools)
           A == Alone!Before(p, cs)
           F(i, u) == IF cs[i] = Alone!draw THEN Append(u, A[i]) ELSE u
           G == [i \in 1 .. n |-> [u \in S |-> F(i, u)]]
           U == Used(p, cs)
<1>1. n \in Nat /\ << >> \in S
  BY LenProperties, EmptySeq
<1>2. \A i \in 1 .. n : A[i] \in QueuePools
  BY <1>1, BeforeSteps
<1>3. \A i \in 1 .. n : \A u \in S : F(i, u) \in S
  <2> HIDE DEF n, A
  <2> QED
    BY <1>2, AppendProperties
<1>4. G \in [1 .. n -> [S -> S]]
  <2> HIDE DEF n, S, F
  <2> QED
    BY <1>3
<1>5. PICK g : Runs(g, n, S, << >>, G)
  <2> HIDE DEF n, S, G
  <2> QED
    BY <1>1, <1>4, Recursion
<1>6. g \in [0 .. n -> S] /\ g[0] = << >> /\ \A i \in 1 .. n : g[i] = F(i, g[i - 1])
  <2> HIDE DEF n, S, F
  <2>1. g \in [0 .. n -> S] /\ g[0] = << >> /\ \A i \in 1 .. n : g[i] = G[i][g[i - 1]]
    BY <1>5 DEF Runs
  <2>2. ASSUME NEW i \in 1 .. n
        PROVE  g[i] = F(i, g[i - 1])
    <3>1. g[i - 1] \in S
      BY <1>1, <2>1
    <3> QED
      BY <2>1, <3>1
  <2> QED
    BY <2>1, <2>2
<1>7. g = [i \in 0 .. n |-> IF i = 0 THEN << >> ELSE F(i, g[i - 1])]
  <2> HIDE DEF n, S, F
  <2>1. g = [i \in 0 .. n |-> g[i]]
    BY <1>6
  <2>2. \A i \in 0 .. n : g[i] = IF i = 0 THEN << >> ELSE F(i, g[i - 1])
    BY <1>1, <1>6
  <2> QED
    BY <2>1, <2>2
<1>8. U = [i \in 0 .. n |-> IF i = 0 THEN << >> ELSE F(i, U[i - 1])]
  BY <1>7, Zenon DEF Used
<1>9. Alone!Uses(p, cs) = U[n]
  BY DEF Alone!Uses, Used
<1>10. U[0] = << >> /\ \A i \in 1 .. n : U[i] = F(i, U[i - 1])
  <2> HIDE DEF n, F, U
  <2> QED
    BY <1>1, <1>8
<1> QED
  BY <1>9, <1>10

LEMMA UsesEmpty ==
  ASSUME NEW p \in QueuePools
  PROVE  Alone!Uses(p, << >>) = << >>
<1>1. << >> \in Seq(AnyCommand) /\ Len(<< >>) = 0
  BY EmptySeq
<1> QED
  BY <1>1, UsedSteps, ZenonT(30)

LEMMA UsesAppend ==
  ASSUME NEW p \in QueuePools, NEW cs \in Seq(AnyCommand), NEW c \in AnyCommand
  PROVE  Alone!Uses(p, Append(cs, c)) =
           IF c = Alone!draw THEN Append(Alone!Uses(p, cs), Alone!After(p, cs))
           ELSE Alone!Uses(p, cs)
<1>1. PICK longer \in Seq(AnyCommand) : longer = Append(cs, c)
  BY AppendProperties
<1>2. PICK n \in Nat : n = Len(cs)
  BY LenProperties
<1>3. /\ Len(longer) = n + 1 /\ longer[n + 1] = c
      /\ \A i \in 1 .. n : longer[i] = cs[i]
  BY <1>1, <1>2, AppendProperties
<1> DEFINE U == Used(p, cs)
           V == Used(p, longer)
           A == Alone!Before(p, cs)
           B == Alone!Before(p, longer)
           Bad == {i \in 0 .. n : V[i] # U[i]}
<1>4. /\ Alone!Uses(p, cs) = U[n] /\ U[0] = << >>
      /\ \A i \in 1 .. n : U[i] = IF cs[i] = Alone!draw THEN Append(U[i - 1], A[i]) ELSE U[i - 1]
  BY <1>2, UsedSteps
<1>5. /\ Alone!Uses(p, longer) = V[n + 1] /\ V[0] = << >>
      /\ \A i \in 1 .. n + 1 :
           V[i] = IF longer[i] = Alone!draw THEN Append(V[i - 1], B[i]) ELSE V[i - 1]
  <2>1. /\ Alone!Uses(p, longer) = V[Len(longer)] /\ V[0] = << >>
        /\ \A i \in 1 .. Len(longer) :
             V[i] = IF longer[i] = Alone!draw THEN Append(V[i - 1], B[i]) ELSE V[i - 1]
    BY UsedSteps
  <2> HIDE DEF V, B
  <2> QED
    BY <1>3, <2>1
<1>6. \A i \in 1 .. n + 1 : B[i] = A[i]
  BY <1>1, <1>2, BeforeAppend
<1>7. Alone!After(p, cs) = A[n + 1]
  BY <1>2 DEF Alone!After
<1> HIDE DEF U, V, A, B
<1>8. Bad = {}
  <2> SUFFICES ASSUME Bad # {}
               PROVE  FALSE
    OBVIOUS
  <2>1. PICK i \in Bad : \A j \in Bad : i <= j
    <3>1. Bad \in SUBSET Nat
      OBVIOUS
    <3> HIDE DEF Bad
    <3> QED
      BY <3>1, Least
  <2>2. i \in 0 .. n /\ V[i] # U[i] /\ i # 0
    BY <1>4, <1>5
  <2>3. i - 1 \in 0 .. n /\ i \in 1 .. n /\ i \in 1 .. n + 1 /\ ~(i <= i - 1)
    BY <2>2
  <2>4. V[i - 1] = U[i - 1]
    BY <2>1, <2>3
  <2>5. B[i] = A[i] /\ longer[i] = cs[i]
    BY <1>3, <1>6, <2>3
  <2> QED
    BY <1>4, <1>5, <2>2, <2>3, <2>4, <2>5
<1>9. n + 1 \in 1 .. n + 1 /\ n + 1 - 1 = n /\ V[n] = U[n]
  BY <1>8
<1>10. V[n + 1] = IF c = Alone!draw THEN Append(V[n], B[n + 1]) ELSE V[n]
  BY <1>3, <1>5, <1>9
<1> QED
  BY <1>1, <1>4, <1>5, <1>6, <1>7, <1>9, <1>10

\* Without a draw, nothing is used.
LEMMA NoDrawUsesNothing ==
  ASSUME NEW p \in QueuePools, NEW cs \in Seq(AnyCommand),
         \A i \in DOMAIN cs : cs[i] # Alone!draw
  PROVE  Alone!Uses(p, cs) = << >>
<1>1. PICK n \in Nat : n = Len(cs)
  BY LenProperties
<1> DEFINE U == Used(p, cs)
           Bad == {i \in 0 .. n : U[i] # << >>}
<1>2. /\ Alone!Uses(p, cs) = U[n] /\ U[0] = << >>
      /\ \A i \in 1 .. n : U[i] = IF cs[i] = Alone!draw THEN Append(U[i - 1], Alone!Before(p, cs)[i])
                                  ELSE U[i - 1]
  BY <1>1, UsedSteps
<1>3. \A i \in 1 .. n : cs[i] # Alone!draw
  BY <1>1
<1>4. \A i \in 1 .. n : U[i] = U[i - 1]
  BY <1>2, <1>3
<1> HIDE DEF U
<1>5. Bad = {}
  <2> SUFFICES ASSUME Bad # {}
               PROVE  FALSE
    OBVIOUS
  <2>1. PICK i \in Bad : \A j \in Bad : i <= j
    <3>1. Bad \in SUBSET Nat
      OBVIOUS
    <3> HIDE DEF Bad
    <3> QED
      BY <3>1, Least
  <2>2. i \in 0 .. n /\ U[i] # << >> /\ i # 0
    BY <1>2
  <2>3. i - 1 \in 0 .. n /\ i \in 1 .. n /\ ~(i <= i - 1)
    BY <2>2
  <2> QED
    BY <1>4, <2>1, <2>2, <2>3
<1> QED
  BY <1>2, <1>5

-----------------------------------------------------------------------------
(***************************************************************************)
(* The queue's pools keep up with the game's: at most one buffer is being  *)
(* recorded; what is recorded in it leads from the pools of the queue to   *)
(* the pools that imgui_nvn.cpp remembers, as it does without the overlay, *)
(* and its draws use the same pools.                                       *)
(***************************************************************************)
Remembered == Pools(__texturePool, __samplerPool)

KeepsUp(b) ==
  gameRecording[b] # None =>
    /\ Alone!Uses(queue, recording[b]) = Alone!Uses(gameQueue, gameRecording[b])
    /\ Alone!After(queue, recording[b]) = Remembered
    /\ Alone!After(gameQueue, gameRecording[b]) = Remembered

Tracks ==
  /\ queue \in QueuePools /\ gameQueue \in QueuePools
  /\ __texturePool \in Texture \cup {None} /\ __samplerPool \in Sampler \cup {None}
  /\ \A b, c \in Buffer : gameRecording[b] # None /\ gameRecording[c] # None => b = c
  /\ (\A b \in Buffer : gameRecording[b] = None) =>
       queue = Remembered /\ gameQueue = Remembered
  /\ \A b \in Buffer : KeepsUp(b)

LEMMA InitTracks == Init => Tracks
BY DEF Init, Tracks, KeepsUp, Remembered, Pools, QueuePools, AnyPool, Kind

\* The game's commands are commands that the queue can execute.
LEMMA GamesCommands == Commands \subseteq Seq(AnyCommand)
<1>1. Alone!Command \subseteq AnyCommand
  BY DEF Alone!Command, Alone!Kind, AnyCommand, AnyPool, Kind
<1>2. SUFFICES ASSUME NEW cs \in Commands
               PROVE  cs \in Seq(AnyCommand)
  OBVIOUS
<1>3. cs \in [1 .. Len(cs) -> Alone!Command] /\ Len(cs) \in Nat
  BY LenProperties DEF Commands
<1>4. cs \in [1 .. Len(cs) -> AnyCommand]
  BY <1>1, <1>3
<1> QED
  BY <1>3, <1>4, IsASeq

\* A command of the game's does the same in both recordings.
LEMMA BothTracks ==
  ASSUME Inv, Tracks, NEW b \in Buffer, NEW c \in Alone!Command, Both(b, c),
         __texturePool' \in Texture \cup {None}, __samplerPool' \in Sampler \cup {None},
         Remembered' = Alone!Set(Remembered, c)
  PROVE  Tracks' /\ Alone!Record(b, c)
<1>1. /\ gameRecording[b] # None /\ recording[b] # None
      /\ gameRecording[b] \in Commands /\ recording[b] \in Commands
  BY DEF Both, Inv, Recorded
<1>2. /\ gameRecording' = [gameRecording EXCEPT ![b] = Append(gameRecording[b], c)]
      /\ recording' = [recording EXCEPT ![b] = Append(recording[b], c)]
      /\ UNCHANGED <<gameQueue, saw, queue>>
  BY <1>1 DEF Both
<1>3. Alone!Record(b, c)
  BY <1>1, <1>2 DEF Alone!Record
<1>4. /\ gameRecording[b] \in Seq(AnyCommand) /\ recording[b] \in Seq(AnyCommand)
      /\ c \in AnyCommand
  BY <1>1, GamesCommands DEF AnyCommand, AnyPool, Alone!Command, Alone!Kind, Kind
<1>5. queue \in QueuePools /\ gameQueue \in QueuePools /\ KeepsUp(b)
  BY DEF Tracks
<1>6. /\ Alone!Uses(queue, Append(recording[b], c)) =
           Alone!Uses(gameQueue, Append(gameRecording[b], c))
      /\ Alone!After(queue, Append(recording[b], c)) = Alone!Set(Remembered, c)
      /\ Alone!After(gameQueue, Append(gameRecording[b], c)) = Alone!Set(Remembered, c)
  <2>1. ASSUME NEW p \in QueuePools, NEW cs \in Seq(AnyCommand)
        PROVE  /\ Alone!After(p, Append(cs, c)) = Alone!Set(Alone!After(p, cs), c)
               /\ Alone!Uses(p, Append(cs, c)) =
                    IF c = Alone!draw THEN Append(Alone!Uses(p, cs), Alone!After(p, cs))
                    ELSE Alone!Uses(p, cs)
    BY <1>4, <2>1, AfterAppend, UsesAppend, Zenon
  <2>2. /\ Alone!Uses(queue, recording[b]) = Alone!Uses(gameQueue, gameRecording[b])
        /\ Alone!After(queue, recording[b]) = Remembered
        /\ Alone!After(gameQueue, gameRecording[b]) = Remembered
    BY <1>1, <1>5 DEF KeepsUp
  <2>3. /\ Alone!After(queue, Append(recording[b], c)) = Alone!Set(Remembered, c)
        /\ Alone!After(gameQueue, Append(gameRecording[b], c)) = Alone!Set(Remembered, c)
    BY <1>4, <1>5, <2>1, <2>2, Zenon
  <2>4. /\ Alone!Uses(queue, Append(recording[b], c)) =
             IF c = Alone!draw THEN Append(Alone!Uses(queue, recording[b]), Remembered)
             ELSE Alone!Uses(queue, recording[b])
        /\ Alone!Uses(gameQueue, Append(gameRecording[b], c)) =
             IF c = Alone!draw THEN Append(Alone!Uses(queue, recording[b]), Remembered)
             ELSE Alone!Uses(queue, recording[b])
    BY <1>4, <1>5, <2>1, <2>2, Zenon
  <2>5. Alone!Uses(queue, Append(recording[b], c)) =
          Alone!Uses(gameQueue, Append(gameRecording[b], c))
    <3> DEFINE next == IF c = Alone!draw THEN Append(Alone!Uses(queue, recording[b]), Remembered)
                       ELSE Alone!Uses(queue, recording[b])
    <3>1. /\ Alone!Uses(queue, Append(recording[b], c)) = next
          /\ Alone!Uses(gameQueue, Append(gameRecording[b], c)) = next
      BY <2>4
    <3> HIDE DEF next
    <3> QED
      BY <3>1
  <2> QED
    BY <2>3, <2>5
<1>7. /\ gameRecording'[b] = Append(gameRecording[b], c)
      /\ recording'[b] = Append(recording[b], c)
  BY <1>2 DEF Inv, Recorded
<1>8. \A d \in Buffer : d # b => gameRecording[d] = None /\ gameRecording'[d] = None
  BY <1>1, <1>2 DEF Inv, Recorded, Tracks
<1>9. Append(gameRecording[b], c) # None
  BY <1>1, SMTT(30) DEF Commands
<1>10. KeepsUp(b)'
  BY <1>2, <1>6, <1>7 DEF KeepsUp
<1>11. \A d \in Buffer : KeepsUp(d)'
  BY <1>8, <1>10 DEF KeepsUp
<1>12. Tracks'
  BY <1>2, <1>5, <1>7, <1>8, <1>9, <1>11 DEF Tracks
<1> QED
  BY <1>3, <1>12

LEMMA GameTracks ==
  ASSUME Inv, Tracks, Game
  PROVE  Tracks' /\ [Alone!CommandsNext]_(Alone!commandVars)
<1>1. CASE UNCHANGED <<gameVars, driverVars, setVars>>
  <2>1. UNCHANGED <<gameRecording, gameQueue, saw, recording, queue, __texturePool, __samplerPool>>
    BY <1>1 DEF gameVars, driverVars, setVars
  <2>2. Tracks'
    BY <2>1 DEF Tracks, KeepsUp, Remembered
  <2> QED
    BY <2>1, <2>2 DEF Alone!commandVars
<1>2. CASE deviceInit \/ queueInit \/ \E b \in Buffer : cmdBufInit(b)
  BY <1>1, <1>2 DEF deviceInit, queueInit, cmdBufInit
<1>3. ASSUME NEW b \in Buffer, BeginRecording(b)
      PROVE  Tracks' /\ Alone!Begin(b)
  <2>1. /\ \A c \in Buffer : gameRecording[c] = None
        /\ gameRecording' = [gameRecording EXCEPT ![b] = << >>]
        /\ recording' = [recording EXCEPT ![b] = << >>]
        /\ UNCHANGED <<gameQueue, saw, queue, __texturePool, __samplerPool>>
    BY <1>3 DEF BeginRecording, setVars
  <2>2. queue = Remembered /\ gameQueue = Remembered /\ queue \in QueuePools
    BY <2>1 DEF Tracks
  <2>3. gameRecording'[b] = << >> /\ recording'[b] = << >> /\ << >> # None
        /\ \A c \in Buffer : c # b => gameRecording'[c] = None
    BY <2>1, NothingRecorded DEF Inv, Recorded
  <2>4. \A c \in Buffer : KeepsUp(c)'
    <3> TAKE c \in Buffer
    <3>1. CASE c = b
      BY <2>1, <2>2, <2>3, <3>1, UsesEmpty, AfterEmpty DEF KeepsUp, Remembered
    <3>2. CASE c # b
      BY <2>3, <3>2 DEF KeepsUp
    <3> QED
      BY <3>1, <3>2
  <2>5. Tracks'
    BY <2>1, <2>3, <2>4 DEF Tracks
  <2> QED
    BY <2>1, <2>5 DEF Alone!Begin
<1>4. ASSUME NEW b \in Buffer, SubmitCommands(b)
      PROVE  Tracks' /\ Alone!Submit(b)
  <2>1. /\ gameRecording[b] # None /\ recording[b] # None
        /\ gameRecording[b] \in Commands /\ recording[b] \in Commands
    BY <1>4 DEF SubmitCommands, Inv, Recorded
  <2>2. /\ gameRecording' = [gameRecording EXCEPT ![b] = None]
        /\ gameQueue' = Alone!After(gameQueue, gameRecording[b])
        /\ saw' = Alone!Uses(queue, recording[b])
        /\ queue' = Alone!After(queue, recording[b])
        /\ UNCHANGED <<__texturePool, __samplerPool>>
    BY <1>4, <2>1 DEF SubmitCommands, setVars
  <2>3. KeepsUp(b)
    BY DEF Tracks
  <2>4. queue' = Remembered' /\ gameQueue' = Remembered'
        /\ saw' = Alone!Uses(gameQueue, gameRecording[b])
    BY <2>1, <2>2, <2>3 DEF KeepsUp, Remembered
  <2>5. \A c \in Buffer : gameRecording'[c] = None
    BY <2>1, <2>2 DEF Inv, Recorded, Tracks
  <2>6. queue' \in QueuePools /\ gameQueue' \in QueuePools
    BY <2>1, <2>2, GamesCommands, AfterType DEF Tracks
  <2>7. Tracks'
    BY <2>2, <2>4, <2>5, <2>6 DEF Tracks, KeepsUp
  <2> QED
    BY <2>1, <2>2, <2>4, <2>7 DEF Alone!Submit
<1>5. ASSUME NEW b \in Buffer, Draw(b)
      PROVE  Tracks' /\ Alone!Record(b, Alone!draw)
  <2>1. Alone!draw \in Alone!Command
    BY DEF Alone!Command
  <2>2. UNCHANGED <<__texturePool, __samplerPool>>
    BY <1>5 DEF Draw, setVars
  <2>3. Remembered' = Alone!Set(Remembered, Alone!draw)
    BY <2>2 DEF Remembered, Alone!Set
  <2> QED
    BY <1>5, <2>1, <2>2, <2>3, BothTracks DEF Draw, Tracks
<1>6. ASSUME NEW b \in Buffer, NEW p \in Texture, setTexturePool(b, p)
      PROVE  Tracks' /\ Alone!Record(b, [set |-> "texture", pool |-> p])
  <2>1. [set |-> "texture", pool |-> p] \in Alone!Command
    BY DEF Alone!Command, Alone!Kind
  <2>2. __texturePool' = p /\ UNCHANGED __samplerPool
    BY <1>6 DEF setTexturePool
  <2>3. Remembered' = Alone!Set(Remembered, [set |-> "texture", pool |-> p])
    BY <2>2 DEF Remembered, Alone!Set, Alone!draw, Pools, Kind
  <2> QED
    BY <1>6, <2>1, <2>2, <2>3, BothTracks DEF setTexturePool, Tracks
<1>7. ASSUME NEW b \in Buffer, NEW p \in Sampler, setSamplerPool(b, p)
      PROVE  Tracks' /\ Alone!Record(b, [set |-> "sampler", pool |-> p])
  <2>1. [set |-> "sampler", pool |-> p] \in Alone!Command
    BY DEF Alone!Command, Alone!Kind
  <2>2. __samplerPool' = p /\ UNCHANGED __texturePool
    BY <1>7 DEF setSamplerPool
  <2>3. Remembered' = Alone!Set(Remembered, [set |-> "sampler", pool |-> p])
    BY <2>2 DEF Remembered, Alone!Set, Alone!draw, Pools, Kind
  <2> QED
    BY <1>7, <2>1, <2>2, <2>3, BothTracks DEF setSamplerPool, Tracks
<1>8. \A b \in Buffer : \A p \in Texture : [set |-> "texture", pool |-> p] \in Alone!Command
  BY DEF Alone!Command, Alone!Kind
<1>9. \A b \in Buffer : \A p \in Sampler : [set |-> "sampler", pool |-> p] \in Alone!Command
  BY DEF Alone!Command, Alone!Kind
<1>10. Alone!draw \in Alone!Command
  BY DEF Alone!Command
<1> QED
  BY <1>2, <1>3, <1>4, <1>5, <1>6, <1>7, <1>8, <1>9, <1>10 DEF Game, Alone!CommandsNext

\* Whatever the overlay set, Restored leads to the pools that are remembered.
LEMMA RestoredLeads ==
  ASSUME NEW p \in QueuePools, Tracks
  PROVE  Alone!After(p, Restored) = Remembered
<1> DEFINE t == [set |-> "texture", pool |-> __texturePool]
           u == [set |-> "sampler", pool |-> __samplerPool]
<1>1. t \in AnyCommand /\ u \in AnyCommand /\ t # Alone!draw /\ u # Alone!draw
  BY DEF AnyCommand, AnyPool, Kind, Tracks, Alone!draw
<1>2. Restored = Append(Append(<< >>, t), u)
  BY DEF Restored
<1> HIDE DEF t, u
<1>3. << >> \in Seq(AnyCommand) /\ Append(<< >>, t) \in Seq(AnyCommand)
  BY <1>1, EmptySeq, AppendProperties
<1>4. Alone!After(p, Restored) = Alone!Set(Alone!Set(p, t), u)
  <2>1. Alone!After(p, Append(<< >>, t)) = Alone!Set(Alone!After(p, << >>), t)
    BY <1>1, <1>3, AfterAppend, Zenon
  <2>2. Alone!After(p, << >>) = p
    BY AfterEmpty
  <2>3. Alone!After(p, Append(Append(<< >>, t), u)) = Alone!Set(Alone!After(p, Append(<< >>, t)), u)
    BY <1>1, <1>3, AfterAppend, Zenon
  <2> QED
    BY <1>2, <2>1, <2>2, <2>3, Zenon
<1>5. p \in [Kind -> AnyPool]
  BY DEF QueuePools
<1>6. Alone!Set(Alone!Set(p, t), u) =
        [[p EXCEPT !["texture"] = __texturePool] EXCEPT !["sampler"] = __samplerPool]
  BY <1>1 DEF Alone!Set, t, u
<1> QED
  BY <1>4, <1>5, <1>6 DEF Remembered, Pools, Kind

LEMMA PresentTracks ==
  ASSUME Inv, Tracks, NEW data, NEW drawn \in BOOLEAN, presentTexture(data, drawn)
  PROVE  Tracks' /\ UNCHANGED Alone!commandVars
<1>1. /\ __cmdBuf \in Buffer /\ gameRecording[__cmdBuf] # None
      /\ \A b \in Buffer : b # __cmdBuf => gameRecording[b] = None
      /\ \A i \in DOMAIN gameRecording[__cmdBuf] : gameRecording[__cmdBuf][i] # Alone!draw
  BY DEF presentTexture
<1>2. /\ queue' = Alone!After(IF drawn THEN Pools(Overlay, Overlay) ELSE queue, Restored)
      /\ UNCHANGED <<gameRecording, gameQueue, saw, __texturePool, __samplerPool>>
  BY DEF presentTexture, gameVars, setVars
<1>3. recording'[__cmdBuf] = << >>
  <2>1. Ended \in [Buffer -> Commands \cup {None}]
    BY DEF Ended, Inv, Recorded
  <2> DEFINE drew == IF drawn THEN [Ended EXCEPT ![cmdBuf] = None] ELSE Ended
  <2>2. DOMAIN drew = Buffer
    BY <2>1
  <2>3. recording' = [drew EXCEPT ![__cmdBuf] = << >>]
    BY DEF presentTexture
  <2> HIDE DEF drew
  <2> QED
    BY <1>1, <2>2, <2>3
<1>4. (IF drawn THEN Pools(Overlay, Overlay) ELSE queue) \in QueuePools
  BY DEF Tracks, QueuePools, AnyPool, Pools
<1>5. queue' = Remembered
  BY <1>2, <1>4, RestoredLeads
<1>6. Remembered' = Remembered /\ Remembered \in QueuePools
  BY <1>2 DEF Remembered, Pools, QueuePools, AnyPool, Tracks
<1>7. gameRecording[__cmdBuf] \in Seq(AnyCommand) /\ gameQueue \in QueuePools
  BY <1>1, GamesCommands DEF Inv, Recorded, Tracks
<1>8. Alone!Uses(gameQueue, gameRecording[__cmdBuf]) = << >>
  BY <1>1, <1>7, NoDrawUsesNothing
<1>9. Alone!After(gameQueue, gameRecording[__cmdBuf]) = Remembered
  BY <1>1 DEF Tracks, KeepsUp
<1>10. Alone!Uses(queue', << >>) = << >> /\ Alone!After(queue', << >>) = Remembered
  BY <1>5, <1>6, UsesEmpty, AfterEmpty
<1>11. \A b \in Buffer : KeepsUp(b)'
  <2> TAKE b \in Buffer
  <2>1. CASE b = __cmdBuf
    BY <1>2, <1>3, <1>6, <1>8, <1>9, <1>10, <2>1 DEF KeepsUp
  <2>2. CASE b # __cmdBuf
    BY <1>1, <1>2, <2>2 DEF KeepsUp
  <2> QED
    BY <2>1, <2>2
<1>12. Tracks'
  BY <1>1, <1>2, <1>5, <1>6, <1>11 DEF Tracks
<1> QED
  BY <1>2, <1>12 DEF Alone!commandVars

LEMMA TracksStep ==
  ASSUME Inv, Tracks, [Next]_vars
  PROVE  Tracks' /\ [Alone!CommandsNext]_(Alone!commandVars)
<1>1. ASSUME UNCHANGED vars
      PROVE  Tracks' /\ UNCHANGED Alone!commandVars
  <2>1. UNCHANGED <<gameRecording, gameQueue, saw, recording, queue, __texturePool, __samplerPool>>
    BY <1>1 DEF vars, gameVars, driverVars, setVars
  <2> QED
    BY <2>1 DEF Tracks, KeepsUp, Remembered, Alone!commandVars
<1> QED
  BY <1>1, GameTracks, PresentTracks DEF Next

(***************************************************************************)
(* The overlay implements the game's own use of pools: with the overlay's  *)
(* draws in between, and though presentTexture throws away what the game   *)
(* had recorded, each draw of the game's uses the texture and the sampler  *)
(* pool it would use alone.                                                *)
(***************************************************************************)
THEOREM DrawsAsAlone == Spec => GameUndisturbed
<1>1. Init => Alone!CommandsInit
  BY DEF Init, Alone!CommandsInit, Pools, Kind, Alone!Kind
<1>2. Inv /\ Tracks /\ [Next]_vars => Tracks' /\ [Alone!CommandsNext]_(Alone!commandVars)
  BY TracksStep
<1> QED
  BY <1>1, <1>2, InitTracks, Inductive, PTL
     DEF Spec, GameUndisturbed, Alone!CommandsSpec

-----------------------------------------------------------------------------
(***************************************************************************)
(* Types.                                                                  *)
(***************************************************************************)
Lengths ==
  \A b \in Buffer : gameRecording[b] # None =>
    /\ Len(recording[b]) <= Len(gameRecording[b])
    /\ Len(gameRecording[b]) <= MaxCommands

Typed ==
  /\ misuse \in BOOLEAN /\ aborted \in BOOLEAN
  /\ nvnDevice \in BOOLEAN /\ nvnQueue \in BOOLEAN
  /\ nvnCmdBuf \in Buffer \cup {None} /\ __cmdBuf \in Buffer \cup {None}
  /\ cmdBuf \in Buffer \cup {None}
  /\ hasInitImGui \in BOOLEAN /\ backend \in {"none", "half", "ready"}
  /\ inited \subseteq Buffer

Buffers == vtxBuffer \in Memory \cup {None} /\ idxBuffer \in Memory \cup {None}

LEMMA TypesFirst == Init => Lengths /\ Typed /\ Buffers
BY DEF Init, Lengths, Typed, Buffers

\* A buffer made anew is memory, of a size rounded up or of any other.
LEMMA ResizedType ==
  ASSUME NEW buffer \in Memory \cup {None}, NEW size \in Nat,
         NEW new \in Resized(buffer, size)
  PROVE  new \in Memory
<1>1. CASE Suffices(buffer, size)
  BY <1>1 DEF Resized, Suffices
<1>2. CASE ~Suffices(buffer, size)
  <2>1. new \in MemoryBuffers(size)
    BY <1>2 DEF Resized
  <2>2. ((size + PageSize - 1) \div PageSize) * PageSize \in Nat
    <3>1. PageSize \in Nat \ {0} /\ size + PageSize - 1 \in Nat
      BY PageSizeAssumption
    <3>2. (size + PageSize - 1) \div PageSize \in Nat
      BY <3>1, Z3
    <3> QED
      BY <3>1, <3>2, Z3
  <2>3. ALIGN_UP(size) \in Nat
    BY <2>2 DEF ALIGN_UP
  <2>4. \E n \in Nat, r \in BOOLEAN : new = [size |-> n, ready |-> r]
    <3>1. PICK n \in Nat : n = ALIGN_UP(size)
      BY <2>3
    <3>2. CASE new \in {[size |-> n, ready |-> TRUE]}
      BY <3>2
    <3>3. CASE new \in {[size |-> any, ready |-> FALSE] : any \in AnySize \cup {n}}
      <4>1. PICK any \in AnySize \cup {n} : new = [size |-> any, ready |-> FALSE]
        BY <3>3
      <4>2. any \in Nat /\ FALSE \in BOOLEAN
        BY <3>1, <4>1, BoundAssumption
      <4> QED
        BY <4>1, <4>2, Zenon
    <3> QED
      BY <2>1, <3>1, <3>2, <3>3, Zenon DEF MemoryBuffers
  <2> QED
    BY <2>4 DEF Memory
<1> QED
  BY <1>1, <1>2

LEMMA BuffersStep ==
  ASSUME Buffers, [Next]_vars
  PROVE  Buffers'
<1>1. CASE UNCHANGED bufferVars
  BY <1>1 DEF Buffers, bufferVars
<1>2. ASSUME NEW data \in DrawData, NEW drawn \in BOOLEAN, renderDrawData(data, drawn)
      PROVE  Buffers'
  <2>1. CASE UNCHANGED <<vtxBuffer, idxBuffer>>
    BY <2>1 DEF Buffers
  <2>2. CASE /\ vtxBuffer' \in Resized(vtxBuffer, Total(data, "vtx"))
             /\ idxBuffer' \in Resized(idxBuffer, Total(data, "idx"))
    <3>1. data \in Lists /\ "vtx" \in Part /\ "idx" \in Part
      BY DrawDataAssumption DEF Lists, Part
    <3>2. Total(data, "vtx") \in Nat /\ Total(data, "idx") \in Nat
      BY <3>1, TotalType
    <3> QED
      BY <2>2, <3>2, ResizedType DEF Buffers
  <2> QED
    BY <1>2, <2>1, <2>2 DEF renderDrawData
<1>3. CASE Game
  <2>1. UNCHANGED bufferVars
    BY <1>3 DEF Game, deviceInit, queueInit, cmdBufInit, BeginRecording, Both,
       Draw, setTexturePool, setSamplerPool, SubmitCommands, Unchanged
  <2> QED
    BY <1>1, <2>1
<1>4. ASSUME NEW data \in DrawData, NEW drawn \in BOOLEAN, presentTexture(data, drawn)
      PROVE  Buffers'
  BY <1>1, <1>2, <1>4 DEF presentTexture, procDraw
<1>5. CASE UNCHANGED vars
  BY <1>1, <1>5 DEF vars
<1> QED
  BY <1>3, <1>4, <1>5 DEF Next

LEMMA TypedStep ==
  ASSUME Typed, [Next]_vars
  PROVE  Typed'
<1>1. CASE deviceInit \/ queueInit
  BY <1>1 DEF deviceInit, queueInit, Typed, driverVars, setVars, backendVars
<1>2. ASSUME NEW b \in Buffer, cmdBufInit(b)
      PROVE  Typed'
  <2>1. /\ inited' \subseteq Buffer /\ nvnCmdBuf' = b
        /\ UNCHANGED <<nvnDevice, nvnQueue, misuse, __cmdBuf>>
    BY <1>2 DEF cmdBufInit, driverVars, setVars, Typed
  <2>2. CASE UNCHANGED backendVars
    BY <2>1, <2>2 DEF backendVars, Typed
  <2>3. CASE InitBackend(b) /\ hasInitImGui' = Succeeded
    <3>1. /\ aborted' \in BOOLEAN /\ backend' \in {"none", "half", "ready"}
          /\ cmdBuf' = b /\ hasInitImGui' \in BOOLEAN
      BY <2>3 DEF InitBackend, Succeeded
    <3> QED
      BY <2>1, <3>1 DEF Typed
  <2> QED
    BY <1>2, <2>2, <2>3 DEF cmdBufInit, InitImGui
<1>3. ASSUME NEW b \in Buffer, NEW c, Both(b, c), __cmdBuf' \in {b, __cmdBuf}
      PROVE  Typed'
  BY <1>3 DEF Both, Unchanged, nvnVars, backendVars, Typed
<1>4. ASSUME NEW b \in Buffer, BeginRecording(b) \/ SubmitCommands(b)
      PROVE  Typed'
  BY <1>4 DEF BeginRecording, SubmitCommands, Unchanged, nvnVars, backendVars, setVars, Typed
<1>5. ASSUME NEW b \in Buffer, Draw(b) \/ (\E p \in Texture : setTexturePool(b, p))
                               \/ (\E p \in Sampler : setSamplerPool(b, p))
      PROVE  Typed'
  <2>1. \E c : Both(b, c) /\ __cmdBuf' \in {b, __cmdBuf}
    BY <1>5 DEF Draw, setTexturePool, setSamplerPool, setVars
  <2> QED
    BY <1>3, <2>1
<1>6. ASSUME NEW data \in DrawData, NEW drawn \in BOOLEAN, presentTexture(data, drawn)
      PROVE  Typed'
  <2>1. misuse' \in BOOLEAN /\ UNCHANGED <<nvnVars, setVars>>
    BY <1>6 DEF presentTexture
  <2>2. aborted' \in BOOLEAN /\ UNCHANGED <<hasInitImGui, backend, cmdBuf>>
    BY <1>6 DEF presentTexture, procDraw, backendVars, Typed
  <2> QED
    BY <2>1, <2>2 DEF nvnVars, setVars, Typed
<1>7. CASE UNCHANGED vars
  BY <1>7 DEF vars, driverVars, nvnVars, setVars, backendVars, Typed
<1> QED
  BY <1>1, <1>2, <1>4, <1>5, <1>6, <1>7 DEF Next, Game
\* The driver has recorded no more than the game, and that within the bound.
LEMMA LengthsStep ==
  ASSUME Inv, Lengths, [Next]_vars
  PROVE  Lengths'
<1>1. CASE UNCHANGED <<recording, gameRecording>>
  BY <1>1 DEF Lengths
<1>2. ASSUME NEW b \in Buffer, NEW c, Both(b, c)
      PROVE  Lengths'
  <2>1. /\ gameRecording[b] # None /\ Len(gameRecording[b]) < MaxCommands
        /\ recording[b] # None
    BY <1>2 DEF Both, Inv, Recorded
  <2>2. PICK r \in Commands, g \in Commands : r = recording[b] /\ g = gameRecording[b]
    BY <2>1 DEF Inv, Recorded
  <2>3. Len(r) <= Len(g) /\ Len(g) < MaxCommands /\ Len(r) \in Nat /\ Len(g) \in Nat
    BY <2>1, <2>2, LenProperties DEF Lengths, Commands
  <2>4. Len(Append(r, c)) = Len(r) + 1 /\ Len(Append(g, c)) = Len(g) + 1
    <3>1. \A s \in Commands : s \in Seq(Alone!Command \cup {c})
      BY DEF Commands
    <3> QED
      BY <3>1, AppendProperties
  <2>5. /\ gameRecording' = [gameRecording EXCEPT ![b] = Append(g, c)]
        /\ recording' = [recording EXCEPT ![b] = Append(r, c)]
    BY <1>2, <2>1, <2>2 DEF Both
  <2>6. PICK u, v : u = Append(r, c) /\ v = Append(g, c)
    OBVIOUS
  <2>7. Len(u) <= Len(v) /\ Len(v) <= MaxCommands
    BY <2>3, <2>4, <2>6, BoundAssumption
  <2>8. /\ gameRecording' = [gameRecording EXCEPT ![b] = v]
        /\ recording' = [recording EXCEPT ![b] = u]
    BY <2>5, <2>6
  <2> QED
    BY <2>7, <2>8 DEF Lengths, Inv, Recorded
<1>3. ASSUME NEW b \in Buffer, BeginRecording(b)
      PROVE  Lengths'
  <2>1. PICK e : e = << >>
    OBVIOUS
  <2>2. Len(e) = 0
    BY <2>1
  <2>3. /\ gameRecording' = [gameRecording EXCEPT ![b] = e]
        /\ recording' = [recording EXCEPT ![b] = e]
    BY <1>3, <2>1 DEF BeginRecording
  <2> QED
    BY <2>2, <2>3, BoundAssumption DEF Lengths, Inv, Recorded
<1>4. ASSUME NEW b \in Buffer, SubmitCommands(b)
      PROVE  Lengths'
  BY <1>4 DEF SubmitCommands, Lengths, Inv, Recorded
<1>5. ASSUME NEW data \in DrawData, NEW drawn \in BOOLEAN, presentTexture(data, drawn)
      PROVE  Lengths'
  <2>1. /\ gameRecording' = gameRecording /\ __cmdBuf \in Buffer
        /\ \A b \in Buffer : b # __cmdBuf => gameRecording[b] = None
        /\ gameRecording[__cmdBuf] # None
    BY <1>5 DEF presentTexture, gameVars
  <2>2. recording'[__cmdBuf] = << >>
    BY <1>5, <2>1 DEF presentTexture, Ended, Inv, Recorded
  <2>3. PICK g \in Commands : g = gameRecording[__cmdBuf]
    BY <2>1 DEF Inv, Recorded
  <2>4. Len(recording'[__cmdBuf]) = 0 /\ Len(g) \in Nat
    BY <2>2, LenProperties DEF Commands
  <2> QED
    BY <2>1, <2>3, <2>4 DEF Lengths
<1>6. CASE deviceInit \/ queueInit \/ (\E b \in Buffer : cmdBufInit(b)) \/ UNCHANGED vars
  BY <1>1, <1>6 DEF deviceInit, queueInit, cmdBufInit, vars, gameVars, driverVars
<1>7. ASSUME NEW b \in Buffer, Draw(b) \/ (\E p \in Texture : setTexturePool(b, p))
                               \/ (\E p \in Sampler : setSamplerPool(b, p))
      PROVE  Lengths'
  BY <1>2, <1>7 DEF Draw, setTexturePool, setSamplerPool
<1> QED
  BY <1>3, <1>4, <1>5, <1>6, <1>7 DEF Next, Game

(***************************************************************************)
(* Every variable of the overlay and of the driver keeps its type: the     *)
(* queue draws with pools of the game's or the overlay's and with nothing  *)
(* else, and what presentTexture restores of a recording fits where the    *)
(* game recorded it.                                                       *)
(***************************************************************************)
THEOREM TypeCorrect == Spec => []TypeOK
<1>1. Inv /\ Tracks /\ Lengths /\ Typed /\ Buffers /\ [Next]_vars =>
        Tracks' /\ Lengths' /\ Typed' /\ Buffers'
  BY TracksStep, LengthsStep, TypedStep, BuffersStep
<1>2. Inv /\ Tracks /\ Lengths /\ Typed /\ Buffers => TypeOK
  <2> SUFFICES ASSUME Inv, Tracks, Lengths, Typed, Buffers PROVE TypeOK
    OBVIOUS
  <2>1. ASSUME NEW b \in Buffer, recording[b] # None
        PROVE  Len(recording[b]) <= MaxCommands
    <3>1. PICK r \in Commands, g \in Commands : r = recording[b] /\ g = gameRecording[b]
      BY <2>1 DEF Inv, Recorded
    <3>2. Len(r) \in Nat /\ Len(g) \in Nat
      BY LenProperties DEF Commands
    <3>3. Len(r) <= Len(g) /\ Len(g) <= MaxCommands
      BY <2>1, <3>1 DEF Inv, Recorded, Lengths
    <3> QED
      BY <3>1, <3>2, <3>3, BoundAssumption
  <2>2. queue \in [Kind -> Texture \cup Sampler \cup {Overlay, None}]
    BY DEF Tracks, QueuePools, AnyPool
  <2> QED
    BY <2>1, <2>2 DEF Tracks, Typed, Buffers, TypeOK
<1> QED
  BY <1>1, <1>2, InitTracks, TypesFirst, Inductive, PTL DEF Spec
=============================================================================
