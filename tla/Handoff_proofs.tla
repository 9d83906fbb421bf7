--------------------------- MODULE Handoff_proofs ---------------------------
(***************************************************************************)
(* The hand-off implements the box for poses of any number of words.       *)
(***************************************************************************)
EXTENDS Handoff, TLAPS

Writing == writer \in 1 .. Flag

\* The words the renderer has written, and all of them when it writes none.
Written == \A w \in Word : (Writing /\ w < writer => desired[w] = asked)
                           /\ (~Writing => desired[w] = wanted)

\* What the hook has read is whole if neither a request that is being written
\* nor the flag tells it that another one comes.
Reading ==
  reader = "words" /\ ~hasDesiredPositionData /\ ~Writing =>
    \A w \in Word : w < word => taken[w] = wanted

\* The flag the hook has seen is still up when it lowers it.
FlagSeen == reader = "clear_position" => hasDesiredPositionData

\* A time that the hook has seen, or that the renderer is about to write, is one.
TimeSeen == reader \in {"time", "clear_time", "load"} => desiredTime > 0
TimeSaved == writer = SetTime => savedTime > 0

\* desiredTime is reset before it can be loaded again.
Fresh == desiredTime > 0 /\ reader # "reset" => fresh

Inv == TypeOK /\ Written /\ Reading /\ FlagSeen /\ TimeSeen /\ TimeSaved /\ Fresh

USE WordsAssumption, PoseAssumption, TimeAssumption
USE DEF Word, Flag, SetTime, TimeFlag, Idle

-----------------------------------------------------------------------------
\* A hand-off begins without a request.
LEMMA InitInv == Init => Inv
<1> SUFFICES ASSUME Init PROVE Inv
  OBVIOUS
<1>1. TypeOK
  <2>1. PICK p \in Pose : desired = [w \in Word |-> p] /\ taken = desired
                         /\ given = desired /\ asked = p /\ wanted = p
    BY DEF Init
  <2>2. /\ desired \in [Word -> Pose] /\ taken \in [Word -> Pose]
        /\ given \in [Word -> Pose] /\ asked \in Pose /\ wanted \in Pose
    BY <2>1
  <2>3. playTime \in Time /\ word \in Word /\ writer \in Idle .. TimeFlag
    BY DEF Init, Time
  <2> QED
    BY <2>2, <2>3 DEF Init, TypeOK
<1>2. Written
  BY DEF Init, Writing, Written
<1>3. Reading /\ FlagSeen /\ TimeSeen /\ TimeSaved /\ Fresh
  BY DEF Init, Reading, FlagSeen, TimeSeen, TimeSaved, Fresh, NoTime
<1> QED
  BY <1>1, <1>2, <1>3 DEF Inv

\* The renderer's steps.
LEMMA RendererKeeps ==
  ASSUME Inv, Renderer
  PROVE  Inv'
<1>1. CASE \E p \in Pose : Ask(p)
  BY <1>1 DEF Inv, TypeOK, Ask, Writing, Written, Reading, FlagSeen, TimeSeen,
     TimeSaved, Fresh, RendererLeaves, positionVars, timeVars, menuVars
<1>2. CASE WriteWord
  <2>1. TypeOK' /\ Writing /\ Writing'
    BY <1>2 DEF Inv, TypeOK, WriteWord, Writing, RendererLeaves, timeVars,
       menuVars
  <2>2. Written'
    BY <1>2, <2>1 DEF Inv, TypeOK, WriteWord, Written, Writing
  <2> QED
    BY <1>2, <2>1, <2>2 DEF Inv, TypeOK, WriteWord, Reading, FlagSeen,
       TimeSeen, TimeSaved, Fresh, RendererLeaves, timeVars, menuVars
<1>3. CASE RaiseFlag
  <2>1. Writing /\ ~Writing'
    BY <1>3 DEF RaiseFlag, Writing
  <2>2. TypeOK' /\ TimeSaved'
    BY <1>3 DEF Inv, TypeOK, RaiseFlag, TimeSaved, RendererLeaves, timeVars,
       menuVars
  <2>3. Written'
    BY <1>3, <2>1 DEF Inv, TypeOK, RaiseFlag, Written
  <2> QED
    BY <1>3, <2>1, <2>2, <2>3 DEF Inv, RaiseFlag, Reading, FlagSeen,
       TimeSeen, Fresh, RendererLeaves, timeVars
<1>4. CASE WriteTime
  BY <1>4 DEF Inv, TypeOK, WriteTime, Writing, Written, Reading, FlagSeen,
     TimeSeen, TimeSaved, Fresh, RendererLeaves, positionVars, menuVars, Time
<1>5. CASE RaiseTimeFlag
  BY <1>5 DEF Inv, TypeOK, RaiseTimeFlag, Writing, Written, Reading, FlagSeen,
     TimeSeen, TimeSaved, Fresh, RendererLeaves, positionVars, menuVars
<1>6. CASE Save
  BY <1>6 DEF Inv, TypeOK, Save, Writing, Written, Reading, FlagSeen,
     TimeSeen, TimeSaved, Fresh, RendererLeaves, positionVars, timeVars
<1>7. CASE Checkbox
  BY <1>7 DEF Inv, TypeOK, Checkbox, Writing, Written, Reading, FlagSeen,
     TimeSeen, TimeSaved, Fresh, RendererLeaves, positionVars, timeVars
<1> QED
  BY <1>1, <1>2, <1>3, <1>4, <1>5, <1>6, <1>7 DEF Renderer

-----------------------------------------------------------------------------
\* What the game's thread does with the time leaves the position alone.
LEMMA TimeStepKeeps ==
  ASSUME Inv, TestTime \/ TestTimeFlag \/ ClearTimeFlag \/ LoadTime \/ ResetTime
  PROVE  Inv'
<1>1. TypeOK'
  <2>1. CASE LoadTime
    <3>1. desiredTime \in Time
      BY <2>1 DEF LoadTime, Inv, TypeOK, TimeSeen, NoTime, Time
    <3> QED
      BY <2>1, <3>1 DEF Inv, TypeOK, LoadTime, GameLeaves, menuVars, timeVars
  <2>2. CASE TestTime \/ TestTimeFlag \/ ClearTimeFlag \/ ResetTime
    BY <2>2 DEF Inv, TypeOK, TestTime, TestTimeFlag, ClearTimeFlag, ResetTime,
       TimeLeft, GameLeaves, menuVars, timeVars
  <2> QED
    BY <2>1, <2>2
<1>2. Written' /\ Reading' /\ FlagSeen'
  BY DEF Inv, TestTime, TestTimeFlag, ClearTimeFlag, LoadTime, ResetTime,
     Written, Writing, Reading, FlagSeen, GameLeaves
<1>3. TimeSeen' /\ TimeSaved' /\ Fresh'
  BY DEF Inv, TypeOK, TestTime, TimePending, TestTimeFlag, ClearTimeFlag,
     LoadTime, ResetTime, TimeLeft, NoTime, TimeSeen, TimeSaved, Fresh,
     GameLeaves, menuVars, timeVars, Time
<1> QED
  BY <1>1, <1>2, <1>3 DEF Inv

\* What it does with the position leaves the time alone.
LEMMA PositionStepKeeps ==
  ASSUME Inv, TestFlag \/ ClearFlag \/ ReadWord \/ Count
  PROVE  Inv'
<1>1. CASE TestFlag
  BY <1>1 DEF Inv, TypeOK, TestFlag, Writing, Written, Reading, FlagSeen,
     TimeSeen, TimeSaved, Fresh, GameLeaves, menuVars, timeVars
<1>2. CASE ClearFlag
  <2>1. TypeOK'
    <3>1. word' \in Word
      BY <1>2 DEF ClearFlag
    <3>2. hasDesiredPositionData' \in BOOLEAN
      BY <1>2 DEF ClearFlag
    <3> QED
      BY <1>2, <3>1, <3>2 DEF Inv, TypeOK, ClearFlag, GameLeaves, menuVars, timeVars
  <2>2. \A w \in Word : ~(w < word')
    BY <1>2 DEF ClearFlag
  <2>3. Reading'
    BY <2>2 DEF Reading
  <2> QED
    BY <1>2, <2>1, <2>3 DEF Inv, ClearFlag, Writing, Written, FlagSeen, TimeSeen,
       TimeSaved, Fresh, GameLeaves, menuVars, timeVars
<1>3. CASE ReadWord
  <2>1. TypeOK'
    BY <1>3 DEF Inv, TypeOK, ReadWord, LastWord, FlagWhenRead, GameLeaves,
       menuVars, timeVars
  <2>2. Reading'
    BY <1>3 DEF Inv, TypeOK, ReadWord, LastWord, Reading, Written, Writing,
       GameLeaves
  <2> QED
    BY <1>3, <2>1, <2>2 DEF Inv, ReadWord, Written, Writing, FlagSeen,
       TimeSeen, TimeSaved, Fresh, GameLeaves, menuVars, timeVars
<1>4. CASE Count
  BY <1>4 DEF Inv, TypeOK, Count, Writing, Written, Reading, FlagSeen,
     TimeSeen, TimeSaved, Fresh, GameLeaves, menuVars, timeVars
<1> QED
  BY <1>1, <1>2, <1>3, <1>4

LEMMA StutterKeeps ==
  ASSUME Inv, UNCHANGED vars
  PROVE  Inv'
BY DEF Inv, TypeOK, Writing, Written, Reading, FlagSeen, TimeSeen, TimeSaved,
       Fresh, vars, positionVars, timeVars, menuVars

THEOREM Inductive == Spec => []Inv
<1>1. Inv /\ [Next]_vars => Inv'
  BY RendererKeeps, TimeStepKeeps, PositionStepKeeps, StutterKeeps
  DEF Next, ProcessInput
<1> QED
  BY <1>1, InitInv, PTL DEF Spec

(***************************************************************************)
(* Every variable keeps its type, for every number of words: ProcessInput  *)
(* never gives the game the play time -1 that stands for none.             *)
(***************************************************************************)
THEOREM TypeCorrect == Spec => []TypeOK
<1>1. Inv => TypeOK
  BY DEF Inv
<1> QED
  BY <1>1, Inductive, PTL

(***************************************************************************)
(* What is loaded as play time was written by the renderer since the last  *)
(* load, though its two writes race with the hook's five accesses.         *)
(***************************************************************************)
THEOREM TimesLoadOnce == Spec => NoSecondLoad
<1>1. Inv /\ [Next]_vars => [Loads => fresh]_vars
  BY DEF Inv, TimeSeen, Fresh, Loads
<1> QED
  BY <1>1, Inductive, PTL DEF Spec, NoSecondLoad

(***************************************************************************)
(* Only a saved time is loaded, never 0 or -1.                             *)
(***************************************************************************)
THEOREM TimesLoadedWereSaved == Spec => LoadsSomething
<1>1. ASSUME Inv, Next, Loads
      PROVE  playTime' > 0
  <2>1. reader = "load" /\ desiredTime > 0 /\ reader' = "reset"
    BY <1>1 DEF Inv, TimeSeen, Loads
  <2>2. LoadTime
    BY <1>1, <2>1 DEF Next, Renderer, ProcessInput, Ask, WriteWord, RaiseFlag,
       WriteTime, RaiseTimeFlag, Save, Checkbox, RendererLeaves, TestTime,
       TestTimeFlag, ClearTimeFlag, ResetTime, TestFlag, ClearFlag, ReadWord,
       Count
  <2> QED
    BY <2>1, <2>2 DEF LoadTime
<1>2. UNCHANGED vars => ~Loads
  BY DEF vars, Loads
<1>3. Inv /\ [Next]_vars => [Loads => playTime' > 0]_vars
  BY <1>1, <1>2
<1> QED
  BY <1>3, Inductive, PTL DEF Spec, LoadsSomething

-----------------------------------------------------------------------------
\* A hand-off begins as the box does.
LEMMA BoxBegins == Init => Box!BoxInit
BY DEF Init, Box!BoxInit, Box!Whole

\* The renderer's steps begin a request, ask for it, or are none of the box's.
LEMMA RendererIsBox ==
  ASSUME Inv, Renderer
  PROVE  [Box!Begin \/ Box!Ask \/ Box!Serve]_Box!boxVars
<1>1. CASE \E p \in Pose : Ask(p)
  BY <1>1 DEF Ask, Box!Begin, RendererLeaves, positionVars
<1>2. CASE WriteWord
  BY <1>2 DEF WriteWord, Box!boxVars, RendererLeaves
<1>3. CASE RaiseFlag
  BY <1>3 DEF Inv, TypeOK, RaiseFlag, Box!Ask, RendererLeaves
<1>4. CASE WriteTime \/ RaiseTimeFlag \/ Save \/ Checkbox
  BY <1>4 DEF WriteTime, RaiseTimeFlag, Save, Checkbox, Box!boxVars,
     RendererLeaves, positionVars
<1> QED
  BY <1>1, <1>2, <1>3, <1>4 DEF Renderer

\* The hook's last word serves the request; no other step of it does.
LEMMA GameIsBox ==
  ASSUME Inv, ProcessInput \/ Count
  PROVE  [Box!Begin \/ Box!Ask \/ Box!Serve]_Box!boxVars
<1>1. CASE TestTime \/ TestTimeFlag \/ ClearTimeFlag \/ LoadTime \/ ResetTime
           \/ TestFlag \/ Count
  BY <1>1 DEF TestTime, TestTimeFlag, ClearTimeFlag, LoadTime, ResetTime,
     TestFlag, Count, Box!boxVars, GameLeaves
<1>2. CASE ClearFlag
  BY <1>2 DEF Inv, FlagSeen, ClearFlag, Box!boxVars, GameLeaves
<1>3. CASE ReadWord /\ ~LastWord
  BY <1>3 DEF ReadWord, Box!boxVars, GameLeaves
<1>4. CASE ReadWord /\ LastWord
  <2>1. given' = taken' /\ reader' = "between" /\ reader = "words"
        /\ hasDesiredPositionData' = hasDesiredPositionData
    BY <1>4 DEF ReadWord, FlagWhenRead
  <2>2. given' \in [Word -> Pose]
    BY <1>4, <2>1 DEF Inv, TypeOK, ReadWord, LastWord
  <2>3. ASSUME ~Writing, ~hasDesiredPositionData
        PROVE  given' = Box!Whole(wanted)
    <3>1. taken' = [taken EXCEPT ![Words] = desired[Words]] /\ word = Words
      BY <1>4 DEF ReadWord, LastWord
    <3>2. /\ desired[Words] = wanted /\ taken \in [Word -> Pose]
          /\ \A w \in Word : w < Words => taken[w] = wanted
      BY <2>1, <2>3, <3>1 DEF Inv, TypeOK, Reading, Written
    <3>3. \A w \in Word : w < Words \/ w = Words
      OBVIOUS
    <3> QED
      BY <2>1, <3>1, <3>2, <3>3 DEF Box!Whole
  <2> QED
    BY <1>4, <2>1, <2>2, <2>3
    DEF Inv, TypeOK, ReadWord, Box!Serve, Writing, GameLeaves
<1> QED
  BY <1>1, <1>2, <1>3, <1>4 DEF ProcessInput

(***************************************************************************)
(* The globals and their flag, read and written word by word by two        *)
(* threads without a lock, implement a box that serves the last request.   *)
(***************************************************************************)
THEOREM ImplementsBox == Spec => ServesLastRequest
<1>1. Inv /\ [Next]_vars => [Box!Begin \/ Box!Ask \/ Box!Serve]_Box!boxVars
  <2>1. UNCHANGED vars => UNCHANGED Box!boxVars
    BY DEF vars, positionVars, timeVars, Box!boxVars
  <2> QED
    BY <2>1, RendererIsBox, GameIsBox DEF Next
<1> QED
  BY <1>1, BoxBegins, Inductive, PTL DEF Spec, ServesLastRequest, Box!BoxSpec
=============================================================================
