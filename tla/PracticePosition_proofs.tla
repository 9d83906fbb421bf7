----------------------- MODULE PracticePosition_proofs -----------------------
(***************************************************************************)
(* The safety properties of PracticePosition, for every set of transforms, *)
(* every bound on the play time and every set of options.                  *)
(***************************************************************************)
EXTENDS PracticePosition, TLAPS

(***************************************************************************)
(* The inductive invariant.  Between two calls of ProcessInput lastKnown   *)
(* is the pose the last call left; a time that can be loaded was asked     *)
(* for; while a warp is awaited the menu is closed and no position is      *)
(* pending.                                                                *)
(***************************************************************************)
LastKnownIsSettled == ~inProcessInput => lastKnown = settled
DesiredTimeIsAsked == desiredTime > 0 => asked
WarpIsAlone == warp # "none" => ~hasDesiredPositionData /\ ~toggleInput

Inv ==
  /\ TypeOK
  /\ SoftPausedIsFlagged
  /\ LastKnownIsSettled
  /\ DesiredTimeIsAsked
  /\ WarpIsAlone


\* A pose is a transform with a motion.
LEMMA PoseOf ==
  ASSUME NEW t \in Transform, NEW m \in Motion
  PROVE  [xf |-> t, motion |-> m] \in Pose
BY DEF Pose

\* A transform with no motion is a pose.
LEMMA AtRestIsPose ==
  ASSUME NEW t \in Transform
  PROVE  AtRest(t) \in Pose
BY MotionAssumption DEF Pose, AtRest

\* Turning or moving a pose gives a pose.
LEMMA PoseExcept ==
  ASSUME NEW p \in Pose, NEW t \in Transform
  PROVE  /\ [p EXCEPT !.xf = t] \in Pose
         /\ p.xf \in Transform
BY DEF Pose

\* The states the mod starts in satisfy the invariant.
LEMMA InitInv == Init => Inv
<1> SUFFICES ASSUME Init PROVE Inv
  OBVIOUS
<1>1. AtRest(Identity) \in Pose
  BY TransformAssumption, AtRestIsPose
<1>a. 0 \in Times
  BY TimeAssumption DEF Times
<1>b. config \in [ConfigFields -> BOOLEAN]
  BY OptionsAssumption, Zenon DEF Init
<1>2. TypeOK
  BY <1>1, <1>a, <1>b, TransformAssumption DEF Init, TypeOK
<1>3. /\ SoftPausedIsFlagged
      /\ LastKnownIsSettled
      /\ DesiredTimeIsAsked
      /\ WarpIsAlone
  BY DEF Init, SoftPausedIsFlagged, LastKnownIsSettled, DesiredTimeIsAsked,
         WarpIsAlone, NoTime
<1> QED
  BY <1>2, <1>3 DEF Inv

-----------------------------------------------------------------------------
\* What the first part of ProcessInput leaves of the times has their types, and
\* a time that is left to load was asked for.
LEMMA TimeLeft ==
  ASSUME TypeOK
  PROVE  /\ PlayTimeAfter \in Times
         /\ TimeRequestLeft.flag \in BOOLEAN
         /\ TimeRequestLeft.time \in Times \cup {NoTime}
         /\ TimeRequestLeft.time > 0 => desiredTime > 0 /\ ~TimeDue
<1>1. CASE TimeDue
  BY <1>1 DEF TypeOK, TimeDue, PlayTimeAfter, TimeRequestLeft, Times, NoTime
<1>2. CASE ~TimeDue
  BY <1>2 DEF TypeOK, PlayTimeAfter, TimeRequestLeft, Times, NoTime
<1> QED
  BY <1>1, <1>2

\* Calling Orig with two poses leaves two poses.
LEMMA CallOrigPoses ==
  ASSUME NEW pose \in Pose, NEW known \in Pose, CallOrig(pose, known)
  PROVE  player' \in Pose /\ lastKnown' \in Pose /\ inProcessInput'
<1>1. CASE ~TurnsPlayer
  BY <1>1 DEF CallOrig
<1>2. CASE TurnsPlayer
  <2>1. PICK t \in Rotations(known.xf) :
          /\ player' = [pose EXCEPT !.xf = t]
          /\ lastKnown' = [known EXCEPT !.xf = t]
    BY <1>2 DEF CallOrig
  <2>2. t \in Transform
    BY TransformAssumption, PoseExcept
  <2> QED
    BY <2>1, <2>2, PoseExcept DEF CallOrig
<1> QED
  BY <1>1, <1>2

-----------------------------------------------------------------------------
\* A position load keeps the invariant.
LEMMA LoadsInv == Inv /\ ProcessInputLoads => Inv'
<1> SUFFICES ASSUME Inv, ProcessInputLoads PROVE Inv'
  OBVIOUS
<1>1. player' \in Pose /\ lastKnown' \in Pose /\ inProcessInput'
  BY CallOrigPoses DEF Inv, TypeOK, ProcessInputLoads
<1>2. TypeOK'
  BY <1>1, TimeLeft DEF Inv, TypeOK, ProcessInputLoads, EnterProcessInput,
       LeaveTimeRequest, CallOrig, PositionRequestLeft, saveVars, menuVars
<1>3. SoftPausedIsFlagged' /\ LastKnownIsSettled' /\ WarpIsAlone'
  BY <1>1 DEF Inv, SoftPausedIsFlagged, LastKnownIsSettled, WarpIsAlone,
       ProcessInputLoads, EnterProcessInput
<1>4. DesiredTimeIsAsked'
  BY TimeLeft DEF Inv, DesiredTimeIsAsked, ProcessInputLoads, LeaveTimeRequest
<1> QED
  BY <1>2, <1>3, <1>4 DEF Inv

\* The hot keys keep the invariant, whichever are held.
LEMMA HotKeysInv ==
  ASSUME Inv, NEW held, ProcessInputHotKeys(held)
  PROVE  Inv'
<1> DEFINE loads == "loadPos" \in held
           timed == loads /\ LoadsTime(savedTime)
           savedBySave == IF "savePos" \in held THEN SavePosTime(savedTime, igt')
                                               ELSE savedTime
           loadsTime == "loadTime" \in held /\ config["load_time_separately"]
<1>1. player' \in Pose /\ lastKnown' \in Pose /\ inProcessInput'
  BY CallOrigPoses DEF Inv, TypeOK, ProcessInputHotKeys
<1>2. igt' \in Times /\ savedTime \in Times \cup {NoTime}
  BY DEF Inv, TypeOK, ProcessInputHotKeys, EnterProcessInput
<1>3. savedBySave \in Times \cup {NoTime}
  BY <1>2 DEF SavePosTime
<1>4. savedTime' \in Times \cup {NoTime}
  BY <1>2, <1>3 DEF ProcessInputHotKeys, SaveTimeTime
<1>5. /\ desiredTime' \in Times \cup {NoTime}
      /\ desiredTime' > 0 => asked'
  <2>1. CASE loadsTime
    BY <2>1, <1>3 DEF ProcessInputHotKeys
  <2>2. CASE timed /\ ~loadsTime
    BY <2>2, <1>2 DEF ProcessInputHotKeys
  <2>3. CASE ~timed /\ ~loadsTime
    <3>1. desiredTime' = TimeRequestLeft.time
      BY <2>3 DEF ProcessInputHotKeys
    <3>2. asked' = (asked /\ ~TimeDue)
      BY <2>3 DEF ProcessInputHotKeys
    <3> QED
      BY <3>1, <3>2, TimeLeft DEF Inv, DesiredTimeIsAsked
  <2> QED
    BY <2>1, <2>2, <2>3
<1>6. TypeOK'
  <2>1. savedPos' \in Transform
    BY PoseExcept DEF Inv, TypeOK, ProcessInputHotKeys
  <2>2. desired' \in Pose
    BY AtRestIsPose DEF Inv, TypeOK, ProcessInputHotKeys
  <2>3. /\ hasDesiredPositionData' \in BOOLEAN
        /\ hasDesiredTimeData' \in BOOLEAN
        /\ asked' \in BOOLEAN
        /\ warp' \in {"none", "picked", "arrived"}
    BY DEF Inv, TypeOK, ProcessInputHotKeys
  <2>4. /\ playing' \in BOOLEAN /\ playTime' \in Times
        /\ gameState' \in {"Running", "SoftPaused"}
        /\ isTimeStopped' \in BOOLEAN /\ toggleInput' \in BOOLEAN
        /\ config' \in [ConfigFields -> BOOLEAN]
        /\ managerSet' \in BOOLEAN /\ settled' \in Pose
    BY TimeLeft DEF Inv, TypeOK, ProcessInputHotKeys, EnterProcessInput, menuVars
  <2> QED
    BY <1>1, <1>2, <1>4, <1>5, <2>1, <2>2, <2>3, <2>4 DEF TypeOK
<1>7. SoftPausedIsFlagged' /\ LastKnownIsSettled'
  BY <1>1 DEF Inv, SoftPausedIsFlagged, LastKnownIsSettled,
       ProcessInputHotKeys, EnterProcessInput
<1>8. WarpIsAlone'
  BY DEF Inv, TypeOK, WarpIsAlone, ProcessInputHotKeys, EnterProcessInput, menuVars
<1> QED
  BY <1>5, <1>6, <1>7, <1>8 DEF Inv, DesiredTimeIsAsked

\* The freeze, with or without an edit of the position, keeps the invariant.
LEMMA FreezesInv == Inv /\ ProcessInputFreezes => Inv'
<1> SUFFICES ASSUME Inv, ProcessInputFreezes PROVE Inv'
  OBVIOUS
<1>1. player' \in Pose /\ lastKnown' \in Pose /\ inProcessInput'
  <2>1. CASE CallOrig(lastKnown, lastKnown)
    BY <2>1, CallOrigPoses DEF Inv, TypeOK
  <2>2. CASE \E moved \in Moves(lastKnown.xf) : \E t \in Rotations(moved) :
               CallOrig([lastKnown EXCEPT !.xf = t], [lastKnown EXCEPT !.xf = t])
    <3>0. PICK moved \in Moves(lastKnown.xf) : \E t \in Rotations(moved) :
            CallOrig([lastKnown EXCEPT !.xf = t], [lastKnown EXCEPT !.xf = t])
      BY <2>2
    <3>1. PICK t \in Rotations(moved) :
            CallOrig([lastKnown EXCEPT !.xf = t], [lastKnown EXCEPT !.xf = t])
      BY <3>0
    <3>2. t \in Transform
      BY TransformAssumption, PoseExcept DEF Inv, TypeOK
    <3>3. [lastKnown EXCEPT !.xf = t] \in Pose
      BY <3>2, PoseExcept DEF Inv, TypeOK
    <3> QED
      BY <3>1, <3>3, CallOrigPoses
  <2> QED
    BY <2>1, <2>2 DEF ProcessInputFreezes
<1>2. TypeOK'
  BY <1>1, TimeLeft DEF Inv, TypeOK, ProcessInputFreezes, EnterProcessInput,
       LeaveTimeRequest, posVars, saveVars, menuVars
<1>3. SoftPausedIsFlagged' /\ LastKnownIsSettled' /\ WarpIsAlone'
  BY <1>1 DEF Inv, TypeOK, SoftPausedIsFlagged, LastKnownIsSettled, WarpIsAlone,
       ProcessInputFreezes, EnterProcessInput, posVars, menuVars
<1>4. DesiredTimeIsAsked'
  BY TimeLeft DEF Inv, DesiredTimeIsAsked, ProcessInputFreezes, LeaveTimeRequest
<1> QED
  BY <1>2, <1>3, <1>4 DEF Inv

\* Orig's return keeps the invariant.
LEMMA OrigReturnsInv == Inv /\ OrigReturns => Inv'
<1> SUFFICES ASSUME Inv, OrigReturns PROVE Inv'
  OBVIOUS
<1>1. PICK t \in Rotations(player.xf), m \in Motion :
        /\ player' = [xf |-> t, motion |-> m]
        /\ lastKnown' = player'
        /\ settled' = player'
  BY DEF OrigReturns, RecordedPose
<1>2. t \in Transform
  BY TransformAssumption, PoseExcept DEF Inv, TypeOK
<1>3. player' \in Pose
  BY <1>1, <1>2, PoseOf
<1>4. TypeOK'
  <2>1. lastKnown' \in Pose /\ settled' \in Pose
    BY <1>1, <1>3
  <2>2. /\ inProcessInput' = FALSE
        /\ UNCHANGED <<playing, playTime, gameState, posVars, timeVars, saveVars,
                       igt, isTimeStopped, menuVars, managerSet, asked, warp>>
    BY DEF OrigReturns
  <2> QED
    BY <1>3, <2>1, <2>2, ZenonT(30) DEF Inv, TypeOK, posVars, timeVars, saveVars, menuVars
<1> QED
  BY <1>1, <1>4 DEF Inv, OrigReturns, SoftPausedIsFlagged, LastKnownIsSettled,
       DesiredTimeIsAsked, WarpIsAlone, posVars, timeVars, menuVars

\* Stopping and resuming time keeps the invariant.
LEMMA GameMainLoopInv == Inv /\ GameMainLoop => Inv'
<1> SUFFICES ASSUME Inv, GameMainLoop PROVE Inv'
  OBVIOUS
<1>1. CASE isTimeStopped
  BY <1>1 DEF Inv, TypeOK, GameMainLoop, NewGameState, SoftPausedIsFlagged,
       LastKnownIsSettled, DesiredTimeIsAsked, WarpIsAlone, posVars, timeVars,
       saveVars, menuVars
<1>2. CASE ~isTimeStopped
  BY <1>2 DEF Inv, TypeOK, GameMainLoop, NewGameState, SoftPausedIsFlagged,
       LastKnownIsSettled, DesiredTimeIsAsked, WarpIsAlone, posVars, timeVars,
       saveVars, menuVars
<1> QED
  BY <1>1, <1>2

\* What the game does by itself keeps the invariant.
LEMMA GameInv == Inv /\ (Physics \/ InstanceEnds \/ NewInstance) => Inv'
<1> SUFFICES ASSUME Inv, Physics \/ InstanceEnds \/ NewInstance PROVE Inv'
  OBVIOUS
<1>1. CASE Physics
  BY <1>1 DEF Inv, TypeOK, Physics, SoftPausedIsFlagged, LastKnownIsSettled,
       DesiredTimeIsAsked, WarpIsAlone, posVars, timeVars, saveVars, menuVars
<1>2. CASE InstanceEnds
  BY <1>2, ZenonT(30) DEF Inv, TypeOK, InstanceEnds, SoftPausedIsFlagged, LastKnownIsSettled,
       DesiredTimeIsAsked, WarpIsAlone, posVars, timeVars, saveVars, menuVars
<1>3. CASE NewInstance
  <2>1. player' \in Pose
    BY <1>3, AtRestIsPose DEF NewInstance
  <2> QED
    BY <1>3, <2>1 DEF Inv, TypeOK, NewInstance, SoftPausedIsFlagged,
         LastKnownIsSettled, DesiredTimeIsAsked, WarpIsAlone, posVars, timeVars,
         saveVars, menuVars
<1> QED
  BY <1>1, <1>2, <1>3

\* A frame of the menu keeps the invariant, whatever widget is used.
LEMMA DrawFrameInv == Inv /\ DrawFrame => Inv'
<1> SUFFICES ASSUME Inv, DrawFrame PROVE Inv'
  OBVIOUS
<1> USE DEF Inv, SoftPausedIsFlagged, LastKnownIsSettled, DesiredTimeIsAsked,
            WarpIsAlone, TypeOK, gameVars, posVars, timeVars, saveVars
<1>1. CASE MenuIdle
  BY <1>1 DEF MenuIdle, MenuFrame, Reopened
<1>2. CASE MenuSave
  <2>1. savedPos' \in Transform
    BY <1>2, PoseExcept DEF MenuSave
  <2>2. savedTime' \in Times \cup {NoTime}
    BY <1>2 DEF MenuSave, SavePosTime
  <2> QED
    BY <1>2, <2>1, <2>2 DEF MenuSave, MenuFrame, Reopened
<1>3. CASE MenuLoad
  <2>1. desired' \in Pose
    BY <1>3, AtRestIsPose DEF MenuLoad
  <2>2. CASE LoadsTime(savedTime)
    BY <1>3, <2>1, <2>2 DEF MenuLoad, MenuFrame
  <2>3. CASE ~LoadsTime(savedTime)
    BY <1>3, <2>1, <2>3 DEF MenuLoad, MenuFrame
  <2> QED
    BY <2>2, <2>3
<1>4. CASE MenuDrag
  <2>1. PICK t \in Moves(lastKnown.xf) : desired' = [lastKnown EXCEPT !.xf = t]
    BY <1>4 DEF MenuDrag
  <2>2. t \in Transform
    BY TransformAssumption, PoseExcept
  <2>3. desired' \in Pose
    BY <2>1, <2>2, PoseExcept
  <2> QED
    BY <1>4, <2>3 DEF MenuDrag, MenuFrame
<1>5. ASSUME NEW option \in Options, MenuCheckbox(option)
      PROVE  Inv'
  <2>1. config' \in [ConfigFields -> BOOLEAN]
    BY <1>5, OptionsAssumption DEF MenuCheckbox
  <2> QED
    BY <1>5, <2>1 DEF MenuCheckbox, MenuFrame, Reopened
<1>6. CASE MenuCloses
  BY <1>6, ZenonT(30) DEF MenuCloses
<1>7. CASE MenuWarp
  BY <1>7, ZenonT(30) DEF MenuWarp, OpenAfterWarp
<1> QED
  BY <1>1, <1>2, <1>3, <1>4, <1>5, <1>6, <1>7 DEF DrawFrame

\* So does a step that changes nothing.
LEMMA StutterInv == Inv /\ UNCHANGED vars => Inv'
BY DEF Inv, TypeOK, SoftPausedIsFlagged, LastKnownIsSettled, DesiredTimeIsAsked,
       WarpIsAlone, vars, gameVars, posVars, timeVars, saveVars, menuVars

\* Every step keeps the invariant.
LEMMA NextInv == Inv /\ [Next]_vars => Inv'
<1> SUFFICES ASSUME Inv, [Next]_vars PROVE Inv'
  OBVIOUS
<1>1. CASE ProcessInput
  BY <1>1, LoadsInv, HotKeysInv, FreezesInv DEF ProcessInput
<1>2. CASE OrigReturns \/ GameMainLoop \/ DrawFrame
  BY <1>2, OrigReturnsInv, GameMainLoopInv, DrawFrameInv
<1>3. CASE Physics \/ InstanceEnds \/ NewInstance
  BY <1>3, GameInv
<1>4. CASE UNCHANGED vars
  BY <1>4, StutterInv
<1> QED
  BY <1>1, <1>2, <1>3, <1>4 DEF Next

-----------------------------------------------------------------------------
\* The invariant holds in every reachable state: every variable keeps its type
\* (no -1 ever reaches the play time), and a game the mod paused is flagged.
THEOREM Invariance == Spec => []Inv
<1>1. Inv /\ [Next]_vars => Inv'
  BY NextInv
<1> QED
  BY InitInv, <1>1, PTL DEF Spec

\* Every variable keeps its type; in particular the sentinel -1 of desiredTime
\* never reaches the game's play time.
THEOREM TypeCorrect == Spec => []TypeOK
<1>1. Inv => TypeOK
  BY DEF Inv
<1> QED
  BY Invariance, <1>1, PTL

\* A game the mod paused has is_time_stopped set.
THEOREM PausedGamesAreFlagged == Spec => []SoftPausedIsFlagged
<1>1. Inv => SoftPausedIsFlagged
  BY DEF Inv
<1> QED
  BY Invariance, <1>1, PTL

-----------------------------------------------------------------------------
\* Only ProcessInput calls Orig.
LEMMA OnlyProcessInputCalls ==
  ASSUME [Next]_vars, CallsOrig
  PROVE  ProcessInput
<1>1. CASE DrawFrame
  BY <1>1 DEF DrawFrame, CallsOrig, MenuFrame, MenuIdle, MenuSave, MenuLoad,
       MenuDrag, MenuCheckbox, MenuCloses, MenuWarp, gameVars
<1>2. CASE OrigReturns \/ GameMainLoop \/ Physics \/ InstanceEnds \/ NewInstance
  BY <1>2 DEF CallsOrig, OrigReturns, GameMainLoop, Physics, InstanceEnds,
       NewInstance
<1>3. CASE UNCHANGED vars
  BY <1>3 DEF CallsOrig, vars, gameVars
<1> QED
  BY <1>1, <1>2, <1>3 DEF Next

\* The freeze holds: with the menu open and nothing asked, the player is handed
\* to the game as ProcessInput last left it.
THEOREM Freeze == Spec => FreezeHolds
<1>1. Inv /\ [Next]_vars =>
        (CallsOrig /\ toggleInput /\ ~hasDesiredPositionData
           => player' = settled \/ config["pos_edit"])
  <2> SUFFICES ASSUME Inv, [Next]_vars, CallsOrig, toggleInput,
                      ~hasDesiredPositionData, ~config["pos_edit"]
               PROVE  player' = settled
    OBVIOUS
  <2>1. ProcessInputFreezes
    BY OnlyProcessInputCalls DEF ProcessInput, ProcessInputLoads,
         ProcessInputHotKeys
  <2>2. CallOrig(lastKnown, lastKnown)
    BY <2>1 DEF ProcessInputFreezes
  <2>3. player' = lastKnown
    BY <2>2 DEF CallOrig, TurnsPlayer
  <2> QED
    BY <2>3 DEF Inv, LastKnownIsSettled, CallsOrig
<1> QED
  BY Invariance, <1>1, PTL DEF Spec, FreezeHolds

\* One request for a time loads at most once, and none loads unasked.
THEOREM TimeLoadsAreAsked == Spec => NoDoubleTimeLoad
<1>1. Inv /\ [Next]_vars => (CallsOrig /\ playTime' # playTime => asked)
  <2> SUFFICES ASSUME Inv, [Next]_vars, CallsOrig, playTime' # playTime
               PROVE  asked
    OBVIOUS
  <2>1. playTime' = PlayTimeAfter
    BY OnlyProcessInputCalls DEF ProcessInput, ProcessInputLoads,
         ProcessInputHotKeys, ProcessInputFreezes, EnterProcessInput
  <2> QED
    BY <2>1 DEF PlayTimeAfter, TimeDue, Inv, DesiredTimeIsAsked
<1> QED
  BY Invariance, <1>1, PTL DEF Spec, NoDoubleTimeLoad

\* A new player warped to is left where the game spawned it, while time runs.
THEOREM WarpsArriveUndisturbed == Spec => SpawnUndisturbed
<1>1. Inv /\ [Next]_vars =>
        (CallsOrig /\ warp = "arrived" /\ ~isTimeStopped => player' = player)
  <2> SUFFICES ASSUME Inv, [Next]_vars, CallsOrig, warp = "arrived",
                      ~isTimeStopped
               PROVE  player' = player
    OBVIOUS
  <2>1. ~hasDesiredPositionData /\ ~toggleInput
    BY DEF Inv, WarpIsAlone
  <2>2. PICK held \in SUBSET {"loadPos", "savePos", "loadTime", "saveTime"} :
          ProcessInputHotKeys(held)
    BY <2>1, OnlyProcessInputCalls DEF ProcessInput, ProcessInputLoads,
         ProcessInputFreezes
  <2>3. CallOrig(player, lastKnown)
    BY <2>2 DEF ProcessInputHotKeys
  <2> QED
    BY <2>3 DEF CallOrig, TurnsPlayer
<1> QED
  BY Invariance, <1>1, PTL DEF Spec, SpawnUndisturbed

\* A pending position request decides where the player is when the game starts
\* its own processing, while time runs or the menu is open.
THEOREM LoadsLand == Spec => LoadLands
<1>1. [Next]_vars =>
        (CallsOrig /\ hasDesiredPositionData /\ (toggleInput \/ ~isTimeStopped)
           => player' = desired)
  <2> SUFFICES ASSUME [Next]_vars, CallsOrig, hasDesiredPositionData,
                      toggleInput \/ ~isTimeStopped
               PROVE  player' = desired
    OBVIOUS
  <2>1. ProcessInputLoads
    BY OnlyProcessInputCalls DEF ProcessInput, ProcessInputHotKeys,
         ProcessInputFreezes
  <2> QED
    BY <2>1 DEF ProcessInputLoads, CallOrig, TurnsPlayer
<1> QED
  BY <1>1, PTL DEF Spec, LoadLands
=============================================================================
