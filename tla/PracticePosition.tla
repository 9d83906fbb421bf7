-------------------------- MODULE PracticePosition --------------------------
(***************************************************************************)
(* The practice core of the mod: saving and loading the player's position  *)
(* and the play time, freezing the player while the menu is open, stopping *)
(* time (photo mode) and warping to another room.                          *)
(*                                                                         *)
(* Two call sites drive it.  The game calls the hooked                     *)
(* CPlayerMP1::ProcessInput and GameMainLoop once per tick; the renderer   *)
(* calls drawDebugWindow once per presented frame.  They share plain       *)
(* globals (namespace GUI, PATCH_CONFIG, InputHelper::toggleInput), and    *)
(* nothing in the source orders one against the other, so the two          *)
(* interleave freely here, also while ProcessInput is inside Orig.         *)
(*                                                                         *)
(* Abstracted: a pose is a transform with one motion value standing for    *)
(* the velocity and the angular velocity, which the code always reads and  *)
(* writes together.  The numbers shown by the monitor window, the free     *)
(* look pitch and the health refill of the hook's tail are left out.       *)
(***************************************************************************)
EXTENDS Integers

CONSTANTS
  Transform,      \* CTransform4f values
  Identity,       \* CTransform4f::Identity(), the first saved position
  Rotations(_),   \* the transforms a local rotation makes of a transform
  Moves(_),       \* the transforms that differ from it in x, y, z only
  Motion,         \* velocity and angular velocity
  Still,          \* both zero
  MaxTime,        \* bound: the play time counts up to this value
  LoadedSettings, \* bound: what loadConfig may have read
  Options         \* bound: the checkboxes the user touches

ConfigFields == {"pos_edit", "load_time_with_pos", "load_time_separately",
                 "enable_stop_time", "hide_hud_when_time_stopped"}

ASSUME TransformAssumption ==
  /\ Identity \in Transform
  /\ \A t \in Transform : Rotations(t) \subseteq Transform
  /\ \A t \in Transform : Moves(t) \subseteq Transform
ASSUME MotionAssumption == Still \in Motion
ASSUME TimeAssumption == MaxTime \in Nat
ASSUME OptionsAssumption ==
  /\ LoadedSettings \subseteq [ConfigFields -> BOOLEAN]
  /\ Options \subseteq ConfigFields

NoTime == -1      \* the "nothing saved" value of savedTime and desiredTime

Pose == [xf : Transform, motion : Motion]
Times == 0 .. MaxTime

VARIABLES
  \* the game, seen through the calls the hooks make
  playing,        \* a game instance with a player exists
  player,         \* the player's pose
  playTime,       \* CGameState::GetPlayTime()
  gameState,      \* CStateManagerGameLogicMP1's EGameState
  inProcessInput, \* the hook has called Orig and not returned yet
  \* namespace GUI and the other globals of the mod
  hasDesiredPositionData, desired,   \* position request and its pose
  hasDesiredTimeData, desiredTime,   \* time request and its value
  savedPos, savedTime,               \* what Save and Save time recorded
  lastKnown,      \* lastKnownTransform and lastKnown(Angular)Velocity
  igt,            \* play time as of the last ProcessInput
  isTimeStopped,  \* is_time_stopped
  toggleInput,    \* InputHelper::toggleInput: the menu is open
  config,         \* PATCH_CONFIG
  managerSet,     \* mostRecentStateManager # nullptr
  \* observations, read by properties only
  settled,        \* pose of the player when ProcessInput last returned
  asked,          \* a time load was asked for since the last one was made
  warp            \* a warp was picked with no position request pending, and
                  \* since then the user asked for nothing: "picked" in the
                  \* old game instance, "arrived" before the new player's
                  \* first ProcessInput

gameVars == <<playing, player, playTime, gameState, inProcessInput>>
posVars == <<hasDesiredPositionData, desired>>
timeVars == <<hasDesiredTimeData, desiredTime>>
saveVars == <<savedPos, savedTime>>
menuVars == <<toggleInput, config>>
vars == <<gameVars, posVars, timeVars, saveVars, lastKnown, igt,
          isTimeStopped, menuVars, managerSet, settled, asked, warp>>

TypeOK ==
  /\ playing \in BOOLEAN
  /\ player \in Pose
  /\ playTime \in Times
  /\ gameState \in {"Running", "SoftPaused"}
  /\ inProcessInput \in BOOLEAN
  /\ hasDesiredPositionData \in BOOLEAN
  /\ desired \in Pose
  /\ hasDesiredTimeData \in BOOLEAN
  /\ desiredTime \in Times \cup {NoTime}
  /\ savedPos \in Transform
  /\ savedTime \in Times \cup {NoTime}
  /\ lastKnown \in Pose
  /\ igt \in Times
  /\ isTimeStopped \in BOOLEAN
  /\ toggleInput \in BOOLEAN
  /\ config \in [ConfigFields -> BOOLEAN]
  /\ managerSet \in BOOLEAN
  /\ settled \in Pose
  /\ asked \in BOOLEAN
  /\ warp \in {"none", "picked", "arrived"}

AtRest(t) == [xf |-> t, motion |-> Still]

(***************************************************************************)
(* The mod starts with no game running; loadConfig has read any settings.  *)
(***************************************************************************)
Init ==
  /\ playing = FALSE
  /\ player = AtRest(Identity)
  /\ playTime = 0
  /\ gameState = "Running"
  /\ inProcessInput = FALSE
  /\ hasDesiredPositionData = FALSE
  /\ desired = AtRest(Identity)
  /\ hasDesiredTimeData = FALSE
  /\ desiredTime = NoTime
  /\ savedPos = Identity
  /\ savedTime = NoTime
  /\ lastKnown = AtRest(Identity)
  /\ igt = 0
  /\ isTimeStopped = FALSE
  /\ toggleInput = FALSE
  /\ config \in LoadedSettings
  /\ managerSet = FALSE
  /\ settled = AtRest(Identity)
  /\ asked = FALSE
  /\ warp = "none"

-----------------------------------------------------------------------------
(***************************************************************************)
(* PlayerMenu.cpp: the operations behind the buttons and the menu.  Each   *)
(* is called from ProcessInput (hot keys) or from the menu, with the       *)
(* globals as the caller left them.                                        *)
(***************************************************************************)

\* loadPos also asks for the saved time: there is one, and the option is on.
LoadsTime(saved) == saved > 0 /\ config["load_time_with_pos"]

\* What savePos and saveTime leave in savedTime when the play time is t.
SavePosTime(saved, t) == IF config["load_time_with_pos"] THEN t ELSE saved
SaveTimeTime(saved, t) == IF config["load_time_separately"] THEN t ELSE saved

-----------------------------------------------------------------------------
(***************************************************************************)
(* The hook of CPlayerMP1::ProcessInput, up to its call of Orig.           *)
(***************************************************************************)

\* A time request is taken up: the sentinel and the flag are both tested.
Bug_TimeDueIgnoresSentinel == hasDesiredTimeData
TimeDue == desiredTime > 0 /\ hasDesiredTimeData

\* The play time ProcessInput leaves.
PlayTimeAfter ==
  IF TimeDue /\ (config["load_time_with_pos"] \/ config["load_time_separately"])
  THEN desiredTime ELSE playTime

\* What is left of the time request ("safety so we don't double-load").
Bug_TimeRequestKept == [flag |-> hasDesiredTimeData, time |-> desiredTime]
TimeRequestLeft ==
  IF TimeDue THEN [flag |-> FALSE, time |-> NoTime]
             ELSE [flag |-> hasDesiredTimeData, time |-> desiredTime]

\* What is left of a position request that was taken up.
PositionRequestLeft == FALSE

\* The right stick turns the player.
Bug_TurnsBehindMenu == isTimeStopped
TurnsPlayer == ~toggleInput /\ isTimeStopped

\* Orig is called with the player at pose, lastKnown being known.  A player that
\* is turned gets its transform from lastKnown.
CallOrig(pose, known) ==
  /\ inProcessInput' = TRUE
  /\ \/ /\ ~TurnsPlayer
        /\ player' = pose
        /\ lastKnown' = known
     \/ /\ TurnsPlayer
        /\ \E t \in Rotations(known.xf) :
             /\ player' = [pose EXCEPT !.xf = t]
             /\ lastKnown' = [known EXCEPT !.xf = t]

\* Every call of the hook: remember the state manager and the play time, and
\* take up a time request.
EnterProcessInput ==
  /\ playing /\ ~inProcessInput
  /\ managerSet' = TRUE
  /\ igt' = playTime
  /\ playTime' = PlayTimeAfter
  /\ UNCHANGED <<playing, gameState, isTimeStopped, menuVars, settled>>

LeaveTimeRequest ==
  /\ hasDesiredTimeData' = TimeRequestLeft.flag
  /\ desiredTime' = TimeRequestLeft.time

\* A position request is pending: put the player there.
ProcessInputLoads ==
  /\ EnterProcessInput
  /\ hasDesiredPositionData
  /\ hasDesiredPositionData' = PositionRequestLeft
  /\ CallOrig(desired, lastKnown)
  /\ LeaveTimeRequest
  /\ asked' = (asked /\ ~TimeDue)
  /\ warp' = "none"
  /\ UNCHANGED <<desired, saveVars>>

\* The menu is closed: the hot keys held this tick act in the order load
\* position, save position, load time, save time.
ProcessInputHotKeys(held) ==
  LET loads == "loadPos" \in held
      timed == loads /\ LoadsTime(savedTime)
      savedBySave == IF "savePos" \in held THEN SavePosTime(savedTime, igt')
                                          ELSE savedTime
      loadsTime == "loadTime" \in held /\ config["load_time_separately"]
  IN
  /\ EnterProcessInput
  /\ ~hasDesiredPositionData /\ ~toggleInput
  /\ hasDesiredPositionData' = loads
  /\ desired' = IF loads THEN AtRest(savedPos) ELSE desired
  /\ savedPos' = IF "savePos" \in held THEN lastKnown.xf ELSE savedPos
  /\ hasDesiredTimeData' = (TimeRequestLeft.flag \/ timed \/ loadsTime)
  /\ desiredTime' = CASE loadsTime           -> savedBySave
                      [] timed /\ ~loadsTime -> savedTime
                      [] OTHER               -> TimeRequestLeft.time
  /\ savedTime' = IF "saveTime" \in held THEN SaveTimeTime(savedBySave, igt')
                                         ELSE savedBySave
  /\ CallOrig(player, lastKnown)
  /\ asked' = ((asked /\ ~TimeDue) \/ timed \/ (loadsTime /\ savedBySave > 0))
  /\ warp' = IF loads /\ warp = "picked" THEN "none"
             ELSE IF warp = "arrived" THEN "none" ELSE warp

\* The menu is open: the player is put back where ProcessInput last left it,
\* after the position editor (ZR held) moved and turned that place.
ProcessInputFreezes ==
  /\ EnterProcessInput
  /\ ~hasDesiredPositionData /\ toggleInput
  /\ \/ CallOrig(lastKnown, lastKnown)
     \/ /\ config["pos_edit"]
        /\ \E moved \in Moves(lastKnown.xf) : \E t \in Rotations(moved) :
             CallOrig([lastKnown EXCEPT !.xf = t], [lastKnown EXCEPT !.xf = t])
  /\ LeaveTimeRequest
  /\ asked' = (asked /\ ~TimeDue)
  /\ warp' = IF warp = "arrived" THEN "none" ELSE warp
  /\ UNCHANGED <<posVars, saveVars>>

(***************************************************************************)
(* Orig turns the player and sets its motion from the input, and the hook  *)
(* records where it stands.                                                *)
(***************************************************************************)
Bug_RecordedBeforeOrig == player
RecordedPose == player'
OrigReturns ==
  /\ inProcessInput
  /\ inProcessInput' = FALSE
  /\ \E t \in Rotations(player.xf), m \in Motion :
       /\ player' = [xf |-> t, motion |-> m]
       /\ lastKnown' = RecordedPose
       /\ settled' = player'
  /\ UNCHANGED <<playing, playTime, gameState, posVars, timeVars, saveVars, igt,
                 isTimeStopped, menuVars, managerSet, asked, warp>>

ProcessInput ==
  \/ ProcessInputLoads
  \/ \E held \in SUBSET {"loadPos", "savePos", "loadTime", "saveTime"} :
       ProcessInputHotKeys(held)
  \/ ProcessInputFreezes

(***************************************************************************)
(* The hook of GameMainLoop, on a tick whose pad state holds the chord.    *)
(***************************************************************************)
Bug_StateAfterFlip == IF isTimeStopped THEN "SoftPaused" ELSE "Running"
NewGameState == IF isTimeStopped THEN "Running" ELSE "SoftPaused"
GameMainLoop ==
  /\ playing /\ ~inProcessInput
  /\ config["enable_stop_time"]
  /\ gameState' = NewGameState
  /\ isTimeStopped' = ~isTimeStopped
  /\ UNCHANGED <<playing, player, playTime, inProcessInput, posVars, timeVars,
                 saveVars, lastKnown, igt, menuVars, managerSet, settled,
                 asked, warp>>

-----------------------------------------------------------------------------
(***************************************************************************)
(* The game itself, external to the mod: while it runs it moves the player *)
(* and counts the play time; instances end (warp, death, reset) and new    *)
(* ones spawn a player somewhere, running.                                 *)
(***************************************************************************)
Physics ==
  /\ playing /\ ~inProcessInput
  /\ gameState = "Running"
  /\ player' \in Pose
  /\ playTime' \in {playTime, playTime + 1} \cap Times
  /\ UNCHANGED <<playing, gameState, inProcessInput, posVars, timeVars,
                 saveVars, lastKnown, igt, isTimeStopped, menuVars,
                 managerSet, settled, asked, warp>>

InstanceEnds ==
  /\ playing /\ ~inProcessInput
  /\ playing' = FALSE
  /\ UNCHANGED <<player, playTime, gameState, inProcessInput, posVars,
                 timeVars, saveVars, lastKnown, igt, isTimeStopped, menuVars,
                 managerSet, settled, asked, warp>>

NewInstance ==
  /\ ~playing
  /\ playing' = TRUE
  /\ player' \in {AtRest(t) : t \in Transform}
  /\ playTime' \in Times
  /\ gameState' = "Running"
  /\ warp' = IF warp = "picked" THEN "arrived" ELSE warp
  /\ UNCHANGED <<inProcessInput, posVars, timeVars, saveVars, lastKnown, igt,
                 isTimeStopped, menuVars, managerSet, settled, asked>>

-----------------------------------------------------------------------------
(***************************************************************************)
(* drawDebugWindow.  The chord of the pad may have flipped toggleInput     *)
(* just before; a frame that leaves the menu open shows it, with at most   *)
(* one widget used.                                                        *)
(***************************************************************************)
MenuFrame ==
  /\ toggleInput' = TRUE
  /\ UNCHANGED <<gameVars, lastKnown, igt, isTimeStopped, managerSet, settled>>

\* Any sign of the user ends the wait for a warp to arrive undisturbed.
Reopened == IF toggleInput THEN warp ELSE "none"

MenuIdle ==
  /\ MenuFrame
  /\ warp' = Reopened
  /\ UNCHANGED <<posVars, timeVars, saveVars, config, asked>>

MenuSave ==
  /\ MenuFrame
  /\ savedPos' = lastKnown.xf
  /\ savedTime' = SavePosTime(savedTime, igt)
  /\ warp' = Reopened
  /\ UNCHANGED <<posVars, timeVars, config, asked>>

MenuLoad ==
  /\ MenuFrame
  /\ desired' = AtRest(savedPos)
  /\ hasDesiredPositionData' = TRUE
  /\ IF LoadsTime(savedTime)
     THEN desiredTime' = savedTime /\ hasDesiredTimeData' = TRUE /\ asked' = TRUE
     ELSE UNCHANGED <<timeVars, asked>>
  /\ warp' = "none"
  /\ UNCHANGED <<saveVars, config>>

MenuDrag ==
  /\ MenuFrame
  /\ \E t \in Moves(lastKnown.xf) : desired' = [lastKnown EXCEPT !.xf = t]
  /\ hasDesiredPositionData' = TRUE
  /\ warp' = "none"
  /\ UNCHANGED <<timeVars, saveVars, config, asked>>

MenuCheckbox(option) ==
  /\ MenuFrame
  /\ config' = [config EXCEPT ![option] = ~config[option]]
  /\ warp' = Reopened
  /\ UNCHANGED <<posVars, timeVars, saveVars, asked>>

\* The chord, or a click on the collapse arrow, closes the menu.
MenuCloses ==
  /\ toggleInput
  /\ toggleInput' = FALSE
  /\ warp' = "none"
  /\ UNCHANGED <<gameVars, posVars, timeVars, saveVars, lastKnown, igt,
                 isTimeStopped, config, managerSet, settled, asked>>

\* What a pick in the warp menu leaves of the menu: drawWarpMenu collapses the
\* window, drawDebugWindow copies that.
Bug_OpenAfterWarp == TRUE
OpenAfterWarp == FALSE

\* Picking a room: warpToRoom does nothing without a state manager, otherwise
\* it names the room to the game and quits the instance (see InstanceEnds).
MenuWarp ==
  /\ toggleInput' = OpenAfterWarp
  /\ warp' = IF managerSet /\ ~hasDesiredPositionData THEN "picked" ELSE "none"
  /\ UNCHANGED <<gameVars, posVars, timeVars, saveVars, lastKnown, igt,
                 isTimeStopped, config, managerSet, settled, asked>>

DrawFrame ==
  \/ MenuIdle
  \/ MenuSave
  \/ MenuLoad
  \/ MenuDrag
  \/ \E option \in Options : MenuCheckbox(option)
  \/ MenuCloses
  \/ MenuWarp

-----------------------------------------------------------------------------
Next == ProcessInput \/ OrigReturns \/ GameMainLoop
        \/ Physics \/ InstanceEnds \/ NewInstance \/ DrawFrame

Spec == Init /\ [][Next]_vars

-----------------------------------------------------------------------------
CallsOrig == ~inProcessInput /\ inProcessInput'

\* While the menu is open and neither a load nor the position editor is used,
\* ProcessInput hands the player to the game exactly as it last left it,
\* whatever the game did in between (the freeze of ProcessInput's else branch).
FreezeHolds ==
  [][CallsOrig /\ toggleInput /\ ~hasDesiredPositionData
       => player' = settled \/ config["pos_edit"]]_vars

\* The play time only jumps in ProcessInput when a time load was asked for since
\* the last jump: one request is never loaded twice, and a request made before
\* anything was saved (savedTime still -1) never loads.
NoDoubleTimeLoad == [][CallsOrig /\ playTime' # playTime => asked]_vars

\* A pending position request decides where the player is when the game's own
\* input processing starts, provided time runs or the menu is open.
LoadLands ==
  [][CallsOrig /\ hasDesiredPositionData /\ (toggleInput \/ ~isTimeStopped)
       => player' = desired]_vars

\* After a warp picked in the menu the new player starts where the game spawned
\* it: nothing kept from the old room moves it, while time runs.
SpawnUndisturbed ==
  [][CallsOrig /\ warp = "arrived" /\ ~isTimeStopped => player' = player]_vars

\* A game the mod paused is known to be paused: otherwise no chord would resume
\* it, and its HUD would not be hidden.
SoftPausedIsFlagged == gameState = "SoftPaused" => isTimeStopped

-----------------------------------------------------------------------------
\* What the documentation says and the code does not do.

\* README: "Load position: R + ZR + D-Up".  With time stopped and the menu
\* closed ProcessInput overwrites the loaded transform with lastKnown.
LoadAlwaysLands ==
  [][CallsOrig /\ hasDesiredPositionData => player'.xf = desired.xf]_vars
=============================================================================
