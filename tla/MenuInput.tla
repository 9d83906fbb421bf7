------------------------------ MODULE MenuInput ------------------------------
(***************************************************************************)
(* The controller, the menu window and the game's view of the controller.  *)
(*                                                                         *)
(* Once per presented frame procDraw samples the pad (InputHelper, called  *)
(* by newFrame), hands it to ImGui and draws the menu window, which ends   *)
(* by copying the window's collapsed state back to toggleInput.  The game  *)
(* reads the pad through the hooked GetNpadStates, which blanks it behind  *)
(* an open menu, and reads the sampled edges once per tick for the chord   *)
(* that stops time.  Nothing orders the game's threads against the         *)
(* renderer's: they read and tick at any moment of a frame.                *)
(*                                                                         *)
(* Abstracted: a window position is a place on the screen, a place off its *)
(* left edge or the hidden place (-1600, 10); one action of the user on    *)
(* the window per frame; mouse, touch and keyboard, the sticks' axes; a    *)
(* callback of the game is one step; enable_stop_time is on.               *)
(***************************************************************************)
EXTENDS Integers

CONSTANTS
  Button,      \* bound: the buttons told apart
  Place,       \* bound: window positions with pos.x >= 0
  Hidden,      \* where drawDebugWindow puts a closed window
  OffLeft      \* any other position with pos.x < 0

AllButtons == {"StickL", "StickR", "L", "Y"}
npad_mapping == {"L", "Y"} \cap Button     \* the buttons ImGui is told of

ASSUME ButtonAssumption == Button \subseteq AllButtons
ASSUME PlaceAssumption ==
  /\ Place # {}
  /\ Hidden \notin Place /\ OffLeft \notin Place /\ Hidden # OffLeft

Position == Place \cup {Hidden, OffLeft}

VARIABLES
  held,           \* the buttons the player holds
  \* InputHelper
  cur, prev,      \* curControllerState, prevControllerState
  isReadInput, toggleInput,
  \* procDraw: between frames ("game"), in tryGetContState before and after its
  \* first read of the pad ("sampling", "reading"), or past newFrame ("sampled")
  phase,
  \* ImGui and drawDebugWindow
  keysDown,       \* the gamepad keys ImGui takes to be down
  window,         \* position of the window
  collapsed,
  wasJustOpened,
  menuPos,        \* PATCH_CONFIG.menuX, menuY
  \* the game
  isTimeStopped,  \* GUI::is_time_stopped
  gameSees,       \* whether a button was held in the newest and in an older one
                  \* of the states the game last read
  \* observations, read by properties only
  menuChordSpent, \* the sticks flipped the menu and are held since
  timeChordActed, \* the time chord acted on the last sample
  timeChordSpent  \* it acted on an earlier one and was held in all since

helperVars == <<cur, prev, isReadInput>>
windowVars == <<keysDown, window, collapsed, wasJustOpened, menuPos>>
gameVars == <<isTimeStopped, gameSees>>
spent == <<menuChordSpent, timeChordActed, timeChordSpent>>
vars == <<held, helperVars, toggleInput, phase, windowVars, gameVars, spent>>

TypeOK ==
  /\ held \subseteq Button
  /\ cur \subseteq Button /\ prev \subseteq Button
  /\ isReadInput \in BOOLEAN /\ toggleInput \in BOOLEAN
  /\ phase \in {"game", "sampling", "reading", "sampled"}
  /\ keysDown \subseteq npad_mapping
  /\ window \in Position
  /\ collapsed \in BOOLEAN /\ wasJustOpened \in BOOLEAN
  /\ menuPos \in Place
  /\ isTimeStopped \in BOOLEAN
  /\ gameSees \in [newest : BOOLEAN, older : BOOLEAN]
  /\ menuChordSpent \in BOOLEAN
  /\ timeChordActed \in BOOLEAN /\ timeChordSpent \in BOOLEAN

\* Before the first frame: settings.json and imgui.ini may have been read.
Init ==
  /\ held = {} /\ cur = {} /\ prev = {}
  /\ isReadInput = TRUE /\ toggleInput = FALSE
  /\ phase = "game"
  /\ keysDown = {}
  /\ window \in Position /\ collapsed \in BOOLEAN
  /\ wasJustOpened = FALSE
  /\ menuPos \in Place
  /\ isTimeStopped = FALSE
  /\ gameSees = [newest |-> FALSE, older |-> FALSE]
  /\ menuChordSpent = FALSE
  /\ timeChordActed = FALSE /\ timeChordSpent = FALSE

-----------------------------------------------------------------------------
\* The player presses or lets go of a button, at any moment.
PlayerMoves(b) ==
  /\ held' = IF b \in held THEN held \ {b} ELSE held \cup {b}
  /\ UNCHANGED <<helperVars, toggleInput, phase, windowVars, gameVars, spent>>

\* isButtonPress and isButtonRelease: edges between two samples.
Bug_HeldIsPressed(b, now, before) == b \in now
isButtonPress(b, now, before) == b \in now /\ b \notin before
isButtonRelease(b, now, before) == b \notin now /\ b \in before

\* One of the sticks is clicked while the other one is held.
MenuChord(now, before) ==
  \/ "StickL" \in now /\ isButtonPress("StickR", now, before)
  \/ "StickR" \in now /\ isButtonPress("StickL", now, before)

BothSticks == {"StickL", "StickR"}
StickAndL == {"StickL", "L"}

\* The hooks of GetNpadStates: what they make of a state that is read, by the
\* game or by InputHelper itself.
disableButtons(state) == IF ~isReadInput /\ toggleInput THEN {} ELSE state

\* What tryGetContState sets isReadInput to before it reads.
Bug_ReadsAsTheGame == FALSE
ReadingBefore == TRUE

\* updatePadState enters tryGetContState.
BeginSample ==
  /\ phase = "game"
  /\ phase' = "sampling"
  /\ prev' = cur
  /\ isReadInput' = ReadingBefore
  /\ timeChordActed' = FALSE
  /\ timeChordSpent' = (/\ timeChordSpent \/ timeChordActed
                        /\ StickAndL \subseteq cur)
  /\ UNCHANGED <<held, cur, toggleInput, windowVars, gameVars, menuChordSpent>>

\* The pad is read as a Pro Controller first, and shows no button if it is none.
ReadFullKey ==
  /\ phase = "sampling"
  /\ phase' = "reading"
  /\ cur' \in {disableButtons(held), {}}
  /\ UNCHANGED <<held, prev, isReadInput, toggleInput, windowVars, gameVars, spent>>

\* What tryGetContState leaves in isReadInput.
Bug_StillReading == TRUE
ReadingAfter == FALSE

\* updateGamepad: ImGui hears of the edges, while the menu is open.
KeysAfter(now, before, open) ==
  IF open
  THEN {b \in npad_mapping : \/ isButtonPress(b, now, before)
                             \/ b \in keysDown /\ ~isButtonRelease(b, now, before)}
  ELSE keysDown

\* It is read as what it is, if its style is known; tryGetContState returns, the
\* chord is tested, updateInput runs.
EndSample(known) ==
  /\ phase = "reading"
  /\ phase' = "sampled"
  /\ cur' = IF known THEN disableButtons(held) ELSE cur
  /\ isReadInput' = ReadingAfter
  /\ toggleInput' = (toggleInput # MenuChord(cur', prev))
  /\ keysDown' = KeysAfter(cur', prev, toggleInput')
  /\ menuChordSpent' = (/\ BothSticks \subseteq cur'
                        /\ menuChordSpent \/ MenuChord(cur', prev))
  /\ timeChordSpent' = (timeChordSpent /\ StickAndL \subseteq cur')
  /\ UNCHANGED <<held, prev, window, collapsed, wasJustOpened, menuPos, gameVars,
                 timeChordActed>>

-----------------------------------------------------------------------------
(***************************************************************************)
(* drawDebugWindow.  Before it, ImGui has moved a dragged window; the      *)
(* window is shown if it was open at the last frame.                       *)
(***************************************************************************)

\* SetNextWindowCollapsed follows toggleInput.
NextCollapsed == ~toggleInput

\* SetNextWindowPos: where an opened window was left, where a closed one hides,
\* and nothing for one that stays open.
NextPosition(moved) ==
  CASE ~toggleInput                  -> Hidden
    [] toggleInput /\ ~wasJustOpened -> menuPos
    [] toggleInput /\ wasJustOpened  -> moved

\* wasJustOpened after the window was placed.
Bug_NeverReset == wasJustOpened \/ toggleInput
OpenedBefore == toggleInput

\* pos.x >= 0: the position is recorded.
Bug_RecordsAll(pos) == TRUE
Recorded(pos) == pos \in Place

\* moved: where the window is after ImGui::NewFrame.  clicked: the user folds
\* the window by its title bar.  body: Begin returns true, which it may also do
\* for a collapsed window that is still being sized.  warped: a room is picked.
DrawWindow(moved, clicked, body, warped) ==
  LET folded == NextCollapsed \/ clicked
      pos == NextPosition(moved)
  IN
  /\ phase = "sampled"
  /\ phase' = "game"
  /\ clicked => ~NextCollapsed /\ wasJustOpened
  /\ ~folded => body
  /\ warped => ~folded
  /\ window' = pos
  /\ wasJustOpened' = OpenedBefore
  /\ menuPos' = IF body /\ Recorded(pos) THEN pos ELSE menuPos
  /\ collapsed' = (folded \/ warped)
  /\ toggleInput' = ~collapsed'
  /\ UNCHANGED <<held, helperVars, keysDown, gameVars, spent>>

\* A window the user sees open may have been dragged since the last frame.
DraggedTo == IF wasJustOpened /\ ~collapsed THEN Place \cup {OffLeft} ELSE {window}

DrawUntouched == \E body \in BOOLEAN : DrawWindow(window, FALSE, body, FALSE)
DrawDragged == \E moved \in DraggedTo \ {window} : DrawWindow(moved, FALSE, TRUE, FALSE)
DrawFolded == \E body \in BOOLEAN : DrawWindow(window, TRUE, body, FALSE)
DrawWarped == DrawWindow(window, FALSE, TRUE, TRUE)

drawDebugWindow == DrawUntouched \/ DrawDragged \/ DrawFolded \/ DrawWarped

-----------------------------------------------------------------------------
\* The game reads the pad's last states, as many as it likes.  The hooks pass the
\* first of them, the newest, to disableButtons; older is in one of the others.
GameReadsPad(older) ==
  /\ gameSees' = [newest |-> disableButtons(held) # {}, older |-> older # {}]
  /\ UNCHANGED <<held, helperVars, toggleInput, phase, windowVars,
                 isTimeStopped, spent>>

\* GameMainLoop: the chord "left stick + L", from the sampled edges.
TimeChord ==
  \/ "StickL" \in cur /\ isButtonPress("L", cur, prev)
  \/ isButtonPress("StickL", cur, prev) /\ "L" \in cur

\* The game ticks, at any moment of a frame and as often as it likes.
GameMainLoop ==
  /\ isTimeStopped' = (isTimeStopped # TimeChord)
  /\ timeChordActed' = (timeChordActed \/ TimeChord)
  /\ UNCHANGED <<held, helperVars, toggleInput, phase, windowVars, gameSees,
                 menuChordSpent, timeChordSpent>>

Next ==
  \/ \E b \in Button : PlayerMoves(b)
  \/ BeginSample \/ ReadFullKey \/ drawDebugWindow
  \/ \E known \in BOOLEAN : EndSample(known)
  \/ \E older \in SUBSET Button : GameReadsPad(older)
  \/ GameMainLoop

Spec == Init /\ [][Next]_vars

-----------------------------------------------------------------------------
\* An open window stands where the settings say it was left, or where the user
\* dragged it off the left edge, and never at the hidden place, whatever folded it,
\* the chord, the title bar or a warp, and also if a folded one was still drawn
\* (drawDebugWindow's wasJustOpened, and its test pos.x >= 0 before it records).
OpensWhereLeft ==
  phase = "game" /\ toggleInput =>
    window = OffLeft \/ (window = menuPos /\ window # Hidden)

\* Holding both sticks flips the menu once, however many frames it lasts, also
\* when the title bar or a warp folds the window meanwhile.
OneFlipPerClick ==
  [][phase = "reading" /\ toggleInput' # toggleInput => ~menuChordSpent]_vars

\* A click of the sticks since the last sample flips the menu, an open one too,
\* though what InputHelper reads passes through the hooks that blank the pad
\* behind it (isReadInput while tryGetContState reads).
ClickFlips ==
  [][EndSample(TRUE) /\ MenuChord(held, prev) => toggleInput' # toggleInput]_vars

\* While a sample is taken the hooks blank nothing, for any thread.
Sampling == phase \in {"sampling", "reading"}

\* Behind an open menu the game's newest state of the pad has no button held,
\* except in a read that falls into a sample: isReadInput is one flag for all
\* threads, and such a read is not blanked.  Older states of the same read keep
\* their buttons.
GameSeesNothingBehindMenu ==
  [][gameSees' # gameSees /\ toggleInput /\ ~Sampling => ~gameSees'.newest]_vars

\* The chord that stops time may be held for any number of frames: once it has
\* acted, no later sample makes it act again.  On the sample it acted on it does:
\* a second tick before the next one undoes what the first one did.
HeldChordRests ==
  [][isTimeStopped' # isTimeStopped => ~timeChordSpent]_vars

=============================================================================
