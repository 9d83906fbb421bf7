--------------------------- MODULE MenuInput_proofs ---------------------------
(***************************************************************************)
(* The safety properties of MenuInput for every set of buttons and places. *)
(***************************************************************************)
EXTENDS MenuInput, TLAPS

(***************************************************************************)
(* The inductive invariant: what each phase of a frame leaves for the next *)
(* one.  A window opened before stands where it was recorded or off the    *)
(* left edge, an open menu was opened before; isReadInput is set while the *)
(* pad is read and reset by the time the menu can be open; a menu chord    *)
(* that acted is held in the last sample to be complete, a time chord that *)
(* acted also in the one before the current one.                           *)
(***************************************************************************)
LastSample == phase = "sampling" => prev = cur
ShownIsRecorded == wasJustOpened => window = menuPos \/ window = OffLeft
OpenWasOpened == phase = "game" /\ toggleInput => wasJustOpened
ReadingIsReset ==
  /\ Sampling => isReadInput
  /\ phase = "sampled" => ~isReadInput
  /\ phase = "game" /\ isReadInput => ~toggleInput
MenuChordIsHeld ==
  menuChordSpent => BothSticks \subseteq (IF phase = "reading" THEN prev ELSE cur)
TimeChordIsHeld == timeChordSpent => StickAndL \subseteq prev

Inv ==
  /\ TypeOK
  /\ LastSample
  /\ ShownIsRecorded
  /\ OpenWasOpened
  /\ ReadingIsReset
  /\ MenuChordIsHeld
  /\ TimeChordIsHeld

\* The states before the first frame satisfy the invariant.
LEMMA InitInv == Init => Inv
<1> SUFFICES ASSUME Init PROVE Inv
  OBVIOUS
<1>1. TypeOK
  BY DEF Init, TypeOK, Position
<1> QED
  BY <1>1 DEF Init, Inv, LastSample, ShownIsRecorded, OpenWasOpened,
       ReadingIsReset, Sampling, MenuChordIsHeld, TimeChordIsHeld

\* The player's hands touch nothing of it.
LEMMA PlayerInv ==
  ASSUME NEW b \in Button, Inv, PlayerMoves(b)
  PROVE  Inv'
<1>1. held' \subseteq Button
  BY DEF Inv, TypeOK, PlayerMoves
<1> QED
  BY <1>1 DEF Inv, TypeOK, Position, LastSample, ShownIsRecorded,
       OpenWasOpened, ReadingIsReset, MenuChordIsHeld, TimeChordIsHeld,
       Sampling, PlayerMoves, helperVars, windowVars, gameVars, spent

\* A sample begins: the last one becomes the one before.
LEMMA BeginInv == Inv /\ BeginSample => Inv'
<1> SUFFICES ASSUME Inv, BeginSample PROVE Inv'
  OBVIOUS
<1>1. timeChordSpent' \in BOOLEAN
  BY DEF BeginSample
<1>2. TypeOK'
  BY <1>1 DEF Inv, TypeOK, Position, BeginSample, ReadingBefore, windowVars,
       gameVars
<1>3. TimeChordIsHeld'
  BY DEF TimeChordIsHeld, BeginSample
<1> QED
  BY <1>2, <1>3 DEF Inv, LastSample, ShownIsRecorded, OpenWasOpened,
       ReadingIsReset, Sampling, MenuChordIsHeld, BeginSample, ReadingBefore,
       windowVars

\* The first read shows what is held, or nothing.
LEMMA FullKeyInv == Inv /\ ReadFullKey => Inv'
<1> SUFFICES ASSUME Inv, ReadFullKey PROVE Inv'
  OBVIOUS
<1>1. cur' \subseteq Button
  BY DEF Inv, TypeOK, ReadFullKey, disableButtons
<1>2. TypeOK'
  BY <1>1 DEF Inv, TypeOK, Position, ReadFullKey, windowVars, gameVars, spent
<1>3. MenuChordIsHeld' /\ TimeChordIsHeld'
  BY DEF Inv, LastSample, MenuChordIsHeld, TimeChordIsHeld, ReadFullKey, spent
<1> QED
  BY <1>2, <1>3 DEF Inv, LastSample, ShownIsRecorded, OpenWasOpened,
       ReadingIsReset, Sampling, ReadFullKey, windowVars

\* ImGui is told of mapped buttons only.
LEMMA KeysAreMapped ==
  ASSUME TypeOK, NEW now, NEW before, NEW open
  PROVE  KeysAfter(now, before, open) \subseteq npad_mapping
BY DEF KeysAfter, TypeOK

\* A sample ends: the chord that acted and is still held was held before.
LEMMA EndInv ==
  ASSUME NEW known \in BOOLEAN, Inv, EndSample(known)
  PROVE  Inv'
<1>1. keysDown' \subseteq npad_mapping
  BY KeysAreMapped DEF Inv, EndSample
<1>2. /\ toggleInput' \in BOOLEAN /\ menuChordSpent' \in BOOLEAN
      /\ timeChordSpent' \in BOOLEAN
  BY DEF EndSample
<1>3. cur' \subseteq Button
  BY DEF Inv, TypeOK, EndSample, disableButtons
<1>4. TypeOK'
  BY <1>1, <1>2, <1>3 DEF Inv, TypeOK, Position, EndSample, ReadingAfter, gameVars
<1>5. LastSample' /\ ShownIsRecorded' /\ OpenWasOpened' /\ ReadingIsReset'
  BY DEF Inv, LastSample, ShownIsRecorded, OpenWasOpened, ReadingIsReset,
       Sampling, EndSample, ReadingAfter
<1>6. MenuChordIsHeld' /\ TimeChordIsHeld'
  BY DEF Inv, MenuChordIsHeld, TimeChordIsHeld, EndSample
<1> QED
  BY <1>4, <1>5, <1>6 DEF Inv

\* Drawing the window keeps the invariant, wherever the user moved it.
LEMMA DrawWindowInv ==
  ASSUME Inv, NEW moved \in DraggedTo, NEW clicked \in BOOLEAN,
         NEW body \in BOOLEAN, NEW warped \in BOOLEAN,
         DrawWindow(moved, clicked, body, warped),
         moved = window \/ (body /\ ~clicked)
  PROVE  Inv'
<1>1. moved \in Position
  BY DEF DraggedTo, Inv, TypeOK, Position
<1>2. window' \in Position
  BY <1>1 DEF DrawWindow, NextPosition, Inv, TypeOK, Position
<1>3. menuPos' \in Place
  BY DEF DrawWindow, Recorded, Inv, TypeOK
<1>4. TypeOK'
  BY <1>2, <1>3 DEF Inv, TypeOK, Position, DrawWindow, OpenedBefore, helperVars,
       gameVars, spent
<1>5. ShownIsRecorded'
  <2> SUFFICES ASSUME wasJustOpened'
               PROVE  window' = menuPos' \/ window' = OffLeft
    BY DEF ShownIsRecorded
  <2>1. toggleInput
    BY DEF DrawWindow, OpenedBefore
  <2>2. CASE ~wasJustOpened
    BY <2>1, <2>2 DEF DrawWindow, NextPosition
  <2>3. CASE wasJustOpened
    <3>1. window' = moved
      BY <2>1, <2>3 DEF DrawWindow, NextPosition
    <3>2. CASE moved = window
      BY <2>3, <3>1, <3>2 DEF DrawWindow, NextPosition, Inv, ShownIsRecorded
    <3>3. CASE moved # window
      <4>1. body /\ moved \in Place \cup {OffLeft}
        BY <3>3 DEF DraggedTo
      <4> QED
        BY <2>1, <2>3, <3>1, <4>1 DEF DrawWindow, NextPosition, Recorded
    <3> QED
      BY <3>2, <3>3
  <2> QED
    BY <2>2, <2>3
<1>6. LastSample' /\ MenuChordIsHeld' /\ TimeChordIsHeld'
  BY DEF Inv, LastSample, MenuChordIsHeld, TimeChordIsHeld, DrawWindow,
       helperVars, spent
<1>7. OpenWasOpened' /\ ReadingIsReset'
  BY DEF Inv, OpenWasOpened, ReadingIsReset, Sampling, DrawWindow,
       NextCollapsed, OpenedBefore, helperVars
<1> QED
  BY <1>4, <1>5, <1>6, <1>7 DEF Inv

\* A frame draws the window in one of four ways.
LEMMA DrawInv == Inv /\ drawDebugWindow => Inv'
<1> SUFFICES ASSUME Inv, drawDebugWindow PROVE Inv'
  OBVIOUS
<1>1. window \in DraggedTo
  BY DEF DraggedTo, Inv, TypeOK, ShownIsRecorded
<1>2. PICK moved \in DraggedTo, clicked \in BOOLEAN, body \in BOOLEAN,
           warped \in BOOLEAN :
        /\ DrawWindow(moved, clicked, body, warped)
        /\ moved = window \/ (body /\ ~clicked)
  BY <1>1 DEF drawDebugWindow, DrawUntouched, DrawDragged, DrawFolded, DrawWarped
<1> QED
  BY <1>2, DrawWindowInv

\* The game reads its pads: nothing of the menu changes.
LEMMA ReadsInv ==
  ASSUME NEW older \in SUBSET Button, Inv, GameReadsPad(older)
  PROVE  Inv'
<1>1. gameSees' \in [newest : BOOLEAN, older : BOOLEAN]
  BY DEF GameReadsPad
<1>2. isTimeStopped' \in BOOLEAN
  BY DEF Inv, TypeOK, GameReadsPad
<1> QED
  BY <1>1, <1>2 DEF Inv, TypeOK, Position, LastSample, ShownIsRecorded,
       OpenWasOpened, ReadingIsReset, Sampling, MenuChordIsHeld,
       TimeChordIsHeld, GameReadsPad, helperVars, windowVars, spent

\* The game ticks: at most time is stopped, and the chord marked.
LEMMA TickInv == Inv /\ GameMainLoop => Inv'
<1> SUFFICES ASSUME Inv, GameMainLoop PROVE Inv'
  OBVIOUS
<1>1. isTimeStopped' \in BOOLEAN /\ timeChordActed' \in BOOLEAN
  BY DEF GameMainLoop
<1>2. TypeOK'
  BY <1>1 DEF Inv, TypeOK, Position, GameMainLoop, helperVars, windowVars
<1> QED
  BY <1>2 DEF Inv, LastSample, ShownIsRecorded, OpenWasOpened, ReadingIsReset,
       Sampling, MenuChordIsHeld, TimeChordIsHeld, GameMainLoop, helperVars,
       windowVars

-----------------------------------------------------------------------------
\* Every step keeps the invariant, so it holds in every reachable state.
LEMMA StepInv == Inv /\ [Next]_vars => Inv'
<1>1. CASE UNCHANGED vars
  BY <1>1 DEF Inv, TypeOK, Position, LastSample, ShownIsRecorded, OpenWasOpened,
       ReadingIsReset, Sampling, MenuChordIsHeld, TimeChordIsHeld, vars,
       helperVars, windowVars, gameVars, spent
<1> QED
  BY <1>1, PlayerInv, BeginInv, FullKeyInv, EndInv, DrawInv, ReadsInv, TickInv
     DEF Next

THEOREM Invariance == Spec => []Inv
BY InitInv, StepInv, PTL DEF Spec

\* Every variable keeps its type, whatever the buttons and places are.
THEOREM TypeCorrect == Spec => []TypeOK
BY Invariance, PTL DEF Inv

\* An open menu stands where it was left, whatever closed it before, and never at
\* the hidden place.
THEOREM MenuOpensWhereLeft == Spec => []OpensWhereLeft
<1>1. Inv => OpensWhereLeft
  BY PlaceAssumption DEF Inv, TypeOK, OpensWhereLeft, OpenWasOpened, ShownIsRecorded
<1> QED
  BY Invariance, <1>1, PTL

\* Two sticks held flip the menu once: the sample that would flip it again finds
\* both held in the sample before.
THEOREM FlipsOncePerClick == Spec => OneFlipPerClick
<1>1. Inv /\ [Next]_vars =>
        (phase = "reading" /\ toggleInput' # toggleInput => ~menuChordSpent)
  <2> SUFFICES ASSUME Inv, [Next]_vars, phase = "reading",
                      toggleInput' # toggleInput, menuChordSpent
               PROVE  FALSE
    BY DEF Inv, TypeOK
  <2>1. \E known \in BOOLEAN : EndSample(known)
    BY DEF Next, PlayerMoves, BeginSample, ReadFullKey, drawDebugWindow,
         DrawUntouched, DrawDragged, DrawFolded, DrawWarped, DrawWindow,
         GameReadsPad, GameMainLoop, vars
  <2>2. BothSticks \subseteq prev
    BY DEF Inv, MenuChordIsHeld
  <2>3. MenuChord(cur', prev) = FALSE
    BY <2>2 DEF MenuChord, isButtonPress, BothSticks
  <2>4. toggleInput' = (toggleInput # FALSE)
    BY <2>1, <2>3 DEF EndSample
  <2>5. toggleInput \in BOOLEAN
    BY DEF Inv, TypeOK
  <2> QED
    BY <2>4, <2>5, Zenon
<1> QED
  BY Invariance, <1>1, PTL DEF Spec, OneFlipPerClick

\* What InputHelper reads is not blanked, so a click always flips the menu.
THEOREM EveryClickFlips == Spec => ClickFlips
<1>1. Inv /\ [Next]_vars =>
        (EndSample(TRUE) /\ MenuChord(held, prev) => toggleInput' # toggleInput)
  <2> SUFFICES ASSUME Inv, EndSample(TRUE), MenuChord(held, prev)
               PROVE  toggleInput' # toggleInput
    OBVIOUS
  <2>1. isReadInput
    BY DEF Inv, ReadingIsReset, Sampling, EndSample
  <2>2. cur' = held
    BY <2>1 DEF EndSample, disableButtons
  <2>3. MenuChord(cur', prev) = TRUE
    BY <2>2 DEF MenuChord, isButtonPress
  <2>4. toggleInput' = (toggleInput # TRUE)
    BY <2>3 DEF EndSample
  <2>5. toggleInput \in BOOLEAN
    BY DEF Inv, TypeOK
  <2> QED
    BY <2>4, <2>5, Zenon
<1> QED
  BY Invariance, <1>1, PTL DEF Spec, ClickFlips

\* Once a sample is complete, isReadInput is reset for every thread, before the
\* menu can be drawn open and until the next sample begins.
THEOREM NothingBehindMenu == Spec => GameSeesNothingBehindMenu
<1>1. Inv /\ [Next]_vars =>
        (gameSees' # gameSees /\ toggleInput /\ ~Sampling => ~gameSees'.newest)
  <2> SUFFICES ASSUME Inv, [Next]_vars, gameSees' # gameSees, toggleInput, ~Sampling
               PROVE  ~gameSees'.newest
    OBVIOUS
  <2>1. \E older \in SUBSET Button : GameReadsPad(older)
    BY DEF Next, PlayerMoves, BeginSample, ReadFullKey, EndSample,
         drawDebugWindow, DrawUntouched, DrawDragged, DrawFolded, DrawWarped,
         DrawWindow, GameMainLoop, vars, gameVars
  <2>2. ~isReadInput
    BY DEF Inv, TypeOK, ReadingIsReset, Sampling
  <2>3. disableButtons(held) = {}
    BY <2>2 DEF disableButtons
  <2>4. gameSees'.newest = (disableButtons(held) # {})
    BY <2>1 DEF GameReadsPad
  <2> QED
    BY <2>3, <2>4
<1> QED
  BY Invariance, <1>1, PTL DEF Spec, GameSeesNothingBehindMenu

\* A chord held since the sample it acted on is in both samples a tick compares.
THEOREM HeldChordIsSpent == Spec => HeldChordRests
<1>1. Inv /\ [Next]_vars => (isTimeStopped' # isTimeStopped => ~timeChordSpent)
  <2> SUFFICES ASSUME Inv, [Next]_vars, isTimeStopped' # isTimeStopped,
                      timeChordSpent
               PROVE  FALSE
    BY DEF Inv, TypeOK
  <2>1. GameMainLoop
    BY DEF Next, PlayerMoves, BeginSample, ReadFullKey, EndSample,
         drawDebugWindow, DrawUntouched, DrawDragged, DrawFolded, DrawWarped,
         DrawWindow, GameReadsPad, vars, gameVars
  <2>2. TimeChord = FALSE
    BY DEF Inv, TimeChordIsHeld, TimeChord, isButtonPress, StickAndL
  <2>3. isTimeStopped' = (isTimeStopped # FALSE)
    BY <2>1, <2>2 DEF GameMainLoop
  <2>4. isTimeStopped \in BOOLEAN
    BY DEF Inv, TypeOK
  <2> QED
    BY <2>3, <2>4, Zenon
<1> QED
  BY Invariance, <1>1, PTL DEF Spec, HeldChordRests
=============================================================================
