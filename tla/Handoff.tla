------------------------------- MODULE Handoff -------------------------------
(***************************************************************************)
(* A load request goes from the menu, drawn by the renderer, to the hook   *)
(* of ProcessInput, called by the game, through plain globals: the words   *)
(* of the pose and a flag, and a time and its flag.  PracticePosition has  *)
(* each side act in one step; here every access of a global is a step of   *)
(* its own.                                                                *)
(*                                                                         *)
(* Assumed: a word is written whole, and the words in the order of the     *)
(* program.  Abstracted: a word of a pose is the pose it comes from; Load  *)
(* and the drag widget differ by the pose alone; load_time_with_pos stands *)
(* for both options of the play time.  The hot keys, which act only with   *)
(* the menu closed, are PracticePosition's.                                *)
(***************************************************************************)
EXTENDS Integers

CONSTANTS
  Pose,         \* bound: the poses that are asked for
  Words,        \* how many words a pose has
  MaxTime       \* bound: the play times are 0 .. MaxTime

ASSUME PoseAssumption == Pose # {}
ASSUME WordsAssumption == Words \in Nat \ {0}
ASSUME TimeAssumption == MaxTime \in Nat

Word == 1 .. Words
NoTime == -1
Time == 0 .. MaxTime

VARIABLES
  desired,                \* desiredTransform, desiredVelocity and the other
  hasDesiredPositionData,
  desiredTime, hasDesiredTimeData,
  savedTime, load_time_with_pos,
  writer, asked,          \* the renderer's next step, and the pose it writes
  reader, word,           \* ProcessInput's next step, and the word it reads
  taken,                  \* the words it has given the player in this call
  playTime,
  \* observations, read by properties only
  wanted, given,          \* the last request written; the words last given
  fresh                   \* desiredTime was written since it was last loaded

positionVars == <<desired, hasDesiredPositionData>>
timeVars == <<desiredTime, hasDesiredTimeData>>
menuVars == <<savedTime, load_time_with_pos>>
vars == <<positionVars, timeVars, menuVars, writer, asked, reader, word,
          taken, playTime, wanted, given, fresh>>

\* The steps of loadPos: the words, the flag, then the time and its flag.
Flag == Words + 1
SetTime == Words + 2
TimeFlag == Words + 3
Idle == 0

TypeOK ==
  /\ desired \in [Word -> Pose] /\ hasDesiredPositionData \in BOOLEAN
  /\ desiredTime \in Time \cup {NoTime} /\ hasDesiredTimeData \in BOOLEAN
  /\ savedTime \in Time \cup {NoTime} /\ load_time_with_pos \in BOOLEAN
  /\ writer \in Idle .. TimeFlag /\ asked \in Pose
  /\ reader \in {"between", "time", "clear_time", "load", "reset", "position",
                 "clear_position", "words"}
  /\ word \in Word
  /\ taken \in [Word -> Pose]
  /\ playTime \in Time
  /\ wanted \in Pose /\ given \in [Word -> Pose] /\ fresh \in BOOLEAN

Init ==
  /\ \E p \in Pose :
       /\ desired = [w \in Word |-> p] /\ taken = desired /\ given = desired
       /\ asked = p /\ wanted = p
  /\ hasDesiredPositionData = FALSE
  /\ desiredTime = NoTime /\ hasDesiredTimeData = FALSE
  /\ savedTime = NoTime /\ load_time_with_pos \in BOOLEAN
  /\ writer = Idle /\ reader = "between" /\ word = 1
  /\ playTime = 0 /\ fresh = FALSE

-----------------------------------------------------------------------------
(***************************************************************************)
(* The renderer, in drawPlayerMenu.                                        *)
(***************************************************************************)
RendererLeaves == UNCHANGED <<reader, word, taken, playTime, given>>

\* Load is pressed, or the position is dragged.
Ask(p) ==
  /\ writer = Idle /\ writer' = 1 /\ asked' = p
  /\ RendererLeaves
  /\ UNCHANGED <<positionVars, timeVars, menuVars, wanted, fresh>>

WriteWord ==
  /\ writer \in Word
  /\ desired' = [desired EXCEPT ![writer] = asked]
  /\ writer' = writer + 1
  /\ RendererLeaves
  /\ UNCHANGED <<hasDesiredPositionData, timeVars, menuVars, asked, wanted,
                 fresh>>

\* loadPos goes on with the time if there is one and the option is on.
RaiseFlag ==
  /\ writer = Flag
  /\ hasDesiredPositionData' = TRUE
  /\ writer' \in IF savedTime > 0 /\ load_time_with_pos
                 THEN {SetTime, Idle} ELSE {Idle}
  /\ wanted' = asked
  /\ RendererLeaves
  /\ UNCHANGED <<desired, timeVars, menuVars, asked, fresh>>

WriteTime ==
  /\ writer = SetTime /\ writer' = TimeFlag
  /\ desiredTime' = savedTime /\ fresh' = TRUE
  /\ RendererLeaves
  /\ UNCHANGED <<positionVars, hasDesiredTimeData, menuVars, asked, wanted>>

RaiseTimeFlag ==
  /\ writer = TimeFlag /\ writer' = Idle
  /\ hasDesiredTimeData' = TRUE
  /\ RendererLeaves
  /\ UNCHANGED <<positionVars, desiredTime, menuVars, asked, wanted, fresh>>

\* Save records igt, the play time at some earlier call of ProcessInput.
Save ==
  /\ writer = Idle /\ load_time_with_pos
  /\ savedTime' \in Time
  /\ RendererLeaves
  /\ UNCHANGED <<positionVars, timeVars, load_time_with_pos, writer, asked,
                 wanted, fresh>>

Checkbox ==
  /\ writer = Idle
  /\ load_time_with_pos' = ~load_time_with_pos
  /\ RendererLeaves
  /\ UNCHANGED <<positionVars, timeVars, savedTime, writer, asked, wanted,
                 fresh>>

Renderer == \/ \E p \in Pose : Ask(p)
            \/ WriteWord \/ RaiseFlag \/ WriteTime \/ RaiseTimeFlag
            \/ Save \/ Checkbox

-----------------------------------------------------------------------------
(***************************************************************************)
(* The game's thread, in ProcessInput: the time first, then the position.  *)
(***************************************************************************)
GameLeaves == UNCHANGED <<desired, menuVars, writer, asked, wanted>>

\* The two operands of the test are read one after the other.
Bug_AnyTime == TRUE
TimePending == desiredTime > 0
TestTime ==
  /\ reader = "between"
  /\ reader' = IF TimePending THEN "time" ELSE "position"
  /\ GameLeaves
  /\ UNCHANGED <<hasDesiredPositionData, timeVars, word, taken, playTime,
                 given, fresh>>
TestTimeFlag ==
  /\ reader = "time"
  /\ reader' = IF hasDesiredTimeData THEN "clear_time" ELSE "position"
  /\ GameLeaves
  /\ UNCHANGED <<hasDesiredPositionData, timeVars, word, taken, playTime,
                 given, fresh>>
ClearTimeFlag ==
  /\ reader = "clear_time"
  /\ hasDesiredTimeData' = FALSE
  /\ reader' = IF load_time_with_pos THEN "load" ELSE "reset"
  /\ GameLeaves
  /\ UNCHANGED <<hasDesiredPositionData, desiredTime, word, taken, playTime,
                 given, fresh>>

LoadTime ==
  /\ reader = "load" /\ reader' = "reset"
  /\ playTime' = desiredTime /\ fresh' = FALSE
  /\ GameLeaves
  /\ UNCHANGED <<hasDesiredPositionData, timeVars, word, taken, given>>

\* "safety so we don't double-load".
Bug_TimeKept == desiredTime
TimeLeft == NoTime
ResetTime ==
  /\ reader = "reset" /\ reader' = "position"
  /\ desiredTime' = TimeLeft
  /\ GameLeaves
  /\ UNCHANGED <<hasDesiredPositionData, hasDesiredTimeData, word, taken,
                 playTime, given, fresh>>

\* Without a request the hook does other things and returns.
TestFlag ==
  /\ reader = "position"
  /\ reader' = IF hasDesiredPositionData THEN "clear_position" ELSE "between"
  /\ GameLeaves
  /\ UNCHANGED <<hasDesiredPositionData, timeVars, word, taken, playTime,
                 given, fresh>>

\* The flag once the hook has read the words.
Bug_FlagWhenRead == FALSE
FlagWhenRead == hasDesiredPositionData

ClearFlag ==
  /\ reader = "clear_position" /\ reader' = "words" /\ word' = 1
  /\ hasDesiredPositionData' = FALSE
  /\ GameLeaves
  /\ UNCHANGED <<timeVars, taken, playTime, given, fresh>>

LastWord == word = Words

\* SetTransform, SetVelocityWR and SetAngularVelocityWR read word after word.
ReadWord ==
  /\ reader = "words"
  /\ taken' = [taken EXCEPT ![word] = desired[word]]
  /\ \/ /\ ~LastWord
        /\ word' = word + 1
        /\ UNCHANGED <<hasDesiredPositionData, reader, given>>
     \/ /\ LastWord
        /\ reader' = "between" /\ word' = 1
        /\ given' = taken'
        /\ hasDesiredPositionData' = FlagWhenRead
  /\ GameLeaves
  /\ UNCHANGED <<timeVars, playTime, fresh>>

\* The game counts the play time between two calls, or another game begins.
Count ==
  /\ reader = "between"
  /\ playTime' \in Time
  /\ GameLeaves
  /\ UNCHANGED <<hasDesiredPositionData, timeVars, reader, word, taken, given,
                 fresh>>

ProcessInput == \/ TestTime \/ TestTimeFlag \/ ClearTimeFlag \/ LoadTime
                \/ ResetTime \/ TestFlag \/ ClearFlag \/ ReadWord

Next == Renderer \/ ProcessInput \/ Count

\* A running game keeps ticking.
Spec == Init /\ [][Next]_vars /\ WF_vars(ProcessInput)

-----------------------------------------------------------------------------
(***************************************************************************)
(* The globals implement RequestBox: a pose mixed of two requests is given *)
(* to the player only while the newer one is still to come, since the hook *)
(* lowers the flag before it reads.                                        *)
(***************************************************************************)
Box == INSTANCE RequestBox WITH
  Words <- Word,
  asking <- writer \in 1 .. Flag,
  due <- hasDesiredPositionData \/ reader = "words"

ServesLastRequest == Box!BoxSpec

(***************************************************************************)
(* A request that no other follows is given to the player whole.           *)
(***************************************************************************)
LandsWhole ==
  \A p \in Pose :
    wanted = p ~> \/ given = Box!Whole(p)
                  \/ writer \in 1 .. Flag \/ wanted # p

(***************************************************************************)
(* One written time is loaded once, however the renderer's two writes fall *)
(* between the hook's accesses; and what is loaded was saved, never the    *)
(* value that stands for nothing.                                          *)
(***************************************************************************)
Loads == reader = "load" /\ reader' = "reset"
NoSecondLoad == [][Loads => fresh]_vars
LoadsSomething == [][Loads => playTime' > 0]_vars
=============================================================================
