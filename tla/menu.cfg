\* Both chords, what the mod and the game see of the pad at any moment of a frame,
\* and the window's place and fold, with two places on the screen.
CONSTANTS
  Button <- MCButton
  Place = {here, there}
  Hidden = hidden
  OffLeft = off_left
SPECIFICATION Spec
INVARIANT OpensWhereLeft
PROPERTIES OneFlipPerClick ClickFlips GameSeesNothingBehindMenu HeldChordRests
