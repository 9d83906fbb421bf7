\* Two poses of three words, and play times 0, 1 and 2.
CONSTANTS
  Pose = {p1, p2}
  Words = 3
  MaxTime = 2
SPECIFICATION Spec
PROPERTIES ServesLastRequest LandsWhole NoSecondLoad LoadsSomething
