\* A position loaded while time is stopped.
CONSTANTS
  Transform <- MCTransform
  Identity <- MCIdentity
  Rotations <- MCRotations
  Moves <- MCMoves
  Motion = {0, 1}
  Still = 0
  MaxTime = 0
  LoadedSettings <- DefaultSettings
  Options <- PositionOptions
SPECIFICATION Spec
PROPERTIES LoadAlwaysLands
