\* Positions, the play time, freeze, photo mode and warps; requests are taken up while
\* the game keeps ticking.
CONSTANTS
  Transform <- MCTwoPlaces
  Identity <- MCIdentity
  Rotations <- MCEither
  Moves <- MCEither
  Motion = {0, 1}
  Still = 0
  MaxTime = 1
  LoadedSettings <- FullSettings
  Options <- PositionAndTimeOptions
SPECIFICATION Spec
INVARIANTS TypeOK SoftPausedIsFlagged
PROPERTIES FreezeHolds LoadLands SpawnUndisturbed NoDoubleTimeLoad
