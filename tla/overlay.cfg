\* Two command buffers, two texture pools and a sampler pool, three commands per
\* recording, and frames of one to four vertices or indices in pages of two.
CONSTANTS
  Buffer = {b1, b2}
  Texture = {t1, t2}
  Sampler = {s1}
  Overlay = overlay
  DrawData <- MCDrawData
  PageSize = 2
  AnySize = {0}
  MaxCommands = 3
  None = None
SYMMETRY Symmetry
SPECIFICATION Spec
INVARIANTS RecordsInTurn NeverAborts ListsReadTheirOwn
PROPERTY GameUndisturbed
