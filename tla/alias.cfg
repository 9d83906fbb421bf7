\* Four objects over pages of three words; thirteen pages, of which 1..4 hold code
\* and 7 something else, with the heap in page 0.
CONSTANTS
  PAGE_SIZE = 3
  LastPage = 12
  Occupied = {1, 2, 3, 4, 7}
  Avoided = {0}
  RangeStart = {1, 3, 4, 5}
  patcher = patcher
  jit = jit
  hook = hook
  crossing = crossing
  Claim <- MCClaim
  Ro <- MCRo
  Size <- MCSize
  NULL = NULL
SPECIFICATION Spec
INVARIANTS ListIsReservations AliasShowsCode DiesOnlyForCause HandleBeforeUse
PROPERTIES ClaimEnds OpensWindows
\* An aborted program stays so.
CHECK_DEADLOCK FALSE
