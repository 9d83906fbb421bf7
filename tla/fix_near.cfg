\* Five instructions, and a trampoline just before them.
CONSTANTS
  Instrs <- NearInstrs
  Base = 10001
  Replace = 134217728
  Rx = 2000
  Rw = 4000
SPECIFICATION Spec
INVARIANTS TargetsKept StartsAtCopy
\* The loop ends with the jump back.
CHECK_DEADLOCK FALSE
