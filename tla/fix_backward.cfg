\* What lies before the instruction.
CONSTANTS
  Instrs <- BackwardInstrs
  Base = 10001
  Replace = 134217728
  Rx = 2000
  Rw = 4000
SPECIFICATION Spec
INVARIANTS BackwardKept
\* The loop ends with the jump back.
CHECK_DEADLOCK FALSE
