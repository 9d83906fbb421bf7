\* Five instructions, and a trampoline far from them.
CONSTANTS
  Instrs <- FarInstrs
  Base = 134217729
  Replace = 1000
  Rx = 2000
  Rw = 4000
SPECIFICATION Spec
INVARIANTS TypeOK TargetsKept ComesBack FitsSlot AddressesAligned
\* The loop ends with the jump back.
CHECK_DEADLOCK FALSE
