\* Settings saved and loaded while calls fail and the power is cut; changes get to the card.
CONSTANTS
  Field <- MCField
  Options <- MCField
  InitialFiles <- AnyFile
  MaxHandles = 2
  Faults = TRUE
SPECIFICATION LiveSpec
INVARIANTS NothingForgotten FileAgrees
PROPERTIES EventuallySaved NoSaveWhileEditing
