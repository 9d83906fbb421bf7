----------------------------- MODULE MCMenuInput -----------------------------
(***************************************************************************)
(* The buttons of the two chords.  L is one of ImGui's keys, too.          *)
(***************************************************************************)
EXTENDS MenuInput

MCButton == BothSticks \cup StickAndL
=============================================================================
