------------------------------ MODULE RequestBox ------------------------------
(***************************************************************************)
(* What the user is promised of a position load: the player is put where   *)
(* the last request says.  Something in between two requests may be seen   *)
(* on the way, but only if the newer request is still to be served.        *)
(***************************************************************************)
EXTENDS Integers

CONSTANTS
  Pose,         \* what can be asked for
  Words         \* the words a pose is made of

VARIABLES
  asking,       \* a request is being written
  wanted,       \* the last request written
  due,          \* it is still to be served
  given         \* per word, the pose the player was last given it from

boxVars == <<asking, wanted, due, given>>

Whole(p) == [w \in Words |-> p]

BoxInit ==
  /\ asking = FALSE /\ due = FALSE
  /\ wanted \in Pose
  /\ given = Whole(wanted)

Begin ==
  /\ ~asking /\ asking' = TRUE
  /\ UNCHANGED <<wanted, due, given>>

Ask ==
  /\ asking /\ asking' = FALSE
  /\ wanted' \in Pose /\ due' = TRUE
  /\ UNCHANGED given

Serve ==
  /\ due
  /\ due' \in BOOLEAN /\ given' \in [Words -> Pose]
  /\ ~asking /\ ~due' => given' = Whole(wanted)
  /\ UNCHANGED <<asking, wanted>>

BoxSpec == BoxInit /\ [][Begin \/ Ask \/ Serve]_boxVars
=============================================================================
