------------------------- MODULE MCPracticePosition -------------------------
(***************************************************************************)
(* Two places, in one of which the player can face two ways: a rotation    *)
(* keeps the place, a drag of x, y, z keeps the facing.                    *)
(***************************************************************************)
EXTENDS PracticePosition

MCIdentity == [at |-> "origin", facing |-> 0]
MCTransform == {MCIdentity, [at |-> "ledge", facing |-> 0],
                [at |-> "ledge", facing |-> 1]}
MCRotations(t) == {u \in Transform : u.at = t.at}
MCMoves(t) == {u \in Transform : u.facing = t.facing}

\* Two places, each of which is a turn and a move away from the other.
MCTwoPlaces == {MCIdentity, [at |-> "ledge", facing |-> 0]}
MCEither(t) == MCTwoPlaces

\* PATCH_CONFIG as patches.hpp initialises it.
Defaults == [f \in ConfigFields |->
               f \in {"pos_edit", "hide_hud_when_time_stopped"}]
DefaultSettings == {Defaults}

\* The user may stop time and load a time by itself: one who may not is one who
\* never does, but for a time that is due while neither option is on.
FullSettings == {[Defaults EXCEPT !["enable_stop_time"] = TRUE,
                                  !["load_time_separately"] = TRUE]}

PositionOptions == {"pos_edit", "enable_stop_time"}
PositionAndTimeOptions == {"pos_edit", "load_time_with_pos"}
=============================================================================
