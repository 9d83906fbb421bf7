--------------------------- MODULE MCSettingsStore ---------------------------
(***************************************************************************)
(* Four fields: two stored ones whose change asks for a save (on and off   *)
(* by default), the position editor's, and the cutscene override.          *)
(***************************************************************************)
EXTENDS SettingsStore

MCField == {"OSD_showIGT", "hide_hud", "pos_edit", Cutscenes}
MCStored == MCField \cap StoredFields

\* No file, one that does not parse, and one of an older version that misses a
\* field.
AnyFile == {Absent, Corrupt, Json({"OSD_showIGT"}, {})}
=============================================================================
