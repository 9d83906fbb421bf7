---------------------------- MODULE SettingsStore ----------------------------
(***************************************************************************)
(* PATCH_CONFIG and sd:/mp1r/settings.json.  A checkbox of the menu        *)
(* changes a field and, for most fields, asks for a save; the draw         *)
(* callback saves once nothing was asked for during DEBOUNCE_TIME seconds. *)
(* A save is a row of calls to the SD card (fsHelper.cpp), each of which   *)
(* may fail, and the console may be switched off between any two of them.  *)
(* The next start reads the file back.                                     *)
(*                                                                         *)
(* Abstracted: every field is a checkbox, so a configuration is the set of *)
(* the fields that are on (OSD_inputScale, menuX and menuY are stood for   *)
(* by their having one of two values).  A JSON file is the set of the      *)
(* fields it names and the set of those it says are on.                    *)
(***************************************************************************)
EXTENDS Integers

CONSTANTS
  Field,          \* bound: the fields told apart
  Options,        \* bound: the fields the user touches
  InitialFiles,   \* bound: what the SD card may hold at first
  MaxHandles,     \* bound: file handles open at a time
  Faults          \* SD card calls may fail, the console may be switched off

\* The members of PatchConfig that createSaveJson writes and loadFromJson reads.
StoredFields ==
  {"dash_enabled", "pos_edit", "load_time_with_pos", "load_time_separately",
   "OSD_showInput", "OSD_inputScale", "OSD_showMonitor", "OSD_showIGT",
   "OSD_showPos", "OSD_showVelocity", "OSD_showMoveState", "menuX", "menuY",
   "hide_reticle", "enable_stop_time", "hide_cannon", "hide_hud",
   "hide_hud_when_time_stopped"}

\* CGameState's static mCinematicForceSkippableOverride, a checkbox of the same
\* window, and the member of PatchConfig marked NOT SAVED.
Cutscenes == "mCinematicForceSkippableOverride"
OtherFields == {Cutscenes, "invulnerable"}

\* The fields whose widget calls RequestConfigSave (REQ_CONFIG_IF, or the moved
\* window); dash_enabled has no widget.
RequestingFields ==
  (StoredFields \ {"dash_enabled", "pos_edit"}) \cup {Cutscenes}

\* What is on in a fresh process: the initialisers of PatchConfig and exl_main.
DefaultOn ==
  {"pos_edit", "OSD_showInput", "OSD_showMonitor", "OSD_showIGT", "OSD_showPos",
   "OSD_showVelocity", "hide_hud_when_time_stopped", Cutscenes}

Stored == StoredFields \cap Field
Requesting == RequestingFields \cap Field
Defaults == DefaultOn \cap Field

Json(present, on) == [kind |-> "json", present |-> present, on |-> on]
Absent == [kind |-> "absent", present |-> {}, on |-> {}]
Corrupt == [kind |-> "corrupt", present |-> {}, on |-> {}]
Files == {Absent, Corrupt} \cup
         [kind : {"json"}, present : SUBSET Stored, on : SUBSET Stored]

ASSUME FieldAssumption == Field \subseteq StoredFields \cup OtherFields
\* dash_enabled has no widget.
ASSUME OptionsAssumption == Options \subseteq Field \ {"dash_enabled"}
ASSUME FilesAssumption == InitialFiles \subseteq Files
ASSUME FaultsAssumption == Faults \in BOOLEAN
ASSUME HandlesAssumption == MaxHandles \in Nat \ {0}

DEBOUNCE_TIME == 2   \* seconds

\* The calls of saveConfig and writeFileToPath, in order.
Steps == {"idle", "createDirectory", "isFileExist", "CreateFile", "OpenFile",
          "SetFileSize", "WriteFile", "CloseFile"}

VARIABLES
  running,            \* the process is up, and loadConfig has run
  config,             \* the fields that are on
  requestConfigSave,
  quiet,              \* whole seconds since requestSaveDebounce was set
  step,               \* where saveConfig is
  openHandles,        \* file handles open for writing
  file,               \* settings.json
  \* observations, read by properties only
  sinceEdit,          \* whole seconds since a change asked for a save
  unsaved,            \* fields whose change asked for a save not made since
  failed              \* a call to the SD card failed since the start

vars == <<running, config, requestConfigSave, quiet, step, openHandles, file,
          sinceEdit, unsaved, failed>>

TypeOK ==
  /\ running \in BOOLEAN
  /\ config \subseteq Field
  /\ requestConfigSave \in BOOLEAN
  /\ quiet \in 0 .. DEBOUNCE_TIME + 1
  /\ step \in Steps
  /\ openHandles \in 0 .. MaxHandles
  /\ file \in Files
  /\ sinceEdit \in 0 .. DEBOUNCE_TIME + 1
  /\ unsaved \subseteq Requesting
  /\ failed \in BOOLEAN

Init ==
  /\ running = FALSE
  /\ config = {}
  /\ requestConfigSave = FALSE
  /\ quiet = 0
  /\ step = "idle"
  /\ openHandles = 0
  /\ file \in InitialFiles
  /\ sinceEdit = 0
  /\ unsaved = {}
  /\ failed = FALSE

-----------------------------------------------------------------------------
(***************************************************************************)
(* exl_main and loadConfig: the fields start at their defaults, and those  *)
(* a readable file names take its values.  A file that is absent, that     *)
(* does not open or that does not parse leaves the defaults.               *)
(***************************************************************************)
Bug_LoadedOnTopOfDefaults(f) == Defaults \cup f.on
Loaded(f) == (Defaults \ f.present) \cup f.on

Start ==
  /\ ~running
  /\ running' = TRUE
  /\ \/ config' = Loaded(file) /\ failed' = FALSE
     \/ Faults /\ config' = Defaults /\ failed' = TRUE
  /\ requestConfigSave' = FALSE
  /\ quiet' = 0
  /\ sinceEdit' = 0
  /\ unsaved' = {}
  /\ UNCHANGED <<step, openHandles, file>>

(***************************************************************************)
(* A frame whose widget changes a field; RequestConfigSave for most.       *)
(***************************************************************************)
Bug_DebounceKept(f) == IF requestConfigSave THEN quiet ELSE 0
QuietAfter(f) == IF f \in Requesting THEN 0 ELSE quiet

Bug_NothingRequests == {}
SaveRequests == Requesting

Edit(f) ==
  /\ running /\ step = "idle"
  /\ config' = (config \ {f}) \cup ({f} \ config)
  /\ requestConfigSave' = (requestConfigSave \/ f \in SaveRequests)
  /\ quiet' = QuietAfter(f)
  /\ sinceEdit' = IF f \in Requesting THEN 0 ELSE sinceEdit
  /\ unsaved' = unsaved \cup ({f} \cap Requesting)
  /\ UNCHANGED <<running, step, openHandles, file, failed>>

\* ImGui::GetTime() advances with the frames.
Tick ==
  /\ running /\ step = "idle"
  /\ requestConfigSave
  /\ quiet <= DEBOUNCE_TIME
  /\ quiet' = quiet + 1
  /\ sinceEdit' = sinceEdit + 1
  /\ UNCHANGED <<running, config, requestConfigSave, step, openHandles, file,
                 unsaved, failed>>

ShouldSave == requestConfigSave /\ quiet > DEBOUNCE_TIME

(***************************************************************************)
(* saveConfig: the JSON text is made first and the steps run to the end in *)
(* the draw callback, so the configuration does not change meanwhile.      *)
(***************************************************************************)
createSaveJson == Json(Stored, config \cap Stored)

Goes(to) ==
  /\ step' = to
  /\ UNCHANGED <<running, config, requestConfigSave, quiet, openHandles, file,
                 sinceEdit, unsaved, failed>>

\* Whatever became of it, the request is over.
RequestAfterSave == FALSE

Ends ==
  /\ step' = "idle"
  /\ requestConfigSave' = RequestAfterSave
  /\ UNCHANGED <<running, config, quiet, sinceEdit>>

\* A call fails: the save ends there, and the handle, if any, stays open.
Fails ==
  /\ Faults
  /\ Ends
  /\ failed' = TRUE
  /\ UNCHANGED <<unsaved, openHandles>>

SaveBegins ==
  /\ running /\ step = "idle"
  /\ ShouldSave
  /\ Goes("createDirectory")

CreatesDirectory ==
  /\ step = "createDirectory"
  /\ \/ Goes("isFileExist")
     \/ Fails /\ UNCHANGED file

\* GetEntryType leaves the type uninitialised when there is no entry, so that an
\* absent file may be taken for an existing one.
ChecksFile ==
  /\ step = "isFileExist"
  /\ \/ Goes("OpenFile")
     \/ file = Absent /\ Goes("CreateFile")

CreatesFile ==
  /\ step = "CreateFile"
  /\ \/ /\ step' = "OpenFile"
        /\ file' = Corrupt
        /\ UNCHANGED <<running, config, requestConfigSave, quiet, openHandles,
                       sinceEdit, unsaved, failed>>
     \/ Fails /\ UNCHANGED file

OpensFile ==
  /\ step = "OpenFile"
  /\ \/ /\ file # Absent /\ openHandles < MaxHandles
        /\ step' = "SetFileSize"
        /\ openHandles' = openHandles + 1
        /\ UNCHANGED <<running, config, requestConfigSave, quiet, file,
                       sinceEdit, unsaved, failed>>
     \/ Fails /\ UNCHANGED file
     \/ /\ file = Absent
        /\ Ends
        /\ failed' = TRUE
        /\ UNCHANGED <<openHandles, file, unsaved>>

\* A file of another size is cut or padded; one of the same size keeps its text.
Resized == {file, Corrupt}
SetsFileSize ==
  /\ step = "SetFileSize"
  /\ \/ /\ step' = "WriteFile"
        /\ file' \in Resized
        /\ UNCHANGED <<running, config, requestConfigSave, quiet, openHandles,
                       sinceEdit, unsaved, failed>>
     \/ Fails /\ file' \in Resized

\* A write that did not finish leaves the old text, the new one or neither.
HalfWritten == {file, Corrupt, createSaveJson}
WritesFile ==
  /\ step = "WriteFile"
  /\ \/ /\ step' = "CloseFile"
        /\ file' = createSaveJson
        /\ unsaved' = unsaved \ Stored
        /\ UNCHANGED <<running, config, requestConfigSave, quiet, openHandles,
                       sinceEdit, failed>>
     \/ Fails /\ file' \in HalfWritten

HandlesAfterClose == openHandles - 1
ClosesFile ==
  /\ step = "CloseFile"
  /\ openHandles' = HandlesAfterClose
  /\ Ends
  /\ UNCHANGED <<file, unsaved, failed>>

\* The game is closed or the console switched off: at any step of a save.
SwitchOff ==
  /\ Faults
  /\ running
  /\ running' = FALSE
  /\ step' = "idle"
  /\ openHandles' = 0
  /\ file' \in IF step = "WriteFile" THEN HalfWritten
              ELSE IF step = "SetFileSize" THEN Resized ELSE {file}
  /\ UNCHANGED <<config, requestConfigSave, quiet, sinceEdit, unsaved, failed>>

Save == SaveBegins \/ CreatesDirectory \/ ChecksFile \/ CreatesFile
        \/ OpensFile \/ SetsFileSize \/ WritesFile \/ ClosesFile

Next == Start \/ (\E f \in Options : Edit(f)) \/ Tick \/ Save \/ SwitchOff

Spec == Init /\ [][Next]_vars

\* Frames keep being drawn, so time passes for the debounce and a save that
\* began goes on; nothing is assumed of the user.
LiveSpec == Spec /\ WF_vars(Tick) /\ WF_vars(Save) /\ WF_vars(Start)

-----------------------------------------------------------------------------
\* A save begins only when nothing was changed for more than DEBOUNCE_TIME: a
\* further change puts the save off (the slider of the input scale, or the menu
\* window being dragged, asks for a save every frame).
NoSaveWhileEditing ==
  [][step = "idle" /\ step' = "createDirectory" => sinceEdit > DEBOUNCE_TIME]_vars

\* No change of a stored field that asked for a save is forgotten: unless a call
\* to the card failed, either the request is still there, a save is on its way,
\* or the file has it.
NothingForgotten ==
  running /\ step = "idle" /\ ~requestConfigSave /\ ~failed
    => unsaved \cap Stored = {}

Agrees(f) == f \in config <=> f \in file.on

\* What the file says of a field is what the field is, across saves, failures,
\* power cuts and restarts, unless a change of it is still to be saved; not so
\* for pos_edit, whose checkbox asks for no save.
FileAgrees ==
  running /\ ~failed =>
    \A f \in file.present \ (unsaved \cup {"pos_edit"}) : Agrees(f)

\* Every file that was opened is closed again, unless a call failed.
HandlesClosed ==
  ~failed => openHandles = (IF step \in {"SetFileSize", "WriteFile", "CloseFile"}
                            THEN 1 ELSE 0)

\* Once the user stops changing settings, the changes get to the card, unless a
\* call to it fails or the console is switched off first.
EventuallySaved ==
  []<><<\E f \in Options : Edit(f)>>_vars
    \/ (unsaved \cap Stored # {} ~> unsaved \cap Stored = {} \/ failed \/ ~running)
=============================================================================
