------------------------- MODULE SettingsStore_proofs -------------------------
(***************************************************************************)
(* The safety properties of SettingsStore, for every set of fields, every  *)
(* file the card may hold at first and any number of handles.              *)
(***************************************************************************)
EXTENDS SettingsStore, TLAPS

(***************************************************************************)
(* The inductive invariant.  A save runs with the process up, with its     *)
(* request still set and, once the file is open, with a handle, which a    *)
(* switch-off takes away; a change not yet written keeps its request, and  *)
(* when the file is closed there is none; requestSaveDebounce is the time  *)
(* of the last change.                                                     *)
(***************************************************************************)
FileIsOpen == step \in {"SetFileSize", "WriteFile", "CloseFile"}
SavesHaveRequests == step # "idle" => running /\ requestConfigSave
OpenHasHandle == FileIsOpen => openHandles > 0
DownHasNoHandle == ~running => openHandles = 0
QuietIsSinceEdit == quiet = sinceEdit
Pending ==
  running /\ ~requestConfigSave /\ ~failed => unsaved \cap Stored = {}
WrittenBeforeClose == step = "CloseFile" => unsaved \cap Stored = {}

Inv ==
  /\ TypeOK
  /\ SavesHaveRequests
  /\ OpenHasHandle
  /\ DownHasNoHandle
  /\ QuietIsSinceEdit
  /\ Pending
  /\ WrittenBeforeClose
  /\ FileAgrees
  /\ HandlesClosed

\* The members of a file are stored fields.
LEMMA FileFields ==
  ASSUME NEW f \in Files
  PROVE  f.present \subseteq Stored /\ f.on \subseteq Stored
BY DEF Files, Absent, Corrupt

\* What a save writes is a file, and agrees with the configuration.
LEMMA SavedText ==
  /\ createSaveJson \in Files
  /\ createSaveJson.present = Stored
  /\ createSaveJson.on = config \cap Stored
<1>1. createSaveJson = [kind |-> "json", present |-> Stored, on |-> config \cap Stored]
  BY DEF createSaveJson, Json
<1> QED
  BY <1>1 DEF Files

\* The file of a save that was cut short names no field.
LEMMA CorruptIsEmpty == Corrupt \in Files /\ Corrupt.present = {}
BY DEF Files, Corrupt

\* The first start finds no save under way and nothing to save.
LEMMA InitInv == Init => Inv
<1> SUFFICES ASSUME Init PROVE Inv
  OBVIOUS
<1>1. openHandles \in 0 .. MaxHandles
  BY HandlesAssumption DEF Init
<1>2. file \in Files
  BY FilesAssumption DEF Init
<1>3. /\ quiet \in 0 .. DEBOUNCE_TIME + 1 /\ sinceEdit \in 0 .. DEBOUNCE_TIME + 1
      /\ step \in Steps
  BY DEF Init, DEBOUNCE_TIME, Steps
<1>5. TypeOK
  BY <1>1, <1>2, <1>3 DEF Init, TypeOK
<1>4. FileAgrees /\ HandlesClosed
  BY DEF Init, FileAgrees, HandlesClosed
<1> QED
  BY <1>4, <1>5 DEF Init, Inv, SavesHaveRequests, OpenHasHandle, DownHasNoHandle,
       FileIsOpen, QuietIsSinceEdit, Pending, WrittenBeforeClose

\* A start loads what the file says, or keeps the defaults and notes a failure.
LEMMA StartInv == Inv /\ Start => Inv'
<1> SUFFICES ASSUME Inv, Start PROVE Inv'
  OBVIOUS
<1>1. step = "idle" /\ step' = "idle" /\ openHandles' = 0
  BY DEF Inv, SavesHaveRequests, DownHasNoHandle, Start
<1>2. config' \subseteq Field /\ failed' \in BOOLEAN
  BY FileFields DEF Inv, TypeOK, Start, Loaded, Defaults, Stored
<1>3. TypeOK'
  <2>1. quiet' \in 0 .. DEBOUNCE_TIME + 1 /\ sinceEdit' \in 0 .. DEBOUNCE_TIME + 1
    BY DEF Start, DEBOUNCE_TIME
  <2> QED
    BY <1>2, <2>1 DEF Inv, TypeOK, Start
<1>4. FileAgrees'
  BY DEF FileAgrees, Agrees, Start, Loaded
<1>5. HandlesClosed'
  BY <1>1 DEF Start, HandlesClosed
<1> QED
  BY <1>1, <1>3, <1>4, <1>5 DEF Inv, Start, SavesHaveRequests, OpenHasHandle,
       DownHasNoHandle, FileIsOpen, QuietIsSinceEdit, Pending, WrittenBeforeClose

\* A change of a field that may be saved asks for a save.
LEMMA EditInv ==
  ASSUME NEW f \in Options, Inv, Edit(f)
  PROVE  Inv'
<1>1. f \in Field /\ f # "dash_enabled"
  BY OptionsAssumption
<1>2. config' \subseteq Field /\ unsaved' \subseteq Requesting
  BY <1>1 DEF Inv, TypeOK, Edit
<1>3. TypeOK'
  <2>1. quiet' \in 0 .. DEBOUNCE_TIME + 1 /\ sinceEdit' \in 0 .. DEBOUNCE_TIME + 1
    BY DEF Inv, TypeOK, Edit, QuietAfter, DEBOUNCE_TIME
  <2>2. requestConfigSave' \in BOOLEAN
    BY DEF Inv, TypeOK, Edit
  <2> QED
    BY <1>2, <2>1, <2>2 DEF Inv, TypeOK, Edit
<1>4. QuietIsSinceEdit'
  BY DEF Inv, QuietIsSinceEdit, Edit, QuietAfter
<1>5. Pending'
  BY DEF Inv, Pending, Edit, SaveRequests
<1>6. FileAgrees'
  <2> SUFFICES ASSUME running', ~failed',
                      NEW g \in file'.present \ (unsaved' \cup {"pos_edit"})
               PROVE  Agrees(g)'
    BY DEF FileAgrees
  <2>1. g \in file.present \ (unsaved \cup {"pos_edit"}) /\ Agrees(g)
    BY DEF Inv, FileAgrees, Edit
  <2>2. g \in Stored
    BY <2>1, FileFields DEF Inv, TypeOK
  <2>3. g # f
    <3>1. CASE f \in Requesting
      BY <3>1 DEF Edit
    <3>2. CASE f \notin Requesting
      BY <1>1, <2>1, <2>2, <3>2 DEF Requesting, RequestingFields, Stored
    <3> QED
      BY <3>1, <3>2
  <2> QED
    BY <2>1, <2>3 DEF Edit, Agrees
<1>7. SavesHaveRequests' /\ OpenHasHandle' /\ DownHasNoHandle'
      /\ WrittenBeforeClose' /\ HandlesClosed'
  BY DEF Inv, SavesHaveRequests, OpenHasHandle, DownHasNoHandle, FileIsOpen,
       WrittenBeforeClose, HandlesClosed, Edit
<1> QED
  BY <1>3, <1>4, <1>5, <1>6, <1>7 DEF Inv

\* Time passes for the debounce only.
LEMMA TickInv == Inv /\ Tick => Inv'
<1> SUFFICES ASSUME Inv, Tick PROVE Inv'
  OBVIOUS
<1>1. quiet' = sinceEdit' /\ quiet' \in 0 .. DEBOUNCE_TIME + 1
  BY DEF Inv, TypeOK, QuietIsSinceEdit, Tick, DEBOUNCE_TIME
<1>2. TypeOK'
  BY <1>1 DEF Inv, TypeOK, Tick
<1> QED
  BY <1>1, <1>2 DEF Inv, SavesHaveRequests, OpenHasHandle, DownHasNoHandle,
       FileIsOpen, QuietIsSinceEdit, Pending, WrittenBeforeClose, FileAgrees,
       Agrees, HandlesClosed, Tick

-----------------------------------------------------------------------------
\* A save that goes on without touching the file keeps the invariant.
LEMMA GoesInv ==
  ASSUME Inv, NEW to \in {"createDirectory", "isFileExist", "CreateFile", "OpenFile"},
         Goes(to), running, requestConfigSave, ~FileIsOpen
  PROVE  Inv'
<1>1. TypeOK'
  BY DEF Inv, TypeOK, Goes, Steps
<1> QED
  BY <1>1 DEF Inv, SavesHaveRequests, OpenHasHandle, DownHasNoHandle, FileIsOpen,
       QuietIsSinceEdit, Pending, WrittenBeforeClose, FileAgrees, Agrees,
       HandlesClosed, Goes

\* A save that fails notes it, and promises nothing any more.
LEMMA FailsInv ==
  ASSUME Inv, running, Ends, failed' = TRUE, UNCHANGED <<unsaved, openHandles>>,
         file' \in Files
  PROVE  Inv'
<1>1. TypeOK'
  BY DEF Inv, TypeOK, Ends, RequestAfterSave, Steps
<1> QED
  BY <1>1 DEF Inv, SavesHaveRequests, OpenHasHandle, DownHasNoHandle, FileIsOpen,
       QuietIsSinceEdit, Pending, WrittenBeforeClose, FileAgrees, HandlesClosed,
       Ends

\* What a resize or an unfinished write leaves is a file.
LEMMA LeftFiles == Inv => Resized \subseteq Files /\ HalfWritten \subseteq Files
BY CorruptIsEmpty, SavedText DEF Resized, HalfWritten, Inv, TypeOK

\* Each call of a save keeps the invariant, done or failed.
LEMMA SaveInv == Inv /\ Save => Inv'
<1> SUFFICES ASSUME Inv, Save PROVE Inv'
  OBVIOUS
<1>0. ~SaveBegins => running /\ requestConfigSave
  BY DEF Save, CreatesDirectory, ChecksFile, CreatesFile, OpensFile, SetsFileSize,
       WritesFile, ClosesFile, Inv, SavesHaveRequests
<1>1. CASE SaveBegins
  BY <1>1, GoesInv DEF SaveBegins, ShouldSave, FileIsOpen
<1>2. CASE CreatesDirectory
  <2>1. running /\ requestConfigSave /\ ~FileIsOpen /\ file \in Files
    BY <1>2 DEF CreatesDirectory, Inv, SavesHaveRequests, FileIsOpen, TypeOK
  <2> QED
    BY <1>2, <2>1, GoesInv, FailsInv DEF CreatesDirectory, Fails
<1>3. CASE ChecksFile
  <2>1. running /\ requestConfigSave /\ ~FileIsOpen
    BY <1>3 DEF ChecksFile, Inv, SavesHaveRequests, FileIsOpen
  <2> QED
    BY <1>3, <2>1, GoesInv DEF ChecksFile
<1>4. CASE CreatesFile
  <2>1. running /\ requestConfigSave /\ ~FileIsOpen /\ file \in Files
    BY <1>4 DEF CreatesFile, Inv, SavesHaveRequests, FileIsOpen, TypeOK
  <2>2. CASE Fails /\ UNCHANGED file
    BY <2>1, <2>2, FailsInv DEF Fails
  <2>3. CASE step' = "OpenFile" /\ file' = Corrupt
             /\ UNCHANGED <<running, config, requestConfigSave, quiet,
                            openHandles, sinceEdit, unsaved, failed>>
    <3>1. TypeOK'
      BY <2>3, CorruptIsEmpty DEF Inv, TypeOK, Steps
    <3>2. FileAgrees'
      BY <2>3, CorruptIsEmpty DEF FileAgrees
    <3> QED
      BY <2>1, <2>3, <3>1, <3>2 DEF Inv, SavesHaveRequests, OpenHasHandle,
           DownHasNoHandle, FileIsOpen, QuietIsSinceEdit, Pending,
           WrittenBeforeClose, HandlesClosed
  <2> QED
    BY <1>4, <2>2, <2>3 DEF CreatesFile
<1>5. CASE OpensFile
  <2>1. running /\ requestConfigSave /\ ~FileIsOpen /\ file \in Files
    BY <1>5 DEF OpensFile, Inv, SavesHaveRequests, FileIsOpen, TypeOK
  <2>2. CASE Fails /\ UNCHANGED file
    BY <2>1, <2>2, FailsInv DEF Fails
  <2>3. CASE Ends /\ failed' = TRUE /\ UNCHANGED <<openHandles, file, unsaved>>
    BY <2>1, <2>3, FailsInv
  <2>4. CASE openHandles < MaxHandles /\ step' = "SetFileSize"
             /\ openHandles' = openHandles + 1
             /\ UNCHANGED <<running, config, requestConfigSave, quiet, file,
                            sinceEdit, unsaved, failed>>
    <3>1. openHandles' \in 0 .. MaxHandles /\ openHandles' > 0
      BY <2>4, HandlesAssumption DEF Inv, TypeOK
    <3>2. TypeOK'
      BY <2>4, <3>1 DEF Inv, TypeOK, Steps
    <3>3. HandlesClosed'
      BY <2>1, <2>4 DEF Inv, HandlesClosed, FileIsOpen
    <3> QED
      BY <2>1, <2>4, <3>1, <3>2, <3>3 DEF Inv, SavesHaveRequests, OpenHasHandle,
           DownHasNoHandle, FileIsOpen, QuietIsSinceEdit, Pending,
           WrittenBeforeClose, FileAgrees, Agrees
  <2> QED
    BY <1>5, <2>2, <2>3, <2>4 DEF OpensFile
<1>6. CASE SetsFileSize
  <2>1. running /\ requestConfigSave /\ FileIsOpen
    BY <1>6 DEF SetsFileSize, Inv, SavesHaveRequests, FileIsOpen
  <2>2. file' \in Files
    BY <1>6, LeftFiles DEF SetsFileSize
  <2>3. CASE Fails
    BY <2>1, <2>2, <2>3, FailsInv DEF Fails
  <2>4. CASE step' = "WriteFile" /\ file' \in Resized
             /\ UNCHANGED <<running, config, requestConfigSave, quiet,
                            openHandles, sinceEdit, unsaved, failed>>
    <3>1. TypeOK'
      BY <2>2, <2>4 DEF Inv, TypeOK, Steps
    <3>2. FileAgrees'
      BY <2>4, CorruptIsEmpty DEF Inv, Resized, FileAgrees, Agrees
    <3> QED
      BY <2>1, <2>4, <3>1, <3>2 DEF Inv, SavesHaveRequests, OpenHasHandle,
           DownHasNoHandle, FileIsOpen, QuietIsSinceEdit, Pending,
           WrittenBeforeClose, HandlesClosed
  <2> QED
    BY <1>6, <2>3, <2>4 DEF SetsFileSize
<1>7. CASE WritesFile
  <2>1. running /\ requestConfigSave /\ FileIsOpen
    BY <1>7 DEF WritesFile, Inv, SavesHaveRequests, FileIsOpen
  <2>2. file' \in Files
    BY <1>7, LeftFiles, SavedText DEF WritesFile
  <2>3. CASE Fails
    BY <2>1, <2>2, <2>3, FailsInv DEF Fails
  <2>4. CASE step' = "CloseFile" /\ file' = createSaveJson
             /\ unsaved' = unsaved \ Stored
             /\ UNCHANGED <<running, config, requestConfigSave, quiet,
                            openHandles, sinceEdit, failed>>
    <3>1. TypeOK'
      BY <2>2, <2>4 DEF Inv, TypeOK, Steps
    <3>2. FileAgrees'
      BY <2>4, SavedText DEF FileAgrees, Agrees
    <3>3. WrittenBeforeClose' /\ Pending'
      BY <2>4 DEF WrittenBeforeClose, Pending
    <3> QED
      BY <2>1, <2>4, <3>1, <3>2, <3>3 DEF Inv, SavesHaveRequests, OpenHasHandle,
           DownHasNoHandle, FileIsOpen, QuietIsSinceEdit, HandlesClosed
  <2> QED
    BY <1>7, <2>3, <2>4 DEF WritesFile
<1>8. CASE ClosesFile
  <2>1. running /\ FileIsOpen
    BY <1>8 DEF ClosesFile, Inv, SavesHaveRequests, FileIsOpen
  <2>2. openHandles' \in 0 .. MaxHandles /\ openHandles' = openHandles - 1
    BY <1>8, <2>1, HandlesAssumption DEF ClosesFile, HandlesAfterClose, Inv,
         TypeOK, OpenHasHandle
  <2>3. TypeOK'
    BY <1>8, <2>2 DEF ClosesFile, Ends, RequestAfterSave, Inv, TypeOK, Steps
  <2>4. HandlesClosed'
    BY <1>8, <2>1, <2>2 DEF ClosesFile, Ends, Inv, HandlesClosed, FileIsOpen
  <2>5. Pending'
    BY <1>8 DEF ClosesFile, Inv, WrittenBeforeClose, Pending
  <2> QED
    BY <1>8, <2>1, <2>3, <2>4, <2>5 DEF ClosesFile, Ends, Inv, SavesHaveRequests,
         OpenHasHandle, DownHasNoHandle, FileIsOpen, QuietIsSinceEdit,
         WrittenBeforeClose, FileAgrees, Agrees
<1> QED
  BY <1>1, <1>2, <1>3, <1>4, <1>5, <1>6, <1>7, <1>8 DEF Save

\* Switching off takes the handles away and leaves the file as it is.
LEMMA SwitchOffInv == Inv /\ SwitchOff => Inv'
<1> SUFFICES ASSUME Inv, SwitchOff PROVE Inv'
  OBVIOUS
<1>1. file' \in Files
  BY LeftFiles DEF SwitchOff, Inv, TypeOK
<1>2. openHandles' \in 0 .. MaxHandles
  BY HandlesAssumption DEF SwitchOff
<1>3. TypeOK'
  BY <1>1, <1>2 DEF SwitchOff, Inv, TypeOK, Steps
<1> QED
  BY <1>3 DEF SwitchOff, Inv, SavesHaveRequests, OpenHasHandle, DownHasNoHandle,
       FileIsOpen, QuietIsSinceEdit, Pending, WrittenBeforeClose, FileAgrees,
       HandlesClosed

\* Every step keeps the invariant, so it holds in every reachable state.
LEMMA StepInv == Inv /\ [Next]_vars => Inv'
<1>1. CASE UNCHANGED vars
  BY <1>1 DEF Inv, TypeOK, SavesHaveRequests, OpenHasHandle, DownHasNoHandle,
       FileIsOpen, QuietIsSinceEdit, Pending, WrittenBeforeClose, FileAgrees,
       Agrees, HandlesClosed, vars
<1> QED
  BY <1>1, StartInv, EditInv, TickInv, SaveInv, SwitchOffInv DEF Next

THEOREM Invariance == Spec => []Inv
BY InitInv, StepInv, PTL DEF Spec

\* Every variable keeps its type; a closed handle was open.
THEOREM TypeCorrect == Spec => []TypeOK
BY Invariance, PTL DEF Inv

\* No change that asked for a save is forgotten while no call fails.
THEOREM ChangesAreKept == Spec => []NothingForgotten
<1>1. Inv => NothingForgotten
  BY DEF Inv, Pending, NothingForgotten
<1> QED
  BY Invariance, <1>1, PTL

\* What the file says of a field is what the field is, or a save is to come.
THEOREM FileTellsTheSettings == Spec => []FileAgrees
BY Invariance, PTL DEF Inv

\* Unless a call failed, a handle is open only between OpenFile and CloseFile.
THEOREM HandlesAreClosed == Spec => []HandlesClosed
BY Invariance, PTL DEF Inv

\* A save begins only when nothing was changed for more than DEBOUNCE_TIME.
THEOREM SavesWaitForQuiet == Spec => NoSaveWhileEditing
<1>1. Inv /\ [Next]_vars =>
        (step = "idle" /\ step' = "createDirectory" => sinceEdit > DEBOUNCE_TIME)
  <2> SUFFICES ASSUME Inv, [Next]_vars, step = "idle", step' = "createDirectory"
               PROVE  sinceEdit > DEBOUNCE_TIME
    OBVIOUS
  <2>1. SaveBegins
    BY DEF Next, Start, Edit, Tick, Save, CreatesDirectory, ChecksFile,
         CreatesFile, OpensFile, SetsFileSize, WritesFile, ClosesFile, SwitchOff,
         vars
  <2> QED
    BY <2>1 DEF SaveBegins, ShouldSave, Inv, QuietIsSinceEdit
<1> QED
  BY Invariance, <1>1, PTL DEF Spec, NoSaveWhileEditing
=============================================================================
