----------------------------- MODULE NvnOverlay -----------------------------
(***************************************************************************)
(* The menu's drawing on the game's device: the driver calls that          *)
(* imgui_nvn.cpp interposes, the start of ImGui and its backend, and       *)
(* renderDrawData with its buffers (imgui_impl_nvn.cpp, MemoryBuffer.cpp). *)
(*                                                                         *)
(* Assumed of the game, which is external: it draws from one thread and    *)
(* records one command buffer at a time; when it presents, that is the one *)
(* it set a texture pool in last, with no draw in it; it has set pools of  *)
(* both kinds.  Assumed of the GPU: it is done with a submission before    *)
(* the next frame.  Abstracted: a pool of the overlay is Overlay; vertices *)
(* and indices are counted in units of one.  Of what renderDrawData sets   *)
(* on the queue there are the two pools, which presentTexture restores;    *)
(* program, uniforms, polygon, colour, blend, vertex and viewport state,   *)
(* which it does not, are left out.                                        *)
(***************************************************************************)
EXTENDS Integers, Sequences

CONSTANTS
  Buffer,        \* bound: the game's command buffers
  Texture, Sampler,  \* bound: its texture pools and its sampler pools
  Overlay,       \* the overlay's own pools
  DrawData,      \* bound: ImGui's draw data, a sequence of lists
  PageSize,      \* bound: what a pool's size is rounded up to
  AnySize,       \* bound: what the size of a pool that was not made can be
  MaxCommands,   \* bound: commands per recording of the game
  None           \* no buffer, no pool, not recording

ASSUME PageSizeAssumption == PageSize \in Nat \ {0}
ASSUME BoundAssumption == AnySize \subseteq Nat /\ MaxCommands \in Nat
ASSUME DrawDataAssumption ==
  DrawData \subseteq Seq([vtx : Nat \ {0}, idx : Nat \ {0}])

Kind == {"texture", "sampler"}
Pools(t, s) == [k \in Kind |-> IF k = "texture" THEN t ELSE s]

VARIABLES
  recording,     \* per buffer, what the driver has recorded, or None
  queue,         \* the pools the queue draws with
  misuse,        \* a buffer was begun twice, or ended without being begun
  \* imgui_nvn.cpp
  nvnDevice, nvnQueue, nvnCmdBuf, __cmdBuf, __texturePool, __samplerPool,
  hasInitImGui,
  \* imgui_impl_nvn.cpp
  backend,       \* the backend data: none, or isInitialized or not
  cmdBuf, vtxBuffer, idxBuffer,
  aborted,       \* an assertion failed
  \* observations, read by properties and by the guards of the game only
  inited,        \* the buffers the game has initialised
  gameRecording, gameQueue,  \* recording and queue as they were without us
  saw,           \* the pools each draw of the game's last submission used
  shown          \* the draw data of the last frame, if it was drawn

gameVars == <<gameRecording, gameQueue, saw>>
driverVars == <<recording, queue, misuse>>
nvnVars == <<nvnDevice, nvnQueue, nvnCmdBuf, inited>>
setVars == <<__cmdBuf, __texturePool, __samplerPool>>
backendVars == <<hasInitImGui, backend, cmdBuf, aborted>>
bufferVars == <<vtxBuffer, idxBuffer, shown>>
vars == <<gameVars, driverVars, nvnVars, setVars, backendVars, bufferVars>>

Alone == INSTANCE GameCommands WITH
  Pool <- Texture \cup Sampler, Closed <- None,
  recording <- gameRecording, pools <- gameQueue

ASSUME NoneAssumption == None \notin Seq(Alone!Command)

Memory == [size : Nat, ready : BOOLEAN]

TypeOK ==
  /\ \A b \in Buffer : recording[b] # None => Len(recording[b]) <= MaxCommands
  /\ queue \in [Kind -> Texture \cup Sampler \cup {Overlay, None}]
  /\ misuse \in BOOLEAN /\ aborted \in BOOLEAN
  /\ nvnDevice \in BOOLEAN /\ nvnQueue \in BOOLEAN
  /\ {nvnCmdBuf, __cmdBuf, cmdBuf} \subseteq Buffer \cup {None}
  /\ __texturePool \in Texture \cup {None}
  /\ __samplerPool \in Sampler \cup {None}
  /\ hasInitImGui \in BOOLEAN /\ backend \in {"none", "half", "ready"}
  /\ {vtxBuffer, idxBuffer} \subseteq Memory \cup {None}
  /\ inited \subseteq Buffer

Init ==
  /\ recording = [b \in Buffer |-> None] /\ gameRecording = recording
  /\ queue = Pools(None, None) /\ gameQueue = queue
  /\ misuse = FALSE /\ aborted = FALSE
  /\ nvnDevice = FALSE /\ nvnQueue = FALSE /\ nvnCmdBuf = None
  /\ inited = {}
  /\ __cmdBuf = None /\ __texturePool = None /\ __samplerPool = None
  /\ hasInitImGui = FALSE /\ backend = "none" /\ cmdBuf = None
  /\ vtxBuffer = None /\ idxBuffer = None
  /\ saw = << >> /\ shown = << >>

-----------------------------------------------------------------------------
(***************************************************************************)
(* The game's start-up, and InitImGui.                                     *)
(***************************************************************************)
deviceInit ==
  /\ ~nvnDevice /\ nvnDevice' = TRUE
  /\ UNCHANGED <<nvnQueue, nvnCmdBuf, inited, gameVars, driverVars, setVars,
                 backendVars, bufferVars>>

queueInit ==
  /\ nvnDevice /\ ~nvnQueue /\ nvnQueue' = TRUE
  /\ UNCHANGED <<nvnDevice, nvnCmdBuf, inited, gameVars, driverVars, setVars,
                 backendVars, bufferVars>>

\* The backend's set-up fails for want of shaders, memory or a pool.
InitBackend(b) ==
  /\ aborted' = (backend # "none")
  /\ backend' \in {"half", "ready"}
  /\ cmdBuf' = b

\* What InitImGui returns once the SD card is mounted.
Bug_Succeeded == backend' = "ready"
Succeeded == TRUE

\* It gives up without device or queue, and if the SD card cannot be mounted;
\* the context it has made by then stays the current one.
InitImGui(b) ==
  \/ /\ nvnDevice /\ nvnQueue
     /\ InitBackend(b)
     /\ hasInitImGui' = Succeeded
  \/ UNCHANGED backendVars

cmdBufInit(b) ==
  /\ nvnDevice /\ b \notin inited
  /\ inited' = inited \cup {b}
  /\ nvnCmdBuf' = b
  /\ IF hasInitImGui THEN UNCHANGED backendVars ELSE InitImGui(b)
  /\ UNCHANGED <<nvnDevice, nvnQueue, gameVars, driverVars, setVars,
                 bufferVars>>

-----------------------------------------------------------------------------
(***************************************************************************)
(* The game's recording.                                                   *)
(***************************************************************************)
Unchanged == UNCHANGED <<nvnVars, backendVars, bufferVars>>

\* A command goes to the driver and to what the game would have alone.
Both(b, c) ==
  /\ gameRecording[b] # None /\ Len(gameRecording[b]) < MaxCommands
  /\ gameRecording' = [gameRecording EXCEPT ![b] = Append(@, c)]
  /\ recording' = IF recording[b] = None THEN recording
                  ELSE [recording EXCEPT ![b] = Append(@, c)]
  /\ misuse' = (misuse \/ recording[b] = None)
  /\ UNCHANGED <<gameQueue, saw, queue>>
  /\ Unchanged

BeginRecording(b) ==
  /\ b \in inited /\ \A c \in Buffer : gameRecording[c] = None
  /\ gameRecording' = [gameRecording EXCEPT ![b] = << >>]
  /\ recording' = [recording EXCEPT ![b] = << >>]
  /\ misuse' = (misuse \/ recording[b] # None)
  /\ UNCHANGED <<gameQueue, saw, queue, setVars>>
  /\ Unchanged

setTexturePool(b, pool) ==
  /\ Both(b, [set |-> "texture", pool |-> pool])
  /\ __cmdBuf' = b /\ __texturePool' = pool
  /\ UNCHANGED __samplerPool

setSamplerPool(b, pool) ==
  /\ Both(b, [set |-> "sampler", pool |-> pool])
  /\ __samplerPool' = pool
  /\ UNCHANGED <<__cmdBuf, __texturePool>>

Draw(b) == Both(b, Alone!draw) /\ UNCHANGED setVars

\* The game ends a recording and submits it.
SubmitCommands(b) ==
  /\ nvnQueue /\ gameRecording[b] # None
  /\ gameRecording' = [gameRecording EXCEPT ![b] = None]
  /\ gameQueue' = Alone!After(gameQueue, gameRecording[b])
  /\ LET sent == IF recording[b] = None THEN << >> ELSE recording[b]
     IN saw' = Alone!Uses(queue, sent) /\ queue' = Alone!After(queue, sent)
  /\ recording' = [recording EXCEPT ![b] = None]
  /\ misuse' = (misuse \/ recording[b] = None)
  /\ UNCHANGED setVars
  /\ Unchanged

-----------------------------------------------------------------------------
(***************************************************************************)
(* renderDrawData: buffers for all vertices and all indices of the frame,  *)
(* then list after list, each behind the one before.                       *)
(***************************************************************************)
Offset(data, kind, i) ==
  LET sum[j \in 1 .. Len(data) + 1] ==
        IF j = 1 THEN 0 ELSE sum[j - 1] + data[j - 1][kind]
  IN sum[i]
Total(data, kind) == Offset(data, kind, Len(data) + 1)

ALIGN_UP(size) == ((size + PageSize - 1) \div PageSize) * PageSize

\* A new MemoryBuffer: ready, or without its pool, whose size is then anything,
\* or without its buffer.
MemoryBuffers(size) ==
  {[size |-> ALIGN_UP(size), ready |-> TRUE]}
    \cup {[size |-> any, ready |-> FALSE] :
            any \in AnySize \cup {ALIGN_UP(size)}}

Bug_Suffices(buffer, size) == buffer # None
Suffices(buffer, size) == buffer # None /\ buffer.size >= size
Resized(buffer, size) ==
  IF Suffices(buffer, size) THEN {buffer} ELSE MemoryBuffers(size)

\* What one list's draws read of vertices or indices: the memory behind its
\* offset, after all lists were copied.
At(data, kind, i) == Offset(data, kind, i)
Read(data, kind, i) ==
  [n \in 1 .. data[i][kind] |->
     LET writers == {j \in DOMAIN data :
           At(data, kind, i) + n \in At(data, kind, j) + 1 ..
                                     At(data, kind, j) + data[j][kind]}
         last == CHOOSE j \in writers : \A k \in writers : k <= j
     IN <<last, At(data, kind, i) + n - At(data, kind, last)>>]

ReadyToDraw == vtxBuffer'.ready /\ idxBuffer'.ready

\* renderDrawData of a frame; drawn: it has recorded and submitted commands.
Early(data) == data = << >> \/ backend # "ready"
renderDrawData(data, drawn) ==
  \/ /\ Early(data)
     /\ ~drawn /\ shown' = << >>
     /\ UNCHANGED <<vtxBuffer, idxBuffer>>
  \/ /\ ~Early(data)
     /\ vtxBuffer' \in Resized(vtxBuffer, Total(data, "vtx"))
     /\ idxBuffer' \in Resized(idxBuffer, Total(data, "idx"))
     /\ drawn = ReadyToDraw
     /\ shown' = IF drawn THEN data ELSE << >>

-----------------------------------------------------------------------------
(***************************************************************************)
(* presentTexture: ends the game's recording, draws the overlay, puts the  *)
(* game's pools back in a submission of its own, and begins to record.     *)
(***************************************************************************)
\* What procDraw does: nothing before InitImGui has succeeded.
procDraw(data, drawn) ==
  \/ /\ ~hasInitImGui /\ ~drawn
     /\ UNCHANGED <<bufferVars, backendVars>>
  \/ /\ hasInitImGui
     /\ aborted' = (aborted \/ backend = "none")
     /\ renderDrawData(data, drawn)
     /\ UNCHANGED <<hasInitImGui, backend, cmdBuf>>

Bug_Ended == recording
Ended == [recording EXCEPT ![__cmdBuf] = None]

Bug_Restored == <<[set |-> "texture", pool |-> __texturePool]>>
Restored == <<[set |-> "texture", pool |-> __texturePool],
              [set |-> "sampler", pool |-> __samplerPool]>>

presentTexture(data, drawn) ==
  /\ nvnQueue
  /\ {b \in Buffer : gameRecording[b] # None} = {__cmdBuf}
  /\ \A i \in DOMAIN gameRecording[__cmdBuf] :
       gameRecording[__cmdBuf][i] # Alone!draw
  /\ __samplerPool # None
  /\ procDraw(data, drawn)
  /\ LET drew == IF drawn THEN [Ended EXCEPT ![cmdBuf] = None] ELSE Ended
     IN /\ misuse' = \/ misuse
                     \/ recording[__cmdBuf] = None
                     \/ drawn /\ Ended[cmdBuf] # None
                     \/ drew[__cmdBuf] # None
        /\ recording' = [drew EXCEPT ![__cmdBuf] = << >>]
  /\ queue' = Alone!After(IF drawn THEN Pools(Overlay, Overlay) ELSE queue,
                          Restored)
  /\ UNCHANGED <<gameVars, nvnVars, setVars>>

Game ==
  \/ deviceInit \/ queueInit
  \/ \E b \in Buffer :
       \/ cmdBufInit(b) \/ BeginRecording(b) \/ Draw(b) \/ SubmitCommands(b)
       \/ \E p \in Texture : setTexturePool(b, p)
       \/ \E p \in Sampler : setSamplerPool(b, p)

Next == Game \/ \E data \in DrawData, drawn \in BOOLEAN :
                  presentTexture(data, drawn)

Spec == Init /\ [][Next]_vars

-----------------------------------------------------------------------------
(***************************************************************************)
(* Each draw of the game's uses the texture and the sampler pool that it   *)
(* would use alone, whatever pools the overlay set and though              *)
(* presentTexture throws away what was recorded.                           *)
(***************************************************************************)
GameUndisturbed == Alone!CommandsSpec

(***************************************************************************)
(* No command buffer is begun while it is recorded, or ended or written to *)
(* while it is not: also when the overlay draws with the very buffer that  *)
(* the game is recording, and when InitImGui took another one.             *)
(***************************************************************************)
RecordsInTurn == ~misuse

(***************************************************************************)
(* However often InitImGui has to be tried again, the backend is set up    *)
(* once, and no frame asks for it before: no assertion fails.              *)
(***************************************************************************)
NeverAborts == ~aborted

(***************************************************************************)
(* Every list is drawn with its own vertices and its own indices, from     *)
(* buffers that are ready and hold all lists, though a buffer that could   *)
(* not be made stays around with any size and is made again later.         *)
(***************************************************************************)
ListsReadTheirOwn ==
  shown # << >> => \A k \in {"vtx", "idx"} :
    LET buffer == IF k = "vtx" THEN vtxBuffer ELSE idxBuffer
    IN /\ buffer.ready /\ Total(shown, k) <= buffer.size
       /\ \A i \in DOMAIN shown :
            Read(shown, k, i) = [n \in 1 .. shown[i][k] |-> <<i, n>>]
=============================================================================
