# Verification of the Metroid Prime Remastered practice mod

The mod is a module loaded into the game's process. It relocates itself,
replaces parts of the game's functions by hooks, and draws a menu over the game
with which a speedrunner saves and loads positions, stops time, warps and
chooses what is shown. This directory holds TLA+ modules translated from its
source (paths are relative to `src/`), configurations to model-check them with
TLC, and theorems checked by TLAPS.

- [1. Inventory](#1-inventory)
- [2. Modules](#2-modules)
- [3. Runs](#3-runs)
- [4. Proofs](#4-proofs)
- [5. What the model shows about the code](#5-what-the-model-shows-about-the-code)
- [6. Not modelled](#6-not-modelled)
- [7. Plan](#7-plan)

## 1. Inventory

Three kinds of threads run the code. The *game's* thread calls the hooked
functions once per tick. The *renderer's* thread calls the interposed
`nvnQueuePresentTexture`, and so the whole menu, once per presented frame.
*Any* thread may call the hooked pad readers. They share plain globals: there
is no lock, atomic variable or queue anywhere in `src/program`, and nothing in
the source orders one call site against another.

| component | state it keeps | operations | interacts with |
|---|---|---|---|
| practice core: `program/patches.cpp`, `PlayerMenu.cpp`, `PhotoModeMenu.cpp`, `WarpMenu.cpp` | requests (`hasDesiredPositionData`, `hasDesiredTimeData` and their data), saved position and time, `lastKnown*`, `is_time_stopped`, `mostRecentStateManager` | `ProcessInput`, `GameMainLoop` (hooks), `loadPos`, `savePos`, `loadTime`, `saveTime`, `warpToRoom`, the drawing of the menus | the game (calls both ways), menu window (`toggleInput`), settings |
| settings: `patches.cpp` (`PatchConfig`), `helpers/fsHelper.cpp` | `PATCH_CONFIG`, `requestConfigSave`, the time of the last request, the file | `loadConfig`, `saveConfig`, `RequestConfigSave`, `ShouldSave`, `writeFileToPath` | SD card, every menu |
| input and menu window: `helpers/InputHelper.cpp`, `program/main.cpp`, `imgui_backend/imgui_nvn.cpp`, `imgui_impl_nvn.cpp` | last two pad states, `isReadInput`, `toggleInput`, ImGui's keys, the window's place and fold, `wasJustOpened` | `updatePadState`, `updateGamepad`, `drawDebugWindow`, `disableButtons` | ImGui, the game's pad reads, the time chord |
| instruction relocation: `lib/hook/nx64/hook_impl.cpp` | the context of one relocation: addresses of the copies, references to fix | `__fix_instructions` and its fixers | hook installation |
| hook pools and installation: `hook_impl.cpp`, `trampoline.hpp`, `inline_impl.cpp` | index of the next trampoline, of the next inline entry, `Orig` pointers, the code of the game | `Hook`, `HookFuncImpl`, `HookInline`, `InstallAt...` | relocation, aliases, running threads |
| aliases and address space: `util/sys/rw_pages.cpp`, `jit.hpp`, `nx/kernel/virtmem.c` | mappings, list of reservations | claim, unclaim, find, reserve | kernel, hooks, patchers |
| module discovery: `util/sys/mem_layout.cpp` | list of modules | `FindModules`, `FindRegions` | everything that uses offsets |
| patchers: `lib/patch` | range written since the last flush | `Write`, `Seek`, `Flush` | aliases |
| own relocation: `lib/reloc` | list of modules, their symbols | `rtld` | runs first |
| overlay: `imgui_backend` | interposed function pointers, command buffer, vertex and index buffers | `deviceInit`, `cmdBufInit`, `presentTexture`, `renderDrawData` | driver, GPU |
| inventory, display, flags menus: `program/*Menu.cpp`, `InputWindow.cpp` | what they last read | widgets | the game |
| exception handler, logger, diagnostics | none | log a crash | the SDK |

What is hard, component by component, and what makes it correct:

- **Practice core.** The two threads interleave; state kept in globals outlives
  the game instance it came from. Correct: the freeze puts the player back
  where it was, a load lands, a request is served and served once, the sentinel
  -1 never becomes the play time, a warp arrives where the game put it, a
  paused game is known to be paused.
- **Settings.** Widgets ask for a save in every frame; the save is a row of
  calls each of which can fail; the power can go. Correct: no change is lost
  silently, a save waits for quiet and then happens, the file never says
  something else than the settings do, handles are closed.
- **Input and menu window.** One fact, "the menu is open", is kept three times
  (`toggleInput`, ImGui's fold, `wasJustOpened`) and changed by the pad, the
  title bar and a warp; the edges of a button are computed per frame and read
  per tick. Correct: a chord acts once, an open menu is where it was left, the game
  sees nothing behind it.
- **Relocation.** References between copied instructions go both ways, fields
  are narrow, alignment moves the copies. Correct: a copy points where the
  original pointed, control returns behind the hook, the slot is large enough.
- **Hand-off.** A request is a dozen words and a flag, without a lock; the hook
  may read while the menu writes. Correct: the player ends at the last request,
  whole, and one written time is loaded at most once.
- **Module discovery, installation, start.** The game is found as the second of
  three-region runs in a memory map; the hooks overwrite a number of words that
  depends on distance and alignment, and may be put on a function that is
  hooked already. Correct: every module is found that is not hidden behind half
  of one, slots are apart, a call runs the callbacks and then every instruction
  of the function once, and returns.
- **Aliases.** A search for free addresses, a hand-made linked list, a handle
  fetched by a second thread that sends a message to the first, a mapping done
  range by range. Correct: a window shows the code it was made for and nothing
  else, claims end, and only want of memory, of addresses or of a session makes
  one fail.
- **Overlay.** Start-up in an order the game chooses, tried again until it
  works; a recording of the game ended, reused and begun again in the middle.
  Correct: the game's draws use the texture and sampler pools they would use
  alone, no buffer is begun or ended out of turn, every list reads its own
  vertices. What else the overlay sets on the queue is neither restored by the
  code nor modelled (section 6).

`PROJECT.json` lists every component, and the hazards at their lines with the
properties that cover them, or a note on why none does. Smaller ones, kept here
until a module needs them: the one-shot `shouldUpdateVerticalFov`
(`patches.cpp:191`); `mostRecentStateManager` between two game instances
(`WarpMenu.cpp:61`); the four calls per item of the inventory from the frame's
thread (`InventoryMenu.cpp:205`); mouse and touch edges, forwarded like the
keys of the pad (`imgui_impl_nvn.cpp:425`); `imgui.ini`, written in place like the
settings (`:687`); literals copied at installation and branches into the middle
of the overwritten instructions (`hook_impl.cpp:343`, `:569`); the entry of an
inline hook, written after the hook is live (`inline_impl.cpp:57`, no inline hook
is installed); an alias over several memory ranges that fails half-way
(`rw_pages.cpp:31`); hours modulo 60 (`InputWindow.cpp:60`).

## 2. Modules

Every name that exists in the source is kept. Variables under "observations"
record history for the properties; no guard reads them.

### PracticePosition

`patches.cpp` (hooks of `ProcessInput` and `GameMainLoop`), `PlayerMenu.cpp`,
`PhotoModeMenu.cpp`, `WarpMenu.cpp` and `drawDebugWindow` as far as it changes
their state.

- A transform is an element of `Transform`; velocity and angular velocity,
  always handled together, are one value of `Motion`; a pose is both. A play
  time is a whole number; `NoTime` is the code's -1.
- `ProcessInput` is two steps, before and after its call of `Orig`, because the
  renderer can run in between. The first is one of `ProcessInputLoads` (a
  position request), `ProcessInputHotKeys` (menu closed) and
  `ProcessInputFreezes` (menu open), which are the branches of the code; all
  share `EnterProcessInput`, `LeaveTimeRequest` and `CallOrig`. The
  second is `OrigReturns`.
- The menu's frame is one of `MenuIdle`, `MenuSave`, `MenuLoad`, `MenuDrag`,
  `MenuCheckbox`, `MenuCloses`, `MenuWarp`: a frame with at most one widget
  used, which is what one pointer or cursor can do.
- The game is external: `Physics` (moves the player, only while running),
  `InstanceEnds`, `NewInstance` (always running, at a place of its choice).

The callbacks are atomic up to `Orig`; Handoff takes the part of them that
reads and writes a request apart.

### RequestBox, Handoff

`RequestBox` is the promise: a request is begun and asked for, and served; while
a newer one is due, anything in between may be served, but at the end the
player has the pose last asked for. `Handoff` is `loadPos`, `savePos` and the
drag widget on the renderer's thread against `ProcessInput` on the game's, one
access of a global per step: the words of the pose in order, the flag, then
time and time flag; the hook tests the time, tests and clears its flag, loads,
resets, and then does the same with the position, word by word. `writer` and
`reader` are the two program counters; `taken` are the words given so far.
`Box` in Handoff is the refinement mapping: a request is being written from
the first word until its flag is up, and due while the flag is up or the hook
is reading. `RaiseFlag` may end a request before its time: the drag widget
writes none.

### SettingsStore

`PatchConfig` and `writeFileToPath`. Each field is on or off; `config` is the
set of those that are on; a file is what it names and what it says is on, or
absent, or unreadable. A save is one action per call to the card
(`SaveBegins`, `CreatesDirectory`, ..., `ClosesFile`); each may fail, with the
code's early return, and `SwitchOff` may come between any two, with what that
call can leave on the card. `isFileExist` reads an uninitialised variable when
the entry is missing: `ChecksFile` takes either branch. A configuration written
by `createSaveJson` is the one at that step, not at the request.
Which widgets ask for a save and which fields are stored are read off
`REQ_CONFIG_IF`, `createSaveJson` and `loadFromJson`, so the sets differ just
where the code does.

### MenuInput

A frame is `BeginSample`, `ReadFullKey` and `EndSample` (the two reads of the
pad that can answer, the chord, ImGui's keys), and `drawDebugWindow`. The player
moves buttons, and the game ticks (`GameMainLoop`) and reads the pad
(`GameReadsPad`), at any moment of a frame and as often as it likes: nothing
orders its threads against the renderer's. A read of the game's may return
several states, of which `disableButtons` blanks the first, the newest;
`gameSees` is whether a button shows in it and in an older one. The window is
at a place with x not below 0, hidden (-1600) or off the left edge; x and y
beyond the other edges count as a place, as in the code's test. The four ways a frame ends (`DrawUntouched`, `DrawDragged`,
`DrawFolded`, `DrawWarped`) share `DrawWindow`, in the order of the code:
fold, place, `Begin`, record, warp, copy to `toggleInput`.

`PracticePosition` treats the menu's state as freely changeable between ticks;
`MenuInput` is where that state comes from.

### FixInstructions

The loop of `__fix_instructions` as a state machine that takes the next
instruction, any of `Instrs`, and appends what the fixer for its operation
emits. Addresses count words. Emitted code is one record per instruction: where
it begins (`from`), where references to it go (`start`, the code's `dat`),
where the word with the field is (`at`), whether the target is loaded (`long`)
and the field. `PointsTo` is the architecture's meaning of a field, and
`absolute_addr` is what the code computes, which differs for backward offsets.
`pending` is the code's map of references still to be fixed. The number of
instructions follows `HookFuncImpl`.

### ModuleScan, HookInstall, Startup

`ModuleScan` is the loop of `FindModules`, one region per step: a region is its
kind and the module it belongs to. `Cut` names the modules the scan may miss:
those that begin at the region that ends half a module, which is not looked at
again (`mem_layout.cpp:66`, `:79`). `HookInstall` is a row of hooks and what
runs afterwards. A word of code or of a slot is an instruction of the function
itself, or one of those a hook writes; `Install` allocates a slot, copies the
words that are about to be overwritten (with the literals of an earlier hook's
jump) and a jump back, and writes the jump to the callback. `Execute` and
`RunCallback` then interpret the words. `Startup` composes the two in the order of
`exl_init` and `exl_main`, any step of which may abort, with the calls of the
game after it.

How single instructions are relocated is FixInstructions's, and how code
becomes writable is CodeAlias's; here an alias that fails aborts. The words
are written in one step: see the assumptions in section 3.

### CodeWindows, CodeAlias

`CodeWindows` is the promise: windows open and close whole, in pages that show
nothing else, onto the code they are for. `CodeAlias` is `RwPages` with `virtmem.c`
and `cur_proc_handle.cpp`: `Construct`, `Find` (any free address, or none),
`Reserve` (the list's node pushed), `GetHandle` (at hand, from the kernel, an
abort for want of a session or a thread, or by the message from a second thread: `Send`, `Receive`, `Store`, `CloseSession`,
`ExitThread`, `Join`), `MapRange` per range of equal permissions, `Check` (the
code's `memcmp`), and back: `Destruct`, `UnmapRange`, `Remove`. A page's contents
are the page they came from, so no two pages look the same. `Windows` is the
refinement mapping: what is seen without the pages of the object at work.

### GameCommands, NvnOverlay

`GameCommands` is the game that draws alone: recordings, submissions, and a queue
whose texture and sampler pool stay set from one submission to the next. These
two pools are all of the queue's state that is modelled, here and in
`NvnOverlay`.
`NvnOverlay` is the same game through the interposed calls (`deviceInit`,
`cmdBufInit` with `InitImGui`, `setTexturePool`, `setSamplerPool`,
`presentTexture`), with the recordings the driver has beside those the game
believes it has (`gameRecording`, `gameQueue`, observations), and the overlay's
buffers for vertices and indices. A frame of the overlay is one step.

The `MC` modules hold instances, the `_proofs` modules proofs.

## 3. Runs

| run | distinct states | what it asks |
|---|---|---|
| `position` | 1 081 520 | freeze, loads of positions and times, warps, pause flag under every interleaving |
| `handoff` | 294 832 | the same requests access by access: refinement of the box, and a last request lands whole |
| `settings` | 31 019 | settings with failing calls and power cuts; liveness of saving |
| `menu` | 400 192 | both chords, the window's place and fold, and the game's reads and ticks at any moment of a frame |
| `fix_far` | 520 285 | relocation with the trampoline out of reach |
| `fix_near` | 520 285 | relocation with the trampoline in reach; where references to copies go |
| `install` | 89 540 | scan, hooks, and calls of hooked functions |
| `alias` | 26 289 | writable aliases made and destroyed in every order: refinement of windows |
| `overlay` | 754 020 | the pools of the game's draws with the overlay in between: refinement of the game alone |
| `load_while_stopped`, `fix_backward`, `scan_full` | to the first counterexample | section 5 |

**Bounds.** *Position and play time:* two places, each a turn and a
move away from the other, and two motions tell a moved, a stopped and a moving player
apart; `load_while_stopped` has a place with two facings besides, so that a turn and a
move differ. `MaxTime = 1` gives a saved time, and 0, which the code treats like
"none". In `position` time may be stopped and a time be loaded by itself (a user without
these options is one who does neither, but for a time that comes due while no option
to load one is on, which is dropped); the other options that matter are switched at
any moment. The theorems are about any settings, places and times.
*Settings:* one field each of the kinds that differ (stored and on by default,
stored and off, stored without a request, requested but not stored); an absent,
an unreadable and an older file; two handles, so that a leaked one and then the
limit are met; `DEBOUNCE_TIME` is the code's 2 s. *Menu:* the three buttons of the two
chords and two places; ticks and reads are unbounded.
*Relocation:* five instructions, the most the code ever copies, out of every
sequence over a set with one member per way through each fixer; the addresses
put the function at an odd word (so that five are copied) and the trampoline
in or out of reach. In `fix_near` one offset lies just inside a limit the code tests.
*Hand-off:* two poses of three words, so that a pose mixed of two requests has a
first, a middle and a last word; a saved time and another. *Installation:* ten
memory maps, with gaps, with code that is no module, also right in front of one,
with exactly `s_MaxModules` modules and with one more, and without this one; `s_MaxModules` is 5 (13 in the code). Three hooks of two
functions in a pool of three (16 of 16 in 20 in the program), near, far and
even, far and odd, and with first words in two pages; one function is hooked
twice, which the library allows and the program does not do. *Aliases:* thirteen pages of three
words; the claims are the program's kinds: all of the code, over three
ranges, the JIT area, the first word of a function, and the first words of one
over the end of a page. *Overlay:* two buffers and two texture pools, three
commands per recording, and frames of no list, of one that fits the first buffers
and of two that do not, so that buffers grow and offsets count; buffers and
texture pools are symmetric, and no liveness is checked there.

**Assumptions that are constants.** `Faults` allows failures and power cuts; it is
a parameter of the theorems.

**Assumptions that are guards or ASSUMEs.**
- *Handoff:* a word is written whole, and words become visible in program order;
  nothing in the source enforces it.
- *Startup:* hooks are installed by the only thread there is: the mod is
  loaded before the game's code runs. A hook put in later, word by word under running
  threads, is outside. A hooked function is longer than the jump, and nothing
  jumps into its first words. A memory map begins with a region that is no
  code, as address 0 is never mapped.
- *CodeAlias:* claims are on mapped code. `RangeStart` and
  `Avoided` are whatever the kernel says.
- *NvnOverlay:* the game records one buffer at a time, on one thread; when it
  presents, that is the one it last set a pool in, without a draw since it was
  begun, and pools of both kinds have been set (the code passes them on
  unchecked); the GPU has finished a frame when the next is drawn, so that the
  one vertex buffer is free.

**Fairness.** Always weak, and only of threads that run by themselves. `handoff`
assumes that a running game goes on with `ProcessInput`, its per-tick input,
on which the mod depends in every feature; nothing of the renderer, whose
request may stay half-written (`LandsWhole` says so). `settings` assumes that time passes,
that frames go on so that a begun save goes on, and that the process is started
again after a switch-off. `alias` assumes that the kernel runs both threads:
the one that claims and the one that fetches the handle; `install` that a
thread in a hooked function executes its next word. Nothing is assumed about
the player, about calls the game may make, or about objects being made.

**Deadlock** is checked except in the relocation runs, whose loop ends, and in
`alias` and `install`, where the program may abort.

**Refinements** are properties of runs: `ServesLastRequest` (Handoff implements
RequestBox), `OpensWindows` (CodeAlias implements CodeWindows) and
`GameUndisturbed` (NvnOverlay implements GameCommands).

Each property of a passing run has a mutant: an operator `Bug_...` in the module,
put in the place of a definition of the code, under which TLC finds the property
violated.

## 4. Proofs

The theorems hold for every value of the constants under the named
`...Assumption`s. Each is `Spec => []P` for an invariant, or `Spec => [][A]_vars` for an
action property, by an inductive invariant, one lemma per action and one step
per conjunct the action can disturb.

**PracticePosition_proofs** proves all the safety properties of the passing runs.
`Inv` adds to `TypeOK` and `SoftPausedIsFlagged`: between two calls of
`ProcessInput`, `lastKnown` is the pose the last call left (`FreezeHolds` is about `settled`, the
code uses `lastKnown`); a positive `desiredTime` was asked for
(so that taking it up is taking up a request); and while a
warp is awaited, the menu is closed and no position is pending (so that only
the third branch, which changes nothing, can run first). `TypeOK` itself says
that the sentinel never becomes the play time.

**SettingsStore_proofs** proves all safety properties. `Inv` ties the step of a
save to the request, the handle and the process; says that a change not
yet written keeps the request (`Pending`), which `NothingForgotten` follows
from; and that `quiet`, which the code computes from the time of the last
request, is the time since the last change. The number of fields, the files
found and the number of handles are arbitrary.

**MenuInput_proofs** proves all safety properties of its runs, for any buttons and
places and without further hypotheses: ticks and reads fall where they like.
`Inv` says what each phase of a frame leaves for the next: `prev = cur` when a
sample begins; a window shown before stands where it was recorded or off the
left; an open menu was open at the last frame; `isReadInput` is set while the
pad is read and reset before the menu can be open otherwise; a chord that acted
is held in the samples since.

**FixInstructions_proofs** proves that nothing is written behind the slot
(`SlotIsEnough`), for any instructions at any addresses. The invariant `Room`
is sharper than the claim: each instruction takes at most 9 words (three NOPs,
a load, a branch over the literal and 4 words of it), so up to five take 45,
and the jump back takes at most 5 more, which is exactly the 50 words of the
slot. The others: the jump back goes
to the first instruction that was not copied, by the short and by the long
form (`JumpsBehindTheHook`); every 64-bit address lies on 8 bytes
(`LoadsAreAligned`); a reference to a copied instruction arrives at that copy, past
the NOPs that align it (`ReferencesArrive`). The last one excepts by name a
copied ADRP that no NOP aligns (`NotedWritten`): for it the code notes an address
in the writable alias (section 5).
`TargetsArrive` proves that finished copies branch to, load from and compute
what the originals did: outside the copied instructions the same address, inside
them a word of that copy in the executable alias, with the same exception. It needs
`Relocatable`, what the code takes for granted: the
instructions whose offset it reads without a sign point forward (`fix_backward`
shows the others), and an ADRP's page does not begin inside the copied
instructions. The two aliases may lie anywhere. The
instructions of `fix_far` and of `fix_near` all satisfy it. The invariant `Arr` says
of every copy made so far that it points where it should, or refers to an
instruction still to be copied and then stands in `pending` for just that one;
and that all copies lie within the trampoline, so that an offset between two of
them fits the narrowest field.

**Handoff_proofs** proves the refinement of RequestBox for poses of any number of words,
and both properties of the time. `Inv` says what is in the globals
at every pair of program counters: which words are written (`Written`); that
what the hook has read is whole unless a request is being written or the flag
is up again (`Reading`), which is why the flag is cleared *before* reading; that a flag
once seen stays up until the hook lowers it (`FlagSeen`); that a time once
seen positive stays so until it is loaded (`TimeSeen`), since the renderer
writes only times that were saved; and that `desiredTime` is reset
before it can be loaded again (`Fresh`).

**CodeAlias_proofs** proves the refinement of CodeWindows, and that no page is
mapped without the handle, nor while the thread that fetched it runs on the borrowed stack,
for any address space and any claims. `Placed` says which objects have
addresses, and inside what; `Progress` what the pages of the object at work show when
`done` of them are mapped or unmapped. The windows of other objects are apart
from it because the search takes pages with nothing behind them. Two more
invariants carry other theorems: `Kept`, that a finished object's pages stay
behind its addresses until it is destroyed, and `Apart`, that no two live objects
share one. From these, the constructor dies only for a cause named
(`AbortsAreExplained`), and a finished alias shows the code it claims
(`CodeIsShown`), the latter under the hypothesis that no claim lies over the
end of a page, which is what the code gets wrong (`rw_pages.hpp:26`).
That the list of reservations is whole (`ReservationsAreListed`) follows from
`Ordered`: there is an order of the objects with a node in which `next` leads on and
`prev` back, which a push extends in front and a removal closes up anywhere.
`NobodyWaitsInVain` is the safe half of `ClaimEnds`: whoever waits for the other thread
waits for one that is there and has not passed the point, and a loop over
memory ranges that is not done has a range left.

**Startup_proofs** proves that trampolines have slots of their own inside the
pool, for every plan no longer than the pool: the h-th hook has slot h - 1. Of the
scan it proves that modules only are found, and every one that is not `Cut`, for
every memory map that begins with no code: `ScanInv` says
which modules are stored when the scan is at a region, what the
half-recognised module at hand consists of, and which stored module is the program.

`CallsGoAsInstalled` is about the words themselves: for any plan of hooks, several of one
function among them, near or far, even or odd, a call enters the callbacks,
the last hooked first, and then executes each instruction once. Two
invariants carry it. `Layout` says what lies where: a function holds its own instructions or the jump of its
last hook (`Written`); a slot holds the function's first instructions and a jump
back if its hook was the first one, and otherwise the words of the jump of the
hook before it, as far as they execute (`Filled`): the copied literal load jumps over its own copy
of the literal and into the branch register. `Calling` says where a call is: on
its way to a callback or to an instruction that is due, with at most
four jumps in between (`Goes`), or at an own instruction in the first hook's slot; and that
the trace so far is the beginning of what is promised. The same invariants give
`CallsNeverStick`, the safe half of `CallReturns`: a call never runs into the words of an
address.

**NvnOverlay_proofs** proves that command buffers are begun, written and ended
in turn, and that the backend is set up once and is there when a frame asks for
it. `Recorded` says that the driver records exactly in the buffers the game
believes it records in, which the detour of `presentTexture` restores.
`ListsApart`: the offsets that `renderDrawData` counts up keep the lists of a frame
apart, and a buffer that is ready is as large as all of them together
(`Holding`), although one that could not be made stays around. `DrawsAsAlone` is the refinement of
GameCommands, so about the two pools, for recordings of any length. Its invariant `Tracks` says of the buffer that is recorded: what
the driver has of it and what the game believes to have in it make the same
draws, each after its own queue, and leave both queues with the pools
that `imgui_nvn.cpp` remembers; and while nothing is recorded both queues have
those pools already.

Type invariants are theorems too, in every module, also those that no run lists: they
were checked on the same instances.

**Induction.** The library's induction theorems take an operator as a parameter,
which the provers here cannot instantiate. Where a function is defined by
recursion (the trace promised, the words copied, the walk along the list, the offsets, the
pools after a row of commands) the proofs go through the least number at
which a claim would fail: every non-empty set of numbers has a least element
(`Least`, from the library's `WFMin`), and a function given by a first
value and a step exists (`Recursion`).

**Only model-checked:** the liveness properties `LandsWhole`, `EventuallySaved`,
`ClaimEnds` and `CallReturns`, as fairness is out of the prover's reach. Every
safety property that a passing run checks is the statement of a theorem.

## 5. What the model shows about the code

Three runs end in a counterexample to something the repository says:

- **`load_while_stopped`** - with time stopped and the menu closed a position
  load is consumed and then overwritten by `lastKnownTransform`
  (`patches.cpp:141`). `LoadLands` says when it does work.
- **`scan_full`** - the scan gives up when it *has* `s_MaxModules` modules and
  not when it needs more (`mem_layout.cpp:37`), though the assertion at line
  118 allows them. `FindsEveryModule` says when it gives up as the code is.
- **`fix_backward`** - conditional branches, literals, `ADR` and `ADRP` that point
  backward lose their sign when copied: only `B` and `BL` keep it.

Other things the models contain as the code has them, without a run of their
own:

- A game thread that reads its pads while the renderer is in `tryGetContState` gets
  the buttons meant for the open menu: `isReadInput` is one flag for all threads
  (`InputHelper.cpp:93`). `GameSeesNothingBehindMenu` excepts such a read by name
  (`Sampling`); how short the window is the source does not say.
- Two ticks on one sample of the pad read the same edge, and the second undoes what
  "Stop time" did at the first (`patches.cpp:213`). `HeldChordRests` excepts that
  sample by name and says that no later one of the same press acts. With no tick
  between two samples the press is lost.
- A save file's failing call may leak the handle (`fsHelper.cpp:41`), and
  `isFileExist` reads an uninitialised type (`fsHelper.cpp:120`).
- `is_time_stopped` survives the game instance: a new, running game keeps its
  HUD and cannon hidden (`PhotoModeMenu.cpp:23`).
- The position editor's checkbox is stored but asks for no save
  (`PlayerMenu.cpp:79`), so `FileAgrees` leaves `pos_edit` out; the cutscene
  override asks for a save and is not stored (`main.cpp:79`).
- ImGui misses a key let go while the menu is closed, and takes it to be held
  when the menu opens again (`imgui_impl_nvn.cpp:431`).
- A byte offset of `ADR` spills into its register number, and a negative literal
  offset into the width (`hook_impl.cpp:418`).
- `RwPages` rounds its size up without the offset of the claim in its page: a
  hook on a function whose first words lie in two pages aborts at the `memcmp`
  (`rw_pages.hpp:26`). `DiesOnlyForCause` names it as the one cause besides want of
  memory.
- `AllocForTrampoline` accepts one slot more than the pool has
  (`hook_impl.cpp:545`); the sixteen hooks do not come to it, and
  `PlanAssumption` says so.
- A module right behind half a module is skipped silently (`mem_layout.cpp:66`,
  `:79`), and the indices of those behind it, the fixed one of the game among
  them, are off by one; `FindsEveryModule` excepts it by name (`Cut`).
- For a copied ADRP the address noted is where the copy is written, not where it
  runs, unless a NOP is put in front (`hook_impl.cpp:424`): a branch back to it
  enters the writable alias, or anywhere if that is out of the field's reach.
  `TargetsKept` and `StartsAtCopy` except it by name (`NotedWritten`).
- Of the states a game thread reads at once only the first is blanked behind an
  open menu (`imgui_nvn.cpp:153`); `GameSeesNothingBehindMenu` is about that one.
- A time written between the hook's load of the one before and its reset of
  `desiredTime` is lost (`patches.cpp:73`): `NoSecondLoad` says at most once.

## 6. Not modelled

Of the modelled components:

- *Practice core:* free-look pitch, FOV, roll, exposure, health refill.
- *Settings:* an abort when the file opens but cannot be read (it ends the
  process), JSON members of another type, and the helpers nothing calls.
- *Input:* keyboard, mouse, touch and the axes of the sticks.
- *Relocation:* an `ADRP` whose page starts inside the copied instructions, and
  `MaxReferences`, which five instructions cannot exceed.
- *Installation:* replacing without a trampoline and inline hooks, which the
  program does not install; hooking under running threads, and with it the
  order of the words and of `Orig` (`hook_impl.cpp:612`, `trampoline.hpp:49`):
  the program installs before the game starts.
- *Module discovery:* `FindRegions`, a few questions to the kernel.
- *Aliases:* moved objects, caches; two threads that claim at once (the lock of
  `virtmem` is taken by neither, and only the starting thread claims).
- *Overlay:* the program, uniforms, polygon, colour, blend, vertex and viewport
  state that it sets on the queue (`imgui_impl_nvn.cpp:490-516`, `584-594`,
  `635-638`): `presentTexture` does not restore them, so what the game would draw
  if it relied on them across submissions is not covered; one queue is assumed.
  Textures, scale and crop of the screen, `imgui.ini`, and how far the GPU lags behind: the one vertex buffer is written while an
  earlier frame may still be drawn from it (`imgui_impl_nvn.cpp:614`), and
  whether it is depends on the driver, which is not in the source.

Other components, with the reason:

- *Inventory menu, on-screen display, room list, flag menu:* widgets that call
  the game or print what they read; they keep no state, and the rules of the
  state they touch are the game's, which is not in the source.
- *Exception handler:* writes a log and lets the process end. Its walk along
  the frames stops at a null frame or one that points to itself; whether it
  ends depends only on the stack it is given.
- *Code patchers:* none of the program's code uses them.
- *Own relocation:* the full linker in `lib/reloc` is the one of the platform,
  vendored; it runs on ELF tables, a binary format.
- *Shader compiler glue, font, shaders:* file formats and data.
- *Instruction encoders:* bit layout, checked by static assertions.
- *System calls, start code, reboot, SDK and NVN headers, logger, building:* thin
  wrappers, declarations, text. Of the 32 934 lines of the repository about
  14 000 are the headers of NVN, the kernel's calls and the SDK, and most of
  the rest declares the game's classes or tables; what remains to model faithfully is a few
  thousand lines, of which this project maps about 2 000.

## 7. Plan

Modelled, checked and proved as far as section 4 says: PracticePosition,
Handoff, SettingsStore, MenuInput, FixInstructions, Startup (ModuleScan and
HookInstall), CodeAlias, NvnOverlay. What is left, in this order:

1. **MenuSwitch**: an abstract "open or closed, flipped once per click" that
   MenuInput is shown to implement and PracticePosition to use.
2. NvnOverlay with a GPU that lags, once the driver's queue depth is known.
3. Keyboard, mouse and touch beside the pad in MenuInput.
