------------------------------- MODULE Startup -------------------------------
(***************************************************************************)
(* The start of the program: exl_init finds the modules and makes the      *)
(* writable alias of the game's code, exl_main makes that of the hook pool *)
(* and installs the hooks; then the game runs and calls what is hooked.    *)
(***************************************************************************)
EXTENDS ModuleScan, HookInstall

VARIABLE stage

vars == <<map, scanVars, layoutVars, hookVars, callVars, stage>>

TypeOK ==
  /\ ScanTypeOK /\ HookTypeOK
  /\ stage \in {"InitMemLayout", "InitPatcherImpl", "Initialize", "install",
                "running"}

Init == ScanInit /\ HookInit /\ stage = "InitMemLayout"

unhooked == UNCHANGED <<layoutVars, hookVars, callVars>>
scanned == UNCHANGED <<map, scanVars>>

FindModules ==
  /\ stage = "InitMemLayout"
  /\ ScanNext
  /\ stage' = IF state' = "found" THEN "InitPatcherImpl" ELSE stage
  /\ unhooked

\* GetMainModuleInfo is module 1.
s_MainModuleIdx == 1

InitPatcherImpl ==
  /\ stage = "InitPatcherImpl" /\ ~failed
  /\ \/ Abort /\ UNCHANGED <<layoutVars, callVars, stage>>
     \/ HasModule(s_MainModuleIdx) /\ stage' = "Initialize" /\ unhooked
  /\ scanned

\* hook::Initialize: the alias of the pool of trampolines.
Initialize ==
  /\ stage = "Initialize" /\ ~failed
  /\ \/ Abort /\ UNCHANGED <<layoutVars, callVars, stage>>
     \/ stage' = "install" /\ unhooked
  /\ scanned

\* runCodePatches and InstallHooks.
InstallHooks ==
  /\ stage = "install" /\ ~failed
  /\ Install
  /\ stage' = IF installed' = Len(Plan) THEN "running" ELSE "install"
  /\ scanned

Game == /\ stage = "running"
        /\ \E f \in Function : Call(f)
        /\ scanned /\ UNCHANGED stage
Calls == /\ stage = "running" /\ Run
         /\ scanned /\ UNCHANGED stage

Next == FindModules \/ InitPatcherImpl \/ Initialize \/ InstallHooks
        \/ Game \/ Calls

\* A thread that executes goes on.
Spec == Init /\ [][Next]_vars /\ WF_vars(Calls)

=============================================================================
