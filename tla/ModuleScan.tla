------------------------------ MODULE ModuleScan ------------------------------
(***************************************************************************)
(* FindModules: walks the memory map once and takes three neighbouring     *)
(* regions, code, read-only data and data, for a module.  The index of a   *)
(* module decides what it is: the game is module 1.                        *)
(*                                                                         *)
(* Abstracted: a region is its kind and the module it is of; an address is *)
(* the number of its region.                                               *)
(***************************************************************************)
EXTENDS Integers, Sequences, FiniteSets

CONSTANTS
  s_MaxModules,   \* bound: 13 in the code
  Maps,           \* bound: the memory maps met
  Self            \* this module

Kind == {"rx", "r", "rw", "other"}

\* The regions where a module of a map begins.
Begins(m) == {i \in 1 .. Len(m) - 2 : /\ m[i].kind = "rx"
                                      /\ m[i + 1].kind = "r"
                                      /\ m[i + 2].kind = "rw"}

\* The first region, from address 0, is not code.
ASSUME MaxModulesAssumption == s_MaxModules \in Nat
ASSUME MapsAssumption ==
  \A m \in Maps : /\ m \in Seq([kind : Kind, of : STRING])
                  /\ m # << >> /\ m[1].kind = "other"

VARIABLES
  map,            \* the memory map
  at,             \* the region that is queried next
  state,          \* FindModules's state
  curModInfo,     \* the regions collected
  s_ModuleInfos,  \* the modules found
  s_SelfModuleIdx

scanVars == <<at, state, curModInfo, s_ModuleInfos, s_SelfModuleIdx>>

Scanning == {"LookingForCodeStatic", "ExpectingRodata", "ExpectingData"}

ScanTypeOK ==
  /\ map \in Maps
  /\ at \in 1 .. Len(map) + 2
  /\ state \in Scanning \cup {"found", "aborted"}
  /\ Len(curModInfo) < 3
  /\ \A i \in DOMAIN curModInfo : curModInfo[i] \in DOMAIN map
  /\ Len(s_ModuleInfos) <= s_MaxModules
  /\ s_SelfModuleIdx \in -1 .. s_MaxModules - 1

ScanInit ==
  /\ map \in Maps
  /\ at = 1
  /\ state = "LookingForCodeStatic"
  /\ curModInfo = << >>
  /\ s_ModuleInfos = << >>
  /\ s_SelfModuleIdx = -1

\* The region after the last one is the first one again.
region == IF at > Len(map) THEN 1 ELSE at
kind == map[region].kind
Wrapped == at > Len(map) + 1

\* A round of the loop, unless there are too many modules already.
Room == Len(s_ModuleInfos) < s_MaxModules
Round(s) ==
  /\ state = s /\ ~Wrapped
  /\ Room
  /\ at' = at + 1
  /\ UNCHANGED map

TooManyStaticModules ==
  /\ state \in Scanning /\ ~Wrapped
  /\ ~Room
  /\ state' = "aborted"
  /\ UNCHANGED <<map, at, curModInfo, s_ModuleInfos, s_SelfModuleIdx>>

LookForCodeStatic ==
  /\ Round("LookingForCodeStatic")
  /\ \/ kind = "rx" /\ curModInfo' = <<region>> /\ state' = "ExpectingRodata"
     \/ kind # "rx" /\ UNCHANGED <<curModInfo, state>>
  /\ UNCHANGED <<s_ModuleInfos, s_SelfModuleIdx>>

reset == curModInfo' = << >> /\ state' = "LookingForCodeStatic"

ExpectRodata ==
  /\ Round("ExpectingRodata")
  /\ \/ /\ kind = "r"
        /\ curModInfo' = Append(curModInfo, region)
        /\ state' = "ExpectingData"
     \/ kind # "r" /\ reset
  /\ UNCHANGED <<s_ModuleInfos, s_SelfModuleIdx>>

\* The modules after a region that completes one.
Completed == Append(s_ModuleInfos, Append(curModInfo, region))

Bug_ResetForgotten == curModInfo' = curModInfo /\ state' = "ExpectingData"
NotAModule == reset

ExpectData ==
  /\ Round("ExpectingData")
  /\ \/ /\ kind = "rw"
        /\ s_ModuleInfos' = Completed
        /\ s_SelfModuleIdx' = IF map[curModInfo[1]].of = Self
                              THEN Len(s_ModuleInfos) ELSE s_SelfModuleIdx
        /\ reset
     \/ /\ kind # "rw"
        /\ NotAModule
        /\ UNCHANGED <<s_ModuleInfos, s_SelfModuleIdx>>

\* The assertions after the loop.
EndScan ==
  /\ state \in Scanning /\ Wrapped
  /\ state' = IF s_SelfModuleIdx # -1 /\ s_ModuleInfos # << >>
              THEN "found" ELSE "aborted"
  /\ UNCHANGED <<map, at, curModInfo, s_ModuleInfos, s_SelfModuleIdx>>

ScanNext == \/ TooManyStaticModules \/ LookForCodeStatic \/ ExpectRodata
            \/ ExpectData \/ EndScan

\* GetModuleInfo: the module's name, by the region its code is in.
ModuleAt(index) == map[s_ModuleInfos[index + 1][1]].of
HasModule(index) == index < Len(s_ModuleInfos)

-----------------------------------------------------------------------------
\* The region that ends what began like a module is not looked at again: a
\* module that begins there is skipped, without a word.
Cut(i) == \/ map[i - 1].kind = "rx"
          \/ i > 2 /\ map[i - 2].kind = "rx" /\ map[i - 1].kind = "r"
Uncut == {i \in Begins(map) : ~Cut(i)}

Whole(i) == <<i, i + 1, i + 2>>
NotSeen == \A i \in Uncut : map[i].of # Self

(***************************************************************************)
(* A scan that ends has found nothing but modules, and every module of the *)
(* map that the code of a half module is not right in front of, in the     *)
(* order of their addresses, with all three of their regions; and which    *)
(* one it is itself.  It gives up only on a full table, which one with     *)
(* room for no other is to it, or if it did not see itself.                *)
(***************************************************************************)
FindsEveryModule ==
  /\ state = "found" =>
       /\ \A j \in DOMAIN s_ModuleInfos :
            \E i \in Begins(map) : s_ModuleInfos[j] = Whole(i)
       /\ \A i \in Uncut :
            \E j \in DOMAIN s_ModuleInfos : s_ModuleInfos[j] = Whole(i)
       /\ \A i, j \in DOMAIN s_ModuleInfos :
            i < j => s_ModuleInfos[i][1] < s_ModuleInfos[j][1]
       /\ ModuleAt(s_SelfModuleIdx) = Self
  /\ state = "aborted" =>
       Cardinality(Begins(map)) >= s_MaxModules \/ NotSeen

(***************************************************************************)
(* mem_layout.cpp:118, after the loop, allows s_MaxModules modules, and    *)
(* line 36 means to give up on "too many": a map with no more than that is *)
(* not given up, unless the program is not seen on it.                     *)
(***************************************************************************)
FullTableAccepted ==
  state = "aborted" => Cardinality(Begins(map)) > s_MaxModules \/ NotSeen
=============================================================================
