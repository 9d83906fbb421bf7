------------------------------ MODULE CodeAlias ------------------------------
(***************************************************************************)
(* RwPages: writable aliases of pages that only execute, with the search   *)
(* for free addresses, the list of reservations (virtmem) and the process  *)
(* handle that the mapping calls need.                                     *)
(*                                                                         *)
(* The constructor finds addresses, reserves them, obtains the handle and  *)
(* maps the code page range by page range; the destructor goes back.       *)
(* Everything runs in the one thread that starts the module; only the IPC  *)
(* trick for the handle starts a second one.                               *)
(*                                                                         *)
(* Abstracted: a page is a number and its contents are the page itself, so *)
(* that two pages never read the same; addresses count words.              *)
(***************************************************************************)
EXTENDS Integers, FiniteSets

CONSTANTS
  PAGE_SIZE,     \* bound: words per page
  LastPage,      \* bound: the pages of the address space, 0 .. LastPage
  Occupied,      \* the pages mapped from the start, the code among them
  Avoided,       \* the alias and heap regions
  RangeStart,    \* pages where a range of equal permissions begins
  Claim,         \* bound: the objects of class RwPages
  Ro, Size,      \* per claim, the words of code it is made for
  NULL           \* no claim, no page, no address

Page == 0 .. LastPage
Word == 0 .. (LastPage + 1) * PAGE_SIZE - 1

PageOf(a) == a \div PAGE_SIZE

ASSUME PageSizeAssumption == PAGE_SIZE \in Nat \ {0}
ASSUME PageAssumption ==
  /\ LastPage \in Nat
  /\ Occupied \subseteq Page /\ Avoided \subseteq Page
  /\ RangeStart \subseteq Page
ASSUME ClaimAssumption ==
  /\ IsFiniteSet(Claim)
  /\ Ro \in [Claim -> Word] /\ Size \in [Claim -> Nat \ {0}]
  /\ \A c \in Claim :
       PageOf(Ro[c]) .. PageOf(Ro[c] + Size[c] - 1) \subseteq Occupied
ASSUME NullAssumption == NULL \notin Claim /\ NULL \notin Page

VARIABLES
  pc,            \* where the starting thread is in RwPages
  cur,           \* the object being constructed or destroyed
  cause,         \* why the program aborted
  memory,        \* per page, the page of memory behind it (the kernel's)
  done,          \* pages of cur mapped or unmapped so far
  live,          \* the objects constructed and not destroyed
  alignedRw,     \* per object, the page of its alias
  \* virtmem.c
  g_Reservations, next, prev,
  \* cur_proc_handle.cpp
  s_Handle,      \* TRUE once it holds the process's handle
  server         \* the thread of GetViaIpcTrick

listVars == <<g_Reservations, next, prev>>
handleVars == <<s_Handle, server>>
vars == <<pc, cur, cause, memory, done, live, alignedRw, listVars, handleVars>>

\* Claim::GetAlignedRo and GetAlignedSize, in pages.  The size is rounded up
\* alone, whatever the offset of m_Ro in its page.
GetAlignedRo(c) == PageOf(Ro[c])
GetAlignedSize(c) == (Size[c] + PAGE_SIZE - 1) \div PAGE_SIZE
m_Rw(c) == alignedRw[c] * PAGE_SIZE + (Ro[c] % PAGE_SIZE)

Region(c) == alignedRw[c] .. alignedRw[c] + GetAlignedSize(c) - 1

Mapping == {"mapping", "unmapping"}

TypeOK ==
  /\ pc \in {"idle", "finding", "reserving", "handle", "sending", "joining",
             "checking", "removing", "dead"} \cup Mapping
  /\ cur \in Claim \cup {NULL}
  /\ cause \in {"none", "no address", "no memory", "no session", "kernel",
               "memcmp"}
  /\ memory \in [Page -> Page \cup {NULL}]
  /\ done \in 0 .. IF cur = NULL THEN 0 ELSE GetAlignedSize(cur)
  /\ live \subseteq Claim
  /\ alignedRw \in [Claim -> Page \cup {NULL}]
  /\ g_Reservations \in Claim \cup {NULL}
  /\ next \in [Claim -> Claim \cup {NULL}]
  /\ prev \in [Claim -> Claim \cup {NULL}]
  /\ s_Handle \in BOOLEAN
  /\ server \in {"none", "receiving", "received", "set", "closed", "exited"}

Init ==
  /\ pc = "idle" /\ cur = NULL /\ cause = "none"
  /\ memory = [p \in Page |-> IF p \in Occupied THEN p ELSE NULL]
  /\ done = 0 /\ live = {}
  /\ alignedRw = [c \in Claim |-> NULL]
  /\ g_Reservations = NULL
  /\ next = [c \in Claim |-> NULL] /\ prev = [c \in Claim |-> NULL]
  /\ s_Handle = FALSE /\ server = "none"

-----------------------------------------------------------------------------
\* The program aborts.
Die(why) ==
  /\ pc' = "dead" /\ cause' = why
  /\ UNCHANGED <<cur, memory, done, live, alignedRw, listVars, handleVars>>

Construct(c) ==
  /\ pc = "idle" /\ c \notin live
  /\ pc' = "finding" /\ cur' = c /\ done' = 0
  /\ UNCHANGED <<cause, memory, live, alignedRw, listVars, handleVars>>

\* The reservations met on the way from the head of the list along next.
Walked ==
  LET at[i \in 0 .. Cardinality(Claim)] ==
        IF i = 0 THEN g_Reservations
        ELSE IF at[i - 1] = NULL THEN NULL ELSE next[at[i - 1]]
  IN {at[i] : i \in DOMAIN at} \ {NULL}

\* _memregionFindRandom takes a run of pages in no other region, mapped by
\* nobody and reserved by nobody.
FreeAddress(p, n) ==
  /\ p .. p + n - 1 \subseteq Page \ Avoided
  /\ \A q \in p .. p + n - 1 : memory[q] = NULL
  /\ \A c \in Walked : Region(c) \cap (p .. p + n - 1) = {}

\* virtmemFindAslr: a free address, or none after 512 random attempts.
Find ==
  /\ pc = "finding"
  /\ \/ \E p \in Page :
          /\ FreeAddress(p, GetAlignedSize(cur))
          /\ pc' = "reserving"
          /\ alignedRw' = [alignedRw EXCEPT ![cur] = p]
          /\ UNCHANGED <<cur, cause, memory, done, live, listVars, handleVars>>
     \/ /\ \E p \in Page : ~FreeAddress(p, GetAlignedSize(cur))
        /\ Die("no address")

\* virtmemAddReservation pushes a new node in front of the list.
Reserve ==
  /\ pc = "reserving"
  /\ \/ /\ pc' = "handle"
        /\ g_Reservations' = cur
        /\ next' = [next EXCEPT ![cur] = g_Reservations]
        /\ prev' = [c \in Claim |->
                      IF c = cur THEN NULL
                      ELSE IF c = g_Reservations THEN cur ELSE prev[c]]
        /\ UNCHANGED <<cur, cause, memory, done, live, alignedRw, handleVars>>
     \/ Die("no memory")

-----------------------------------------------------------------------------
(***************************************************************************)
(* proc_handle::Get.  The handle may be had of the kernel (mesosphere);    *)
(* else a thread receives it in a message that this thread sends, closes   *)
(* the session without an answer, and exits.  Its stack is this function's.*)
(* Without a session, or a thread that starts, the program aborts.         *)
(***************************************************************************)
AfterHandle == IF cur \in live THEN "unmapping" ELSE "mapping"

GetHandle ==
  /\ pc = "handle"
  /\ \/ /\ \/ s_Handle /\ pc' = AfterHandle /\ UNCHANGED handleVars
           \/ /\ ~s_Handle /\ s_Handle' = TRUE /\ pc' = AfterHandle
              /\ UNCHANGED server
           \/ /\ ~s_Handle /\ pc' = "sending"
              /\ server' = "receiving" /\ UNCHANGED s_Handle
        /\ UNCHANGED <<cur, cause, memory, done, live, alignedRw, listVars>>
     \/ ~s_Handle /\ Die("no session")

\* svcReplyAndReceive returns with the message; the handle is taken from it.
Receive ==
  /\ server = "receiving" /\ pc = "sending"
  /\ server' = "received"
  /\ UNCHANGED <<pc, cur, cause, memory, done, live, alignedRw, listVars,
                 s_Handle>>

Store ==
  /\ server = "received"
  /\ server' = "set" /\ s_Handle' = TRUE
  /\ UNCHANGED <<pc, cur, cause, memory, done, live, alignedRw, listVars>>

\* What svcCloseHandle of the session leaves of it.
Bug_LeftOpen == "set"
Closed == "closed"
CloseSession ==
  /\ server = "set"
  /\ server' = Closed
  /\ UNCHANGED <<pc, cur, cause, memory, done, live, alignedRw, listVars,
                 s_Handle>>

ExitThread ==
  /\ server = "closed"
  /\ server' = "exited"
  /\ UNCHANGED <<pc, cur, cause, memory, done, live, alignedRw, listVars,
                 s_Handle>>

\* svcSendSyncRequest fails once the session is closed.
Bug_NotJoined == {"closed", "exited"}
Joinable == {"exited"}
Send ==
  /\ pc = "sending" /\ server \in {"closed", "exited"}
  /\ pc' = "joining"
  /\ UNCHANGED <<cur, cause, memory, done, live, alignedRw, listVars,
                 handleVars>>

\* svcWaitSynchronizationSingle on the thread.
Join ==
  /\ pc = "joining" /\ server \in Joinable
  /\ pc' = AfterHandle
  /\ UNCHANGED <<cur, cause, memory, done, live, alignedRw, listVars,
                 handleVars>>

-----------------------------------------------------------------------------
\* ForEachMemRange: where the range of equal permissions ends that page done of
\* the claim lies in, or the claim.
RangeEnds ==
  {end \in done + 1 .. GetAlignedSize(cur) :
     /\ \A i \in done + 1 .. end - 1 : GetAlignedRo(cur) + i \notin RangeStart
     /\ \/ end = GetAlignedSize(cur)
        \/ GetAlignedRo(cur) + end \in RangeStart}

\* Where page i of the claim goes, in a callback for pages from offset first.
Bug_PageAt(i, first) == alignedRw[cur] + (i - first)
PageAt(i, first) == alignedRw[cur] + i

\* svcMapProcessMemory of one range: the kernel maps over nothing only.
MapRange ==
  /\ pc = "mapping"
  /\ \E end \in RangeEnds : LET pages == done .. end - 1 IN
       \/ /\ \A i \in pages : memory[PageAt(i, done)] = NULL
          /\ memory' = [p \in Page |->
               IF \E i \in pages : p = PageAt(i, done)
               THEN GetAlignedRo(cur)
                      + (CHOOSE i \in pages : p = PageAt(i, done))
               ELSE memory[p]]
          /\ done' = end
          /\ pc' = IF end = GetAlignedSize(cur) THEN "checking" ELSE "mapping"
          /\ UNCHANGED <<cur, cause, live, alignedRw, listVars, handleVars>>
       \/ /\ \E i \in pages : memory[PageAt(i, done)] # NULL
          /\ Die("kernel")

\* memcmp of the code with what the alias shows of it.
ShowsCode(c) ==
  \A i \in 0 .. Size[c] - 1 :
    /\ PageOf(m_Rw(c) + i) \in Page
    /\ memory[PageOf(m_Rw(c) + i)] = PageOf(Ro[c] + i)
Bug_SameData == TRUE
SameData == ShowsCode(cur)

Check ==
  /\ pc = "checking"
  /\ \/ /\ SameData
        /\ pc' = "idle" /\ live' = live \cup {cur} /\ cur' = NULL /\ done' = 0
        /\ UNCHANGED <<cause, memory, alignedRw, listVars, handleVars>>
     \/ ~SameData /\ Die("memcmp")

-----------------------------------------------------------------------------
\* ~RwPages of an object that was not moved from.
Destruct(c) ==
  /\ pc = "idle" /\ c \in live
  /\ pc' = "handle" /\ cur' = c /\ done' = 0
  /\ UNCHANGED <<cause, memory, live, alignedRw, listVars, handleVars>>

\* The pages svcUnmapProcessMemory is given; it wants the code behind them.
Bug_PagesUnmapped(end) == done .. end - 2
PagesUnmapped(end) == done .. end - 1
UnmapRange ==
  /\ pc = "unmapping"
  /\ \E end \in RangeEnds : LET pages == done .. end - 1 IN
       \/ /\ \A i \in pages : memory[PageAt(i, done)] = GetAlignedRo(cur) + i
          /\ memory' = [p \in Page |->
               IF \E i \in PagesUnmapped(end) : p = PageAt(i, done)
               THEN NULL ELSE memory[p]]
          /\ done' = end
          /\ pc' = IF end = GetAlignedSize(cur) THEN "removing" ELSE "unmapping"
          /\ UNCHANGED <<cur, cause, live, alignedRw, listVars, handleVars>>
       \/ /\ \E i \in pages : memory[PageAt(i, done)] # GetAlignedRo(cur) + i
          /\ Die("kernel")

\* virtmemRemoveReservation of node c: the prev fields after it.
Bug_PrevAfter(c) == prev
PrevAfter(c) ==
  IF next[c] = NULL THEN prev ELSE [prev EXCEPT ![next[c]] = prev[c]]

NextAfter(c) ==
  IF prev[c] = NULL THEN next ELSE [next EXCEPT ![prev[c]] = next[c]]

\* The node is freed and the object is gone: their fields keep no value.
Remove ==
  /\ pc = "removing"
  /\ prev' = [PrevAfter(cur) EXCEPT ![cur] = NULL]
  /\ next' = [NextAfter(cur) EXCEPT ![cur] = NULL]
  /\ g_Reservations' = IF prev[cur] = NULL THEN next[cur] ELSE g_Reservations
  /\ pc' = "idle" /\ live' = live \ {cur} /\ cur' = NULL /\ done' = 0
  /\ alignedRw' = [alignedRw EXCEPT ![cur] = NULL]
  /\ UNCHANGED <<cause, memory, handleVars>>

Server == Receive \/ Store \/ CloseSession \/ ExitThread
Proceed == \/ Find \/ Reserve \/ GetHandle \/ Send \/ Join
           \/ MapRange \/ Check \/ UnmapRange \/ Remove

Next == Proceed \/ Server \/ \E c \in Claim : Construct(c) \/ Destruct(c)

\* The kernel runs both threads; nobody has to claim or to release.
Spec == Init /\ [][Next]_vars /\ WF_vars(Proceed) /\ WF_vars(Server)

-----------------------------------------------------------------------------
(***************************************************************************)
(* The objects whose node is in the list: those that are constructed, and  *)
(* one whose constructor has got past virtmemAddReservation.               *)
(***************************************************************************)
Reserved ==
  live \cup IF \/ pc \in {"handle", "sending", "joining", "mapping", "checking"}
               \/ cause \in {"no session", "kernel", "memcmp"}
            THEN {cur} ELSE {}

(***************************************************************************)
(* Whatever order objects go away in, the list of reservations holds those *)
(* of the objects that exist, and prev leads back along next.              *)
(***************************************************************************)
ListIsReservations ==
  /\ Walked = Reserved
  /\ g_Reservations # NULL => prev[g_Reservations] = NULL
  /\ \A c \in Walked : next[c] # NULL => prev[next[c]] = c

(***************************************************************************)
(* "Ensure the data at the different mapping is the same": what an object  *)
(* in use shows stays the code it was made for, up to its last word, also  *)
(* while other objects are made and destroyed.                             *)
(***************************************************************************)
AliasShowsCode == \A c \in live \ {cur} : ShowsCode(c)

\* The code of claim c ends in a page after those its aligned size counts.
CrossesPage(c) ==
  GetAlignedRo(c) + GetAlignedSize(c) <= PageOf(Ro[c] + Size[c] - 1)

(***************************************************************************)
(* A claim fails for want of addresses, of memory, or of a session for the *)
(* handle and for no other reason, unless its code crosses a page: then    *)
(* the constructor maps one page too few.  The kernel never finds a page   *)
(* mapped that the search took for free, nor other code behind an alias    *)
(* than was mapped there.                                                  *)
(***************************************************************************)
DiesOnlyForCause ==
  pc = "dead" => \/ cause \in {"no address", "no memory", "no session"}
                 \/ cause = "memcmp" /\ CrossesPage(cur)

(***************************************************************************)
(* When pages are mapped or unmapped the handle is there, and the thread   *)
(* that fetched it has left its stack, which is gone with GetViaIpcTrick.  *)
(***************************************************************************)
HandleBeforeUse ==
  pc \in Mapping => s_Handle /\ server \in {"none", "exited"}

(***************************************************************************)
(* A constructor or destructor ends, also when the handle has to come by   *)
(* the session: neither thread waits for ever for the other.               *)
(***************************************************************************)
ClaimEnds == pc # "idle" ~> pc \in {"idle", "dead"}

(***************************************************************************)
(* RwPages implements CodeWindows: seen without the pages of the object at *)
(* work, windows open and close whole, onto the right code, in pages that  *)
(* show nothing else, and leave nothing behind.                            *)
(***************************************************************************)
AtWork == IF cur = NULL \/ alignedRw[cur] = NULL THEN {} ELSE Region(cur)

Windows == INSTANCE CodeWindows WITH
  First <- [c \in Claim |-> GetAlignedRo(c)],
  Count <- [c \in Claim |-> GetAlignedSize(c)],
  Nothing <- NULL,
  opened <- [c \in Claim |->
               IF c \in live \ {cur} THEN alignedRw[c] ELSE NULL],
  shows <- [p \in Page |-> IF p \in AtWork THEN NULL ELSE memory[p]]

OpensWindows == Windows!WindowSpec
=============================================================================
