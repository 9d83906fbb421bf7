----------------------------- MODULE CodeWindows -----------------------------
(***************************************************************************)
(* What RwPages promises: while a claim is held, a run of pages of its own *)
(* shows the pages of code that it was made for, in their order, so that a *)
(* write through it reaches that code and nothing else.                    *)
(***************************************************************************)
EXTENDS Integers

CONSTANTS
  Claim,        \* the claims made during a run
  Page,         \* the pages of the address space
  First, Count, \* per claim, its first page of code and how many it takes
  Nothing       \* not a page: what a page with no memory behind it shows

VARIABLES
  opened,       \* per claim, the first page of its window, or Nothing
  shows         \* per page, the page of memory behind it, or Nothing

windowVars == <<opened, shows>>

\* The pages of a window of claim c that begins at p.
Window(c, p) == p .. p + Count[c] - 1

\* Every page of code shows itself; no window is open.
WindowInit ==
  /\ opened = [c \in Claim |-> Nothing]
  /\ shows \in [Page -> Page \cup {Nothing}]
  /\ \A p \in Page : shows[p] \in {p, Nothing}

Open(c) ==
  /\ opened[c] = Nothing
  /\ \E p \in Page :
       /\ Window(c, p) \subseteq Page
       /\ \A q \in Window(c, p) : shows[q] = Nothing
       /\ opened' = [opened EXCEPT ![c] = p]
       /\ shows' = [q \in Page |-> IF q \in Window(c, p)
                                   THEN First[c] + (q - p) ELSE shows[q]]

Close(c) ==
  /\ opened[c] # Nothing
  /\ opened' = [opened EXCEPT ![c] = Nothing]
  /\ shows' = [q \in Page |-> IF q \in Window(c, opened[c])
                              THEN Nothing ELSE shows[q]]

WindowNext == \E c \in Claim : Open(c) \/ Close(c)

WindowSpec == WindowInit /\ [][WindowNext]_windowVars
=============================================================================
