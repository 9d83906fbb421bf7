---------------------------- MODULE GameCommands ----------------------------
(***************************************************************************)
(* The pools the game draws with when nobody interferes: it records        *)
(* commands into buffers and submits them to one queue, which executes     *)
(* them in order.  The texture pool and the sampler pool are state of the  *)
(* queue: a draw uses those set last, in its own buffer or in an earlier   *)
(* one.  The queue has more state, which is not here.                      *)
(***************************************************************************)
EXTENDS Integers, Sequences

CONSTANTS
  Buffer,       \* command buffers
  Pool,         \* the game's texture pools and sampler pools
  Closed        \* a buffer that is not being recorded

Kind == {"texture", "sampler"}
draw == [set |-> "draw", pool |-> Closed]
Command == [set : Kind, pool : Pool] \cup {draw}

VARIABLES
  recording,    \* per buffer, the commands recorded so far, or Closed
  pools,        \* the queue's pools
  saw           \* the pools each draw of the last submission used

commandVars == <<recording, pools, saw>>

\* The pools after command c.
Set(p, c) == IF c = draw THEN p ELSE [p EXCEPT ![c.set] = c.pool]

\* The pools before command i of a submission, and what its draws use.
Before(p, commands) ==
  LET at[i \in 1 .. Len(commands) + 1] ==
        IF i = 1 THEN p ELSE Set(at[i - 1], commands[i - 1])
  IN at
After(p, commands) == Before(p, commands)[Len(commands) + 1]
Uses(p, commands) ==
  LET used[i \in 0 .. Len(commands)] ==
        IF i = 0 THEN << >>
        ELSE IF commands[i] = draw
             THEN Append(used[i - 1], Before(p, commands)[i])
             ELSE used[i - 1]
  IN used[Len(commands)]

CommandsInit ==
  /\ recording = [b \in Buffer |-> Closed]
  /\ pools \in [Kind -> {Closed}]
  /\ saw = << >>

Begin(b) ==
  /\ recording[b] = Closed
  /\ recording' = [recording EXCEPT ![b] = << >>]
  /\ UNCHANGED <<pools, saw>>

Record(b, c) ==
  /\ recording[b] # Closed
  /\ recording' = [recording EXCEPT ![b] = Append(@, c)]
  /\ UNCHANGED <<pools, saw>>

Submit(b) ==
  /\ recording[b] # Closed
  /\ recording' = [recording EXCEPT ![b] = Closed]
  /\ saw' = Uses(pools, recording[b])
  /\ pools' = After(pools, recording[b])

CommandsNext ==
  \E b \in Buffer : \/ Begin(b) \/ Submit(b)
                    \/ \E c \in Command : Record(b, c)

CommandsSpec == CommandsInit /\ [][CommandsNext]_commandVars
=============================================================================
