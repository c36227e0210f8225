---------------------------- MODULE ContextStack ----------------------------
(***************************************************************************)
(* What interrupts promise to the program they interrupt, without the      *)
(* stack in memory, the register masks and the E flag: an interrupt saves  *)
(* the context, and the return from it restores the one saved last.        *)
(***************************************************************************)
EXTENDS Sequences

CONSTANTS
  Context,            \* what a program can see of the machine
  SavedByFast(_, _)   \* SavedByFast(c, d): c has the part of d that a fast
                      \* interrupt saves

VARIABLES
  context,   \* the context now
  saved      \* the interrupted contexts, latest first

vars == <<context, saved>>

Kinds == {"entire", "fast", "unmarked"}

Init == context \in Context /\ saved = <<>>

\* Anything a program, or an interrupt between its save and its handler, does.
Compute == context' \in Context /\ UNCHANGED saved

Interrupt(kind) ==
  /\ saved' = <<[kind |-> kind, context |-> context]>> \o saved
  /\ context' \in Context

\* An unmarked frame was saved entirely, but nothing in it says so.
Resume ==
  /\ saved # <<>>
  /\ saved' = Tail(saved)
  /\ context' \in Context
  /\ CASE Head(saved).kind = "entire"   -> context' = Head(saved).context
       [] Head(saved).kind = "fast"     -> SavedByFast(context', Head(saved).context)
       [] Head(saved).kind = "unmarked" -> TRUE

Next == Compute \/ (\E kind \in Kinds : Interrupt(kind)) \/ Resume

Spec == Init /\ [][Next]_vars
=============================================================================
