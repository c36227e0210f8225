------------------------------ MODULE CallStack ------------------------------
(***************************************************************************)
(* What the notation of the listings m6809.lst and base6x09.lst promises   *)
(* to their author: labels that go to one another, call one another with a *)
(* label or a piece of code to go on with ("%X; %Y; return;" and "%X;"),   *)
(* return, or wait for the caller.  execute_one() enters the label on top  *)
(* of the stack, or First if there is none, and runs to a return.          *)
(***************************************************************************)
EXTENDS Sequences

CONSTANTS
  First,    \* the label of an empty stack
  Jumps,    \* Jumps[l]: the labels that l goes to
  Callees,  \* Callees[l]: the pairs <<called, continuation>> of l
  Ends,     \* the labels that return
  Waits     \* the labels that return to be entered again

VARIABLES at, stack   \* the label reached, or "idle", and the continuations
vars == <<at, stack>>

Init == at = "idle" /\ stack = <<>>

Enter ==
  /\ at = "idle"
  /\ at' = IF stack = <<>> THEN First ELSE Head(stack)
  /\ stack' = IF stack = <<>> THEN <<>> ELSE Tail(stack)

Jump   == at # "idle" /\ at' \in Jumps[at] /\ UNCHANGED stack
Call   == /\ at # "idle"
          /\ \E c \in Callees[at] : at' = c[1] /\ stack' = <<c[2]>> \o stack
Return == at \in Ends /\ at' = "idle" /\ UNCHANGED stack
Wait   == at \in Waits /\ at' = "idle" /\ stack' = <<at>> \o stack

Next == Enter \/ Jump \/ Call \/ Return \/ Wait
Spec == Init /\ [][Next]_vars
=============================================================================
