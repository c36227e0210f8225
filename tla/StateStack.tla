----------------------------- MODULE StateStack -----------------------------
(***************************************************************************)
(* How m6809make.py and the shim implement the notation of the listings:   *)
(* every place where execute_one() can be entered is a number, m_state is  *)
(* a stack of such numbers in 32 bits, 9 bits each, and behind every "@"   *)
(* line the instruction is suspended if the budget m_icount is used up, to *)
(* be resumed by a later call, for any budget that the caller gives.       *)
(*                                                                         *)
(* What a label does to registers and memory is left out: no value lives   *)
(* in a local variable across an "@" line, so that only control can differ *)
(* when an instruction is suspended.                                       *)
(***************************************************************************)
EXTENDS Naturals, Sequences

CONSTANTS
  First, Jumps, Callees, Ends, Waits,   \* as in CallStack
  OwnerOf,      \* OwnerOf[n]: the label that state n is in, or starts
  Interior,     \* the states behind an "@" line
  Conditional,  \* labels that can leave out some of their "@" lines
  MaxBudget     \* the largest budget of a call

States == DOMAIN OwnerOf

\* The states that continue at l, in front of its first line.
EntryStates(l) == {n \in States \ Interior : OwnerOf[n] = l}

(***************************************************************************)
(* State 0 is First, the states fit their 9 bits, and whatever is pushed   *)
(* has a state.  A called label does not call, and goes nowhere: what      *)
(* keeps the stack low.                                                    *)
(***************************************************************************)
Called == UNION {{c[1] : c \in Callees[l]} : l \in DOMAIN Callees}
Pushed == UNION {{c[2] : c \in Callees[l]} : l \in DOMAIN Callees}

ASSUME ListingAssumption ==
  /\ MaxBudget \in Nat
  /\ States \subseteq 0..511 /\ 0 \in States /\ Interior \subseteq States \ {0}
  /\ OwnerOf[0] = First
  /\ DOMAIN Callees = DOMAIN Jumps /\ "idle" \notin DOMAIN Jumps
  /\ First \in DOMAIN Jumps \ Pushed /\ Called \cup Pushed \subseteq DOMAIN Jumps
  /\ \A l \in DOMAIN Jumps : Jumps[l] \subseteq DOMAIN Jumps
  /\ \A l \in Called : Jumps[l] = {} /\ Callees[l] = {} /\ l \notin Waits

VARIABLES
  at,       \* the label reached in execute_one(), or "idle"
  pos,      \* the last place passed in it, 0 at its start
  m_state,
  icount,   \* what is left of the budget; 0 stands for all m_icount <= 0
  last      \* history: the last "@" line executed of the label under way

vars == <<at, pos, m_state, icount, last>>

Init == at = "idle" /\ pos = 0 /\ m_state = 0 /\ icount = 0 /\ last = 0

\* Mutants of Push: the frame replaces the others; it is pushed twice.
PushOver(n)  == n
PushTwice(n) == m_state * 512 * 512 + n * 512 + n
\* (m_state << 9) | state, in 32 bits.
Push(n) == (m_state % \h800000) * 512 + n

\* Mutant of ExecuteOne: a suspended label starts again.
ExecuteOneAgain ==
  /\ at = "idle"
  /\ LET n == m_state % 512
     IN  n \in States /\ at' = OwnerOf[n] /\ pos' = 0
  /\ m_state' = m_state \div 512
  /\ icount' \in {icount} \cup 1..MaxBudget
  /\ UNCHANGED last

\* pop_state() and the switch.  The caller may give a new budget.
ExecuteOne ==
  /\ at = "idle"
  /\ LET n == m_state % 512
     IN  /\ n \in States
         /\ at' = OwnerOf[n]
         /\ pos' = IF n \in Interior THEN n ELSE 0
  /\ m_state' = m_state \div 512
  /\ icount' \in {icount} \cup 1..MaxBudget
  /\ UNCHANGED last

(***************************************************************************)
(* The "@" lines that can come next.  A wait looks at its lines again.     *)
(***************************************************************************)
\* Mutant of Ahead: the line that was suspended comes again.
AheadAgain == {n \in Interior : OwnerOf[n] = at /\ n >= pos}
Ahead == {n \in Interior : OwnerOf[n] = at /\ n > pos}
NextLines ==
  IF at \in Waits THEN {n \in Interior : OwnerOf[n] = at}
  ELSE IF at \in Conditional THEN Ahead
  ELSE {n \in Ahead : \A k \in Ahead : n <= k}

\* What an "@" line leaves of the budget: it eats a cycle or more, in a wait all.
Left == IF at \in Waits \/ icount = 0 THEN {0} ELSE 0..(icount - 1)

\* Mutant of Line: an "@" line without its check.
LineUnchecked ==
  /\ at # "idle"
  /\ \E n \in NextLines :
       /\ icount' \in Left
       /\ last' = n
       /\ IF icount' = 0 /\ at \in Waits
          THEN at' = "idle" /\ pos' = 0 /\ m_state' = Push(n)
          ELSE pos' = n /\ UNCHANGED <<at, m_state>>

\* An "@" line, and "if (m_icount <= 0) { push_state(n); return; }".
Line ==
  /\ at # "idle"
  /\ \E n \in NextLines :
       /\ icount' \in Left
       /\ last' = n
       /\ IF icount' = 0 THEN at' = "idle" /\ pos' = 0 /\ m_state' = Push(n)
          ELSE pos' = n /\ UNCHANGED <<at, m_state>>

-----------------------------------------------------------------------------
(***************************************************************************)
(* The end of a label, behind its last checked line.                       *)
(***************************************************************************)
AtEnd == at # "idle" /\ (NextLines = {} \/ at \in Conditional \cup Waits)
Leave == AtEnd /\ pos' = 0 /\ last' = 0 /\ icount' \in 0..icount

Jump   == Leave /\ at' \in Jumps[at] /\ UNCHANGED m_state
Return == Leave /\ at \in Ends /\ at' = "idle" /\ UNCHANGED m_state
Call   == /\ Leave
          /\ \E c \in Callees[at] : \E n \in EntryStates(c[2]) :
               at' = c[1] /\ m_state' = Push(n)

Next == ExecuteOne \/ Line \/ Jump \/ Call \/ Return

Spec == Init /\ [][Next]_vars
\* One thread, and a caller that keeps calling.
FairSpec == Spec /\ WF_vars(Next)

-----------------------------------------------------------------------------
TypeOK ==
  /\ at \in DOMAIN Jumps \cup {"idle"}
  /\ pos \in Interior \cup {0} /\ last \in Interior \cup {0}
  /\ m_state \in Nat /\ icount \in 0..MaxBudget

(***************************************************************************)
(* A suspended instruction lies on top of what was already on the stack,   *)
(* so that two frames is the most m_state ever holds: the 32 bits have     *)
(* room for three, and drop the oldest without notice beyond that.         *)
(***************************************************************************)
TwoFrames == m_state < 512 * 512

(***************************************************************************)
(* No "@" line is left out or executed twice, however often the label is   *)
(* suspended: the label goes on behind the line it executed last, and      *)
(* m_state holds that place as long as the label is suspended.             *)
(***************************************************************************)
Suspended == at = "idle" /\ (m_state % 512) \in Interior
ResumesInPlace ==
  last = IF at # "idle" THEN pos ELSE IF Suspended THEN m_state % 512 ELSE 0

(***************************************************************************)
(* The numbers implement the notation, for every budget: a suspended label *)
(* is one that has not gone on yet, the numbers below it are the labels to *)
(* continue at (refinement of CallStack).                                  *)
(***************************************************************************)
Shift == <<1, 512, 512 * 512, 512 * 512 * 512>>
Depth(s) == IF s = 0 THEN 0 ELSE IF s < Shift[2] THEN 1 ELSE IF s < Shift[3] THEN 2
            ELSE IF s < Shift[4] THEN 3 ELSE 4
Frames(s) == [k \in 1..Depth(s) |-> OwnerOf[(s \div Shift[k]) % 512]]

Inside == Suspended /\ OwnerOf[m_state % 512] \notin Waits
NotationAt    == IF Inside THEN OwnerOf[m_state % 512] ELSE at
NotationStack == Frames(IF Inside THEN m_state \div 512 ELSE m_state)

Notation == INSTANCE CallStack WITH at <- NotationAt, stack <- NotationStack

ImplementsNotation == Notation!Spec

(***************************************************************************)
(* The caller gets control back again and again, also while memory holds   *)
(* one page prefix behind the other: every way around a loop of labels     *)
(* passes an "@" line.                                                     *)
(***************************************************************************)
CallerIsServed == []<>(at = "idle")

(***************************************************************************)
(* However small the budgets, instructions end (the loops of generate_test *)
(* and run_sanity_case see m_state = 0) unless one fetches prefixes or     *)
(* waits forever.                                                          *)
(***************************************************************************)
Fetches(l) == l \in Jumps[l]
InstructionsEnd ==
  \/ []<>(at = "idle" /\ m_state = 0)
  \/ []<>(at # "idle" /\ (at \in Waits \/ Fetches(at)))
=============================================================================
