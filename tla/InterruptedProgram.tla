------------------------- MODULE InterruptedProgram -------------------------
(***************************************************************************)
(* The core runs a program while an environment moves the interrupt lines  *)
(* between two calls of execute_one().  In this repository the caller      *)
(* (generate_test) holds the lines clear; the environment here is the one  *)
(* that the labels of base6x09.lst are written for: NMI is an edge that    *)
(* m_nmi_asserted remembers, FIRQ and IRQ are levels, and the caller gives *)
(* a fresh budget and log with every call.                                 *)
(***************************************************************************)
EXTENDS M6809Interrupts

CONSTANT MaxRaises   \* how often each line is raised
ASSUME MaxRaisesAssumption == MaxRaises \in [Lines -> Nat]

VARIABLES
  raised,     \* how often each line was raised
  served,     \* how often the vector of the NMI was taken
  saved,      \* history: the contexts on the stack in memory, latest first
  returning   \* history: the registers being pulled are those of an RTI

programVars == <<raised, served, saved, returning>>
vars == <<coreVars, programVars>>

ProgramInit ==
  /\ reg = [pc |-> \h1000, s |-> \h8000, u |-> 0, x |-> 0, y |-> 0,
            dp |-> 0, a |-> 0, b |-> \h11]
  /\ cc = {"I", "F"} /\ lds = FALSE /\ line = {}
  /\ mem = [a \in {} |-> 0] /\ bus = <<>> /\ icount = InitialIcount
  /\ ea = 0 /\ mode = "imm" /\ regop = "none" /\ temp = 0 /\ cond = FALSE
  /\ freeRun = FALSE /\ at = "idle" /\ stack = <<>>
  /\ raised = [l \in Lines |-> 0] /\ served = 0 /\ saved = <<>> /\ returning = FALSE

-----------------------------------------------------------------------------
Raise(l) ==
  /\ at = "idle"
  /\ l \notin line /\ raised[l] < MaxRaises[l]
  /\ line' = line \cup {l}
  /\ raised' = [raised EXCEPT ![l] = @ + 1]
  /\ UNCHANGED <<reg, cc, lds, mem, bus, icount, latches, freeRun, at, stack,
                 served, saved, returning>>

\* Only the levels can be withdrawn.
Lower(l) ==
  /\ at = "idle"
  /\ l \in line \ {"nmi"}
  /\ line' = line \ {l}
  /\ UNCHANGED <<reg, cc, lds, mem, bus, icount, latches, freeRun, at, stack,
                 programVars>>

\* pop_state(), on a fresh budget.
Execute ==
  /\ at = "idle"
  /\ at' = IF stack = <<>> THEN "MAIN" ELSE Head(stack)
  /\ stack' = IF stack = <<>> THEN stack ELSE Tail(stack)
  /\ bus' = <<>> /\ icount' = InitialIcount
  /\ UNCHANGED <<reg, cc, lds, line, mem, latches, freeRun, programVars>>

-----------------------------------------------------------------------------
(***************************************************************************)
(* The history of the frames: one is pushed when the registers are pushed  *)
(* in front of the end of an interrupt, gets its vector, and is pulled     *)
(* behind an RTI.                                                          *)
(***************************************************************************)
PushesFrame == at = "PUSH_REGISTERS" /\ stack # <<>> /\ Head(stack) \in AfterPush
PullsFrame  == at = "PULL_REGISTERS" /\ returning

ContextNow == [reg |-> reg, cc |-> cc]
KindNow == IF temp = PartialState THEN "fast"
           ELSE IF "E" \in cc THEN "entire" ELSE "unmarked"

Step ==
  /\ AnyInstruction
  /\ saved' =
       IF PushesFrame
       THEN <<[kind |-> KindNow, context |-> ContextNow, vector |-> 0]>> \o saved
       ELSE IF PullsFrame /\ saved # <<>> THEN Tail(saved)
       ELSE IF at = "INTERRUPT_VECTOR" THEN [saved EXCEPT ![1].vector = ea]
       ELSE saved
  /\ served' = IF at = "INTERRUPT_VECTOR" /\ ea = VectorOf["NMI"] THEN served + 1 ELSE served
  /\ returning' = (at = "RTI")
  /\ UNCHANGED raised

Next == (\E l \in Lines : Raise(l) \/ Lower(l)) \/ Execute \/ Step

\* The caller keeps calling and the core keeps running; the lines are free.
Spec == ProgramInit /\ [][Next]_vars
FairSpec == Spec /\ WF_vars(Execute \/ Step)

-----------------------------------------------------------------------------
(***************************************************************************)
(* Interrupts are transparent: whatever is interrupted, and whatever       *)
(* interrupts it, RTI restores the context that was saved last, through    *)
(* the register masks, the order of the bytes in memory and the E flag     *)
(* (refinement of ContextStack).  Only a frame that XSWI2, XFIRQ or XRES   *)
(* pushed while E was clear is lost.                                       *)
(***************************************************************************)
FastPartSaved(c, d) ==
  c.cc = d.cc /\ c.reg["pc"] = d.reg["pc"] /\ c.reg["s"] = d.reg["s"]

Restored == INSTANCE ContextStack WITH
  Context <- [reg : [Registers -> Word], cc : SUBSET Flags],
  SavedByFast <- FastPartSaved,
  context <- ContextNow,
  saved <- [k \in DOMAIN saved |-> [kind |-> saved[k].kind, context |-> saved[k].context]]

Transparent == Restored!Spec

(***************************************************************************)
(* RTI knows a frame by the E flag in it: E in the saved CC says exactly   *)
(* whether the entire state was pushed, for every interrupt but the        *)
(* undocumented ones, which leave E as some earlier interrupt left it.     *)
(***************************************************************************)
Undocumented == {VectorOf["XSWI2"], VectorOf["XFIRQ"], VectorOf["XRES"]}

EDescribesFrame ==
  \A k \in DOMAIN saved :
    /\ ("E" \in saved[k].context.cc) => saved[k].kind = "entire"
    /\ saved[k].kind = "unmarked" =>
         saved[k].vector \in Undocumented
           \/ (k = 1 /\ saved[k].vector = 0 /\ ea \in Undocumented)

(***************************************************************************)
(* Handlers that leave I and F alone are nested by priority: an IRQ        *)
(* handler by FIRQ and NMI, the handlers of FIRQ and SWI by NMI only, each *)
(* of IRQ, FIRQ and SWI at most once at a time, whatever the lines do and  *)
(* also when the interrupt was awaited by CWAI.                            *)
(***************************************************************************)
Rank(vector) ==
  CASE vector = VectorOf["IRQ"] -> 1
    [] vector \in {VectorOf["FIRQ"], VectorOf["SWI"]} -> 2
    [] vector = VectorOf["NMI"] -> 3
    [] OTHER -> 0
NestedByPriority ==
  \A k \in 1..(Len(saved) - 1) :
    Rank(saved[k + 1].vector) \in {1, 2} /\ saved[k].vector # 0 =>
      Rank(saved[k].vector) > Rank(saved[k + 1].vector)

(***************************************************************************)
(* Every NMI that was raised is pending, on its way to its vector, or has  *)
(* been taken, and exactly one of them: none is lost or taken twice, also  *)
(* when it arrives during SYNC, CWAI or another interrupt.                 *)
(***************************************************************************)
NmiUnderway ==
  \/ "NMI_PUSHED" \in {at} \cup {stack[k] : k \in DOMAIN stack}
  \/ at = "INTERRUPT_VECTOR" /\ ea = VectorOf["NMI"]
NmiTakenOnce ==
  raised["nmi"] = served + (IF "nmi" \in line THEN 1 ELSE 0) + (IF NmiUnderway THEN 1 ELSE 0)

(***************************************************************************)
(* An NMI is taken in the end, also while other lines stay asserted.       *)
(***************************************************************************)
NmiIsTaken == "nmi" \in line ~> "nmi" \notin line

(***************************************************************************)
(* SYNC and CWAI end: the program comes to a next instruction again and    *)
(* again, unless the lines it waits for are clear again and again: any     *)
(* line for SYNC, an unmasked one for CWAI.                                *)
(***************************************************************************)
Boundary == at = "idle" /\ stack = <<>>
NothingAwaited ==
  \/ stack = <<"SYNC_WAIT">> /\ line = {}
  \/ stack = <<"CWAI_WAIT">> /\ PendingInterrupt = "none"
WaitsEnd == []<>Boundary \/ []<>NothingAwaited
=============================================================================
