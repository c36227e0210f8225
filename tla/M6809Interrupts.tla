-------------------------- MODULE M6809Interrupts --------------------------
(***************************************************************************)
(* The labels of the core that wait for an interrupt line or serve one.    *)
(* The generator holds the lines clear, so none of its tests reaches NMI,  *)
(* FIRQ or IRQ, and SYNC and CWAI never complete; InterruptedProgram has   *)
(* an environment that moves them.                                         *)
(***************************************************************************)
EXTENDS M6809Instructions, M6809Listing

\* Mutant of Suspend: the state is pushed twice.
SuspendTwice(label) ==
  /\ icount' = 0
  /\ at' = "idle"
  /\ stack' = <<label, label>> \o stack

(***************************************************************************)
(* eat_remaining(): the budget is given up, so that the suspension point   *)
(* behind it pushes the state it is at and returns to the caller.          *)
(***************************************************************************)
Suspend(label) ==
  /\ icount' = 0
  /\ at' = "idle"
  /\ stack' = <<label>> \o stack

\* SYNC waits for any line, masked or not, and does not serve it itself.
SYNC ==
  /\ at = "SYNC"
  /\ Bus(<<Dead(0)>>)
  /\ Goto("SYNC_WAIT")
  /\ UNCHANGED <<reg, cc, lds, line, mem, latches, freeRun>>

\* Mutant of SYNC_WAIT: the wait is left without looking at the lines.
SYNC_WAITOnce ==
  /\ at = "SYNC_WAIT"
  /\ icount' = icount - 1
  /\ Return
  /\ UNCHANGED <<reg, cc, lds, line, mem, bus, latches, freeRun>>

\* Mutant of SYNC_WAIT: only an unmasked line ends the wait.
SYNC_WAITMasked ==
  /\ at = "SYNC_WAIT"
  /\ IF PendingInterrupt = "none" THEN Suspend("SYNC_WAIT")
     ELSE icount' = icount - 1 /\ Return
  /\ UNCHANGED <<reg, cc, lds, line, mem, bus, latches, freeRun>>

SYNC_WAIT ==
  /\ at = "SYNC_WAIT"
  /\ IF line = {} THEN Suspend("SYNC_WAIT")
     ELSE icount' = icount - 1 /\ Return
  /\ UNCHANGED <<reg, cc, lds, line, mem, bus, latches, freeRun>>

\* CWAI pushes the entire state first and then waits for an unmasked line.
CWAI ==
  /\ at = "CWAI"
  /\ Bus(<<Arg(0), Dead(1)>> \o Vma(1))
  /\ cc' = (cc \cap CCSet(Peek(PC(0)))) \cup {"E"}
  /\ reg' = At(PC(1))
  /\ regop' = "s"
  /\ temp' = EntireState
  /\ Call("PUSH_REGISTERS", "CWAI_WAIT")
  /\ UNCHANGED <<lds, line, mem, ea, mode, cond, freeRun>>

\* Mutant of CWAI_WAIT: the latch of the NMI is not cleared.
CWAI_WAITLatched ==
  /\ at = "CWAI_WAIT"
  /\ IF PendingInterrupt = "none"
     THEN /\ Suspend("CWAI_WAIT")
          /\ ea' = 0
          /\ UNCHANGED <<mode, cc>>
     ELSE /\ ea' = VectorOf[PendingInterrupt]
          /\ mode' = "ea"
          /\ cc' = cc \cup {"I"} \cup When("F", PendingInterrupt # "IRQ")
          /\ Goto("INTERRUPT_VECTOR")
          /\ UNCHANGED icount
  /\ UNCHANGED <<reg, lds, line, mem, bus, regop, temp, cond, freeRun>>

CWAI_WAIT ==
  /\ at = "CWAI_WAIT"
  /\ IF PendingInterrupt = "none"
     THEN /\ Suspend("CWAI_WAIT")
          /\ ea' = 0
          /\ UNCHANGED <<mode, line, cc>>
     ELSE /\ ea' = VectorOf[PendingInterrupt]
          /\ mode' = "ea"
          /\ line' = line \ {"nmi"}
          /\ cc' = cc \cup {"I"} \cup When("F", PendingInterrupt # "IRQ")
          /\ Goto("INTERRUPT_VECTOR")
          /\ UNCHANGED icount
  /\ UNCHANGED <<reg, lds, mem, bus, regop, temp, cond, freeRun>>

-----------------------------------------------------------------------------
Interrupts == {"NMI", "FIRQ", "IRQ"}

PushedOf == [NMI |-> "NMI_PUSHED", FIRQ |-> "FIRQ_PUSHED", IRQ |-> "IRQ_PUSHED"]

\* Mutant of InterruptEntry: FIRQ leaves E as it is.
InterruptEntryE ==
  /\ at \in Interrupts
  /\ line' = IF at = "NMI" THEN line \ {"nmi"} ELSE line
  /\ Bus(<<Dead(0), Dead(0)>> \o Vma(1))
  /\ cc' = IF at = "FIRQ" THEN cc ELSE cc \cup {"E"}
  /\ temp' = IF at = "FIRQ" THEN PartialState ELSE EntireState
  /\ regop' = "s"
  /\ Call("PUSH_REGISTERS", PushedOf[at])
  /\ UNCHANGED <<reg, lds, mem, ea, mode, cond, freeRun>>

(***************************************************************************)
(* NMI, FIRQ and IRQ, up to "%PUSH_REGISTERS;".  E tells RTI how much was  *)
(* pushed.  Only the NMI is a latch, and is cleared here; the other lines  *)
(* stay as the environment drives them.                                    *)
(***************************************************************************)
InterruptEntry ==
  /\ at \in Interrupts
  /\ line' = IF at = "NMI" THEN line \ {"nmi"} ELSE line
  /\ Bus(<<Dead(0), Dead(0)>> \o Vma(1))
  /\ cc' = IF at = "FIRQ" THEN cc \ {"E"} ELSE cc \cup {"E"}
  /\ temp' = IF at = "FIRQ" THEN PartialState ELSE EntireState
  /\ regop' = "s"
  /\ Call("PUSH_REGISTERS", PushedOf[at])
  /\ UNCHANGED <<reg, lds, mem, ea, mode, cond, freeRun>>

\* Mutant of InterruptPushed: FIRQ masks itself only.
InterruptPushedMask ==
  \E i \in Interrupts :
    /\ at = PushedOf[i]
    /\ ea' = VectorOf[i]
    /\ mode' = "ea"
    /\ cc' = cc \cup When("I", i # "FIRQ") \cup When("F", i # "IRQ")
    /\ Goto("INTERRUPT_VECTOR")
    /\ UNCHANGED <<reg, lds, line, mem, bus, icount, regop, temp, cond, freeRun>>

\* The code behind "%PUSH_REGISTERS;": an IRQ can still be interrupted by a FIRQ.
InterruptPushed ==
  \E i \in Interrupts :
    /\ at = PushedOf[i]
    /\ ea' = VectorOf[i]
    /\ mode' = "ea"
    /\ cc' = cc \cup {"I"} \cup When("F", i # "IRQ")
    /\ Goto("INTERRUPT_VECTOR")
    /\ UNCHANGED <<reg, lds, line, mem, bus, icount, regop, temp, cond, freeRun>>

\* One step inside execute_one(), with the labels of this module.
AnyInstruction ==
  Instruction \/ SYNC \/ SYNC_WAIT \/ CWAI \/ CWAI_WAIT
    \/ InterruptEntry \/ InterruptPushed

(***************************************************************************)
(* Whatever is in registers and memory, the labels are left only as the    *)
(* listings say, and every continuation is entered once and in its turn    *)
(* (refinement of CallStack, as StateStack is).                            *)
(***************************************************************************)
Listings == INSTANCE CallStack WITH
  First <- "MAIN", Jumps <- JumpsOf, Callees <- CalleesOf, Ends <- EndLabels,
  Waits <- WaitLabels

FollowsListing == Listings!Spec
=============================================================================
