------------------------ MODULE MCInterruptedProgram ------------------------
(***************************************************************************)
(* A program with every way into and out of an interrupt: it waits with    *)
(* SYNC while I and F are masked and with CWAI while F is, unmasks, calls  *)
(* SWI and SWI3, and the undocumented XSWI2 behind a SWI (which leaves E   *)
(* set).  Every handler changes A but that of FIRQ, which saves no         *)
(* accumulator.                                                            *)
(***************************************************************************)
EXTENDS InterruptedProgram

Bytes(first, bytes) ==
  {<<first + k - 1, bytes[k]>> : k \in DOMAIN bytes}

Code ==
  Bytes(\h1000, <<\h86, \h01,         \* 1000 LDA #1
                  \h13,               \* 1002 SYNC
                  \h3C, \hEF,         \* 1003 CWAI #$EF
                  \h1C, \hAF,         \* 1005 ANDCC #$AF
                  \h3F,               \* 1007 SWI
                  \h10, \h3E,         \* 1008 XSWI2
                  \h11, \h3F,         \* 100A SWI3
                  \h20, \hF2>>)       \* 100C BRA $1000
    \cup Bytes(\h2000, <<\h86, \h02, \h3B>>)   \* NMI:  LDA #2; RTI
    \cup Bytes(\h2100, <<\h12, \h3B>>)         \* FIRQ: NOP; RTI
    \cup Bytes(\h2200, <<\h86, \h04, \h3B>>)   \* IRQ:  LDA #4; RTI
    \cup Bytes(\h2300, <<\h86, \h05, \h3B>>)   \* SWI, XSWI2, SWI3: LDA #5; RTI
    \cup Bytes(\hFFF2, <<\h23, \h00, \h23, \h00, \h21, \h00, \h22, \h00,
                         \h23, \h00, \h20, \h00>>)

\* Elsewhere, BRA to itself: where an RTI that lost its frame ends up.
MCBackground(a) ==
  IF \E c \in Code : c[1] = a THEN (CHOOSE c \in Code : c[1] = a)[2]
  ELSE IF a % 2 = 1 THEN \h20 ELSE \hFE

MCMaxRaises == [nmi |-> 2, firq |-> 2, irq |-> 1]

\* Fewer for the temporal run.
MCFewRaises == [l \in Lines |-> 1]
=============================================================================
