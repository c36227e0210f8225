------------------------- MODULE M6809Instructions -------------------------
(***************************************************************************)
(* The labels of the core: one action per label of m6809.lst and           *)
(* base6x09.lst, each the whole code of the label up to its next "goto",   *)
(* "%" or "return;".  Labels that differ only in what they compute share   *)
(* an action, with the computation in M6809Alu.                            *)
(***************************************************************************)
EXTENDS M6809Core

-----------------------------------------------------------------------------
(***************************************************************************)
(* Addressing.  Each label leaves the effective address in ea and returns  *)
(* to the instruction, which is on the stack.                              *)
(***************************************************************************)
DIRECT ==
  /\ at = "DIRECT"
  /\ Bus(<<Arg(0)>> \o Vma(1))
  /\ ea' = Pair(reg["dp"], Peek(PC(0)))
  /\ mode' = "ea"
  /\ reg' = At(PC(1))
  /\ Return
  /\ UNCHANGED <<cc, lds, line, mem, regop, temp, cond, freeRun>>

EXTENDED ==
  /\ at = "EXTENDED"
  /\ Bus(<<Arg(0), Arg(1)>> \o Vma(1))
  /\ ea' = Pair(Peek(PC(0)), Peek(PC(1)))
  /\ mode' = "ea"
  /\ reg' = At(PC(2))
  /\ Return
  /\ UNCHANGED <<cc, lds, line, mem, regop, temp, cond, freeRun>>

\* ireg(): the index register that a postbyte names.
IndexReg(postbyte) == <<"x", "y", "u", "s">>[1 + ((postbyte \div \h20) % 4)]

(***************************************************************************)
(* The indexed modes, by the low digit of a postbyte with bit 7 set: the   *)
(* operand bytes read after it, the re-reads at PC and the VMA cycles, the *)
(* step of the index register, and the address before any indirection.     *)
(***************************************************************************)
\* Mutants: one operand byte of [n] is not fetched; n,PC is a VMA cycle short.
IndexedArgsShort(digit) == <<0, 0, 0, 0, 0, 0, 0, 0, 1, 2, 0, 0, 1, 2, 0, 1>>[digit + 1]
IndexedVmasShort(digit) == <<2, 3, 2, 3, 0, 1, 1, 0, 0, 3, 0, 3, 1, 3, 0, 1>>[digit + 1]
IndexedArgs(digit)  == <<0, 0, 0, 0, 0, 0, 0, 0, 1, 2, 0, 0, 1, 2, 0, 2>>[digit + 1]
IndexedDeads(digit) == <<1, 1, 1, 1, 1, 1, 1, 0, 1, 0, 0, 2, 0, 0, 0, 0>>[digit + 1]
IndexedVmas(digit)  == <<2, 3, 2, 3, 0, 1, 1, 0, 0, 3, 0, 3, 1, 4, 0, 1>>[digit + 1]
IndexedStep(digit)  == IF digit <= 3 THEN <<1, 2, -1, -2>>[digit + 1] ELSE 0

IndexedBase(postbyte) ==
  LET r == reg[IndexReg(postbyte)]
      digit == Col(postbyte)
      byte == Signed8(Peek(PC(1)))
      word == Pair(Peek(PC(1)), Peek(PC(2)))
  IN  ToWord(CASE digit \in {0, 1, 4} -> r
               [] digit \in {2, 3} -> r + IndexedStep(digit)
               [] digit = 5  -> r + Signed8(reg["b"])
               [] digit = 6  -> r + Signed8(reg["a"])
               [] digit = 8  -> r + byte
               [] digit = 9  -> r + word
               [] digit = 11 -> r + D
               [] digit = 12 -> PC(2) + byte
               [] digit = 13 -> PC(3) + word
               [] digit = 15 -> word
               [] digit \in {7, 10, 14} -> 0)

\* The offset of a postbyte without bit 7: its low five bits, signed.
ShortOffset(postbyte) == IF Has(postbyte, \h10) THEN Col(postbyte) - 16 ELSE Col(postbyte)

IndexedShort(postbyte) ==
  LET x == IndexReg(postbyte)
  IN  /\ ~Has(postbyte, \h80)
      /\ Bus(<<Arg(0), Dead(1)>> \o Vma(1))
      /\ ea' = ToWord(reg[x] + ShortOffset(postbyte))
      /\ reg' = At(PC(1))

IndexedLong(postbyte) ==
  LET x == IndexReg(postbyte)
      digit == Col(postbyte)
      n == IndexedArgs(digit)
      base == IndexedBase(postbyte)
      next == ToWord(base + 1)
      indirect == Has(postbyte, \h10)
  IN  /\ Has(postbyte, \h80)
      /\ Bus([k \in 1..(1 + n) |-> Arg(k - 1)]
               \o [k \in 1..IndexedDeads(digit) |-> Dead(n + k)]
               \o Vma(IndexedVmas(digit))
               \o (IF indirect THEN <<Rd(base, "data"), Rd(next, "data")>> \o Vma(1)
                   ELSE <<>>))
      /\ ea' = IF indirect THEN Pair(Peek(base), Peek(next)) ELSE base
      /\ reg' = [reg EXCEPT !["pc"] = PC(1 + n),
                            ![x] = ToWord(reg[x] + IndexedStep(digit))]

INDEXED ==
  /\ at = "INDEXED"
  /\ LET postbyte == Peek(PC(0)) IN IndexedShort(postbyte) \/ IndexedLong(postbyte)
  /\ mode' = "ea"
  /\ Return
  /\ UNCHANGED <<cc, lds, line, mem, regop, temp, cond, freeRun>>

-----------------------------------------------------------------------------
(***************************************************************************)
(* Instructions on one operand.                                            *)
(***************************************************************************)
\* NEG8 .. CLR8, XDEC8, XCLR8: read, one re-read at PC, write back.
ReadModifyWrite ==
  /\ at \in RmwOps
  /\ LET r == Rmw(at, Operand, cc)
     IN  /\ Bus(OperandReads \o <<Rd(OperandPC, "dead")>> \o OperandWrites(r.value))
         /\ cc' = r.cc
         /\ reg' = OperandReg(r.value)
         /\ mem' = OperandMem(r.value)
  /\ Return
  /\ UNCHANGED <<lds, line, latches, freeRun>>

\* Mutant of XNC8: one of its jumps names the label itself.
XNC8Loop ==
  /\ at = "XNC8"
  /\ Goto(IF "C" \in cc THEN "XNC8" ELSE "NEG8")
  /\ UNCHANGED <<reg, cc, lds, line, mem, bus, icount, latches, freeRun>>

XNC8 ==
  /\ at = "XNC8"
  /\ Goto(IF "C" \in cc THEN "COM8" ELSE "NEG8")
  /\ UNCHANGED <<reg, cc, lds, line, mem, bus, icount, latches, freeRun>>

TST8 ==
  /\ at = "TST8"
  /\ Bus(OperandReads \o Vma(IF mode \in {"a", "b"} THEN 1 ELSE 2))
  /\ cc' = Test8(cc, NZV, Operand).cc
  /\ reg' = At(OperandPC)
  /\ Return
  /\ UNCHANGED <<lds, line, mem, latches, freeRun>>

JMP ==
  /\ at = "JMP"
  /\ reg' = At(ea)
  /\ Return
  /\ UNCHANGED <<cc, lds, line, mem, bus, icount, latches, freeRun>>

(***************************************************************************)
(* Instructions on a register and an operand.                              *)
(***************************************************************************)
Accumulate8 ==
  /\ at \in Alu8Ops
  /\ LET r == Alu8(at, RegOp, Operand, cc)
     IN  /\ Bus(OperandReads)
         /\ cc' = r.cc
         /\ reg' = IF at \in Compares8 THEN At(OperandPC) ELSE Assign(OperandPC, r.value)
  /\ Return
  /\ UNCHANGED <<lds, line, mem, latches, freeRun>>

\* All but LD16 re-read at PC; LD16 into S arms the NMI.
Accumulate16 ==
  /\ at \in Alu16Ops
  /\ LET r == Alu16(at, RegOp, Operand16, cc)
     IN  /\ Bus(OperandReads16
                  \o (IF at = "LD16" THEN <<>> ELSE <<Rd(OperandPC16, "dead")>>))
         /\ cc' = r.cc
         /\ reg' = IF at \in Compares16 THEN At(OperandPC16)
                   ELSE Assign(OperandPC16, r.value)
  /\ lds' = (lds \/ (at = "LD16" /\ regop = "s"))
  /\ Return
  /\ UNCHANGED <<line, mem, latches, freeRun>>

ST8 ==
  /\ at = "ST8"
  /\ Bus(<<Wr(ea, RegOp)>>)
  /\ mem' = Stored(ea, <<RegOp>>)
  /\ cc' = Test8(cc, NZV, RegOp).cc
  /\ Return
  /\ UNCHANGED <<reg, lds, line, latches, freeRun>>

ST16 ==
  /\ at = "ST16"
  /\ Bus(<<Wr(ea, Hi(RegOp)), Wr(ToWord(ea + 1), Lo(RegOp))>>)
  /\ mem' = Stored(ea, <<Hi(RegOp), Lo(RegOp)>>)
  /\ cc' = Test16(cc, NZV, RegOp).cc
  /\ Return
  /\ UNCHANGED <<reg, lds, line, latches, freeRun>>

\* The undocumented immediate stores: XST8 stores nothing, XST16 stores the
\* low byte over the last byte of the instruction itself.
XST8 ==
  /\ at = "XST8"
  /\ Bus(OperandReads)
  /\ cc' = Test8(cc, NZV, RegOp).cc
  /\ reg' = At(OperandPC)
  /\ Return
  /\ UNCHANGED <<lds, line, mem, latches, freeRun>>

XST16 ==
  /\ at = "XST16"
  /\ Bus(OperandReads \o <<Wr(OperandPC, Lo(RegOp))>>)
  /\ mem' = Stored(OperandPC, <<Lo(RegOp)>>)
  /\ cc' = Test16(cc, NZV, RegOp).cc
  /\ reg' = At(ToWord(OperandPC + 1))
  /\ Return
  /\ UNCHANGED <<lds, line, latches, freeRun>>

LEA_xy ==
  /\ at = "LEA_xy"
  /\ Bus(Vma(1))
  /\ cc' = Test16(cc, {"Z"}, ea).cc
  /\ reg' = Assign(PC(0), ea)
  /\ Return
  /\ UNCHANGED <<lds, line, mem, latches, freeRun>>

LEA_us ==
  /\ at = "LEA_us"
  /\ Bus(Vma(1))
  /\ lds' = (lds \/ regop = "s")
  /\ reg' = Assign(PC(0), ea)
  /\ Return
  /\ UNCHANGED <<cc, line, mem, latches, freeRun>>

-----------------------------------------------------------------------------
(***************************************************************************)
(* Inherent instructions and the condition codes.                          *)
(***************************************************************************)
NOP ==
  /\ at = "NOP"
  /\ Bus(<<Dead(0)>>)
  /\ Return
  /\ UNCHANGED <<reg, cc, lds, line, mem, latches, freeRun>>

DAA ==
  /\ at = "DAA"
  /\ Bus(<<Dead(0)>>)
  /\ reg' = [reg EXCEPT !["a"] = Daa(reg["a"], cc).value]
  /\ cc' = Daa(reg["a"], cc).cc
  /\ Return
  /\ UNCHANGED <<lds, line, mem, latches, freeRun>>

SEX ==
  /\ at = "SEX"
  /\ Bus(<<Dead(0)>>)
  /\ reg' = [reg EXCEPT !["a"] = Hi(Sex(reg["b"], cc).value)]
  /\ cc' = Sex(reg["b"], cc).cc
  /\ Return
  /\ UNCHANGED <<lds, line, mem, latches, freeRun>>

ABX ==
  /\ at = "ABX"
  /\ Bus(<<Dead(0)>> \o Vma(1))
  /\ reg' = [reg EXCEPT !["x"] = ToWord(reg["x"] + reg["b"])]
  /\ Return
  /\ UNCHANGED <<cc, lds, line, mem, latches, freeRun>>

\* Mutant of MUL: one internal cycle less.
MULShort ==
  /\ at = "MUL"
  /\ Bus(<<Dead(0)>> \o Vma(8))
  /\ LET r == Mul(reg["a"], reg["b"], cc)
     IN  /\ reg' = [reg EXCEPT !["a"] = Hi(r.value), !["b"] = Lo(r.value)]
         /\ cc' = r.cc
  /\ Return
  /\ UNCHANGED <<lds, line, mem, latches, freeRun>>

MUL ==
  /\ at = "MUL"
  /\ Bus(<<Dead(0)>> \o Vma(9))
  /\ LET r == Mul(reg["a"], reg["b"], cc)
     IN  /\ reg' = [reg EXCEPT !["a"] = Hi(r.value), !["b"] = Lo(r.value)]
         /\ cc' = r.cc
  /\ Return
  /\ UNCHANGED <<lds, line, mem, latches, freeRun>>

ORCC ==
  /\ at = "ORCC"
  /\ Bus(OperandReads \o <<Rd(OperandPC, "dead")>>)
  /\ cc' = cc \cup CCSet(Operand)
  /\ reg' = At(OperandPC)
  /\ Return
  /\ UNCHANGED <<lds, line, mem, latches, freeRun>>

ANDCC ==
  /\ at = "ANDCC"
  /\ Bus(OperandReads \o <<Rd(OperandPC, "dead")>>)
  /\ cc' = cc \cap CCSet(Operand)
  /\ reg' = At(OperandPC)
  /\ Return
  /\ UNCHANGED <<lds, line, mem, latches, freeRun>>

\* Mutant of XANDCC: its eat(1) is missing.
XANDCCFree ==
  /\ at = "XANDCC"
  /\ Goto("ANDCC")
  /\ UNCHANGED <<reg, cc, lds, line, mem, bus, icount, latches, freeRun>>

\* The one cycle of the core without a bus access.
XANDCC ==
  /\ at = "XANDCC"
  /\ icount' = icount - 1
  /\ Goto("ANDCC")
  /\ UNCHANGED <<reg, cc, lds, line, mem, bus, latches, freeRun>>

\* X18 reads at PC without stepping over it, and shifts the flags it keeps.
X18 ==
  /\ at = "X18"
  /\ Bus(<<Rd(PC(0), "data")>>)
  /\ cc' = CCSet(ToByte(2 * CCByte(cc \cap CCSet(Peek(PC(0)))))) \cup When("V", "Z" \in cc)
  /\ Return
  /\ UNCHANGED <<reg, lds, line, mem, latches, freeRun>>

FREERUN ==
  /\ at = "FREERUN"
  /\ freeRun' = TRUE
  /\ Return
  /\ UNCHANGED <<reg, cc, lds, line, mem, bus, icount, latches>>

-----------------------------------------------------------------------------
(***************************************************************************)
(* EXG and TFR, with the code's FM-77AV behaviour: an 8 bit register reads *)
(* as \hFF in its high half, a code that names no register reads as \hFFFF *)
(* and swallows what is written to it.  PC is read after the postbyte.     *)
(***************************************************************************)
ExgTfrRead(code) ==
  CASE code = 0 -> D
    [] code \in 1..4 -> reg[<<"x", "y", "u", "s">>[code]]
    [] code = 5 -> PC(1)
    [] code \in {8, 9, 11} -> Pair(\hFF, reg[CASE code = 8 -> "a" [] code = 9 -> "b"
                                               [] code = 11 -> "dp"])
    [] code = 10 -> Pair(\hFF, CCByte(cc))
    [] code \in {6, 7} \cup (12..15) -> \hFFFF

\* write_exgtfr_register on the registers r and flags f.
ExgTfrReg(r, code, v) ==
  CASE code = 0 -> [r EXCEPT !["a"] = Hi(v), !["b"] = Lo(v)]
    [] code \in 1..5 -> [r EXCEPT ![<<"x", "y", "u", "s", "pc">>[code]] = v]
    [] code = 8  -> [r EXCEPT !["a"] = Lo(v)]
    [] code = 9  -> [r EXCEPT !["b"] = Lo(v)]
    [] code = 11 -> [r EXCEPT !["dp"] = Lo(v)]
    [] code \in {6, 7, 10} \cup (12..15) -> r
ExgTfrCC(f, code, v) == IF code = 10 THEN CCSet(Lo(v)) ELSE f

\* The low digit's register is written first: the high digit's write wins.
EXG ==
  /\ at = "EXG"
  /\ LET high == Row(Peek(PC(0)))  low == Col(Peek(PC(0)))
         v1 == ExgTfrRead(high)    v2 == ExgTfrRead(low)
     IN  /\ reg' = ExgTfrReg(ExgTfrReg(At(PC(1)), low, v1), high, v2)
         /\ cc' = ExgTfrCC(ExgTfrCC(cc, low, v1), high, v2)
  /\ Bus(<<Arg(0)>> \o Vma(6))
  /\ Return
  /\ UNCHANGED <<lds, line, mem, latches, freeRun>>

TFR ==
  /\ at = "TFR"
  /\ LET high == Row(Peek(PC(0)))  low == Col(Peek(PC(0)))
         v == ExgTfrRead(high)
     IN  /\ reg' = ExgTfrReg(At(PC(1)), low, v)
         /\ cc' = ExgTfrCC(cc, low, v)
         /\ lds' = (lds \/ low = 4)
  /\ Bus(<<Arg(0)>> \o Vma(4))
  /\ Return
  /\ UNCHANGED <<line, mem, latches, freeRun>>

-----------------------------------------------------------------------------
(***************************************************************************)
(* Branches and subroutines.  cond was set by the dispatch.                *)
(***************************************************************************)
BRANCH ==
  /\ at = "BRANCH"
  /\ Bus(<<Arg(0)>> \o Vma(1))
  /\ reg' = At(IF cond THEN ToWord(PC(1) + Signed8(Peek(PC(0)))) ELSE PC(1))
  /\ Return
  /\ UNCHANGED <<cc, lds, line, mem, latches, freeRun>>

LBRANCH ==
  /\ at = "LBRANCH"
  /\ Bus(<<Arg(0), Arg(1)>> \o Vma(IF cond THEN 2 ELSE 1))
  /\ reg' = At(IF cond THEN ToWord(PC(2) + Pair(Peek(PC(0)), Peek(PC(1)))) ELSE PC(2))
  /\ Return
  /\ UNCHANGED <<cc, lds, line, mem, latches, freeRun>>

BSR ==
  /\ at = "BSR"
  /\ Bus(<<Arg(0)>> \o Vma(3))
  /\ ea' = ToWord(PC(1) + Signed8(Peek(PC(0))))
  /\ reg' = At(PC(1))
  /\ Goto("GOTO_SUBROUTINE")
  /\ UNCHANGED <<cc, lds, line, mem, mode, regop, temp, cond, freeRun>>

\* Mutant of LBSR: PC is stepped over one byte of the offset only.
LBSRShort ==
  /\ at = "LBSR"
  /\ Bus(<<Arg(0), Arg(1)>> \o Vma(4))
  /\ ea' = ToWord(PC(2) + Signed16(Pair(Peek(PC(0)), Peek(PC(1)))))
  /\ reg' = At(PC(1))
  /\ Goto("GOTO_SUBROUTINE")
  /\ UNCHANGED <<cc, lds, line, mem, mode, regop, temp, cond, freeRun>>

LBSR ==
  /\ at = "LBSR"
  /\ Bus(<<Arg(0), Arg(1)>> \o Vma(4))
  /\ ea' = ToWord(PC(2) + Signed16(Pair(Peek(PC(0)), Peek(PC(1)))))
  /\ reg' = At(PC(2))
  /\ Goto("GOTO_SUBROUTINE")
  /\ UNCHANGED <<cc, lds, line, mem, mode, regop, temp, cond, freeRun>>

\* Mutant of JSR: "%GOTO_SUBROUTINE; goto JMP;" for "goto GOTO_SUBROUTINE;".
JSRByCall ==
  /\ at = "JSR"
  /\ Bus(<<Dead(0)>> \o Vma(1))
  /\ Call("GOTO_SUBROUTINE", "JMP")
  /\ UNCHANGED <<reg, cc, lds, line, mem, latches, freeRun>>

JSR ==
  /\ at = "JSR"
  /\ Bus(<<Dead(0)>> \o Vma(1))
  /\ Goto("GOTO_SUBROUTINE")
  /\ UNCHANGED <<reg, cc, lds, line, mem, latches, freeRun>>

GOTO_SUBROUTINE ==
  /\ at = "GOTO_SUBROUTINE"
  /\ LET s1 == ToWord(reg["s"] - 1)  s2 == ToWord(reg["s"] - 2)
         lo == Lo(reg["pc"])         hi == Hi(reg["pc"])
     IN  /\ Bus(<<Wr(s1, lo), Wr(s2, hi)>>)
         /\ mem' = Stored(s2, <<hi, lo>>)
         /\ reg' = [reg EXCEPT !["pc"] = ea, !["s"] = s2]
  /\ Return
  /\ UNCHANGED <<cc, lds, line, latches, freeRun>>

-----------------------------------------------------------------------------
(***************************************************************************)
(* Pushing and pulling registers.  temp is the register mask, regop the    *)
(* stack pointer; bit \h40 is the other stack pointer.                     *)
(***************************************************************************)
EntireState  == \hFF
PartialState == \h81

OtherStack == IF regop = "s" THEN "u" ELSE "s"

\* The bytes of the masked registers in ascending addresses, CC lowest.
Frame(mask) ==
  LET one(m, v) == IF Has(mask, m) THEN <<v>> ELSE <<>>
      two(m, v) == IF Has(mask, m) THEN <<Hi(v), Lo(v)>> ELSE <<>>
  IN  one(\h01, CCByte(cc)) \o one(\h02, reg["a"]) \o one(\h04, reg["b"])
        \o one(\h08, reg["dp"]) \o two(\h10, reg["x"]) \o two(\h20, reg["y"])
        \o two(\h40, reg[OtherStack]) \o two(\h80, reg["pc"])

PUSH_REGISTERS ==
  /\ at = "PUSH_REGISTERS"
  /\ LET frame == Frame(temp)
         n == Len(frame)
         sp == ToWord(reg[regop] - n)
     IN  /\ Bus([k \in 1..n |-> Wr(ToWord(reg[regop] - k), frame[n + 1 - k])])
         /\ mem' = Stored(sp, frame)
         /\ reg' = [reg EXCEPT ![regop] = sp]
  /\ Return
  /\ UNCHANGED <<cc, lds, line, latches, freeRun>>

\* Bytes pulled before the register of mask bit m (m = 256: all of them).
Offset(mask, m) ==
  LET n(k) == IF k < m /\ Has(mask, k) THEN IF k >= \h10 THEN 2 ELSE 1 ELSE 0
  IN  n(1) + n(2) + n(4) + n(8) + n(16) + n(32) + n(64) + n(128)

PULL_REGISTERS ==
  /\ at = "PULL_REGISTERS"
  /\ LET n == Offset(temp, 256)
         sp(k) == ToWord(reg[regop] + k)
         byte(m, old) == IF Has(temp, m) THEN Peek(sp(Offset(temp, m))) ELSE old
         word(m, old) == IF Has(temp, m)
                         THEN Pair(Peek(sp(Offset(temp, m))), Peek(sp(Offset(temp, m) + 1)))
                         ELSE old
     IN  /\ Bus([k \in 1..n |-> Rd(sp(k - 1), "data")] \o <<Rd(sp(n), "dead")>>)
         /\ cc' = IF Has(temp, \h01) THEN CCSet(Peek(sp(0))) ELSE cc
         /\ reg' = [reg EXCEPT !["a"] = byte(\h02, @), !["b"] = byte(\h04, @),
                               !["dp"] = byte(\h08, @), !["x"] = word(\h10, @),
                               !["y"] = word(\h20, @), ![OtherStack] = word(\h40, @),
                               !["pc"] = word(\h80, @), ![regop] = sp(n)]
  /\ Return
  /\ UNCHANGED <<lds, line, mem, latches, freeRun>>

\* PSHS and PSHU: the mask, two VMA cycles, a read at the stack pointer.
Push(label, sp) ==
  /\ at = label
  /\ Bus(<<Arg(0)>> \o Vma(2) \o <<Rd(reg[sp], "dead")>>)
  /\ temp' = Peek(PC(0))
  /\ regop' = sp
  /\ reg' = At(PC(1))
  /\ Goto("PUSH_REGISTERS")
  /\ UNCHANGED <<cc, lds, line, mem, ea, mode, cond, freeRun>>

\* Mutant of Pull: regop is left as it was.
PullStale(label, sp) ==
  /\ at = label
  /\ Bus(<<Arg(0)>> \o Vma(2))
  /\ temp' = Peek(PC(0))
  /\ reg' = At(PC(1))
  /\ Goto("PULL_REGISTERS")
  /\ UNCHANGED <<cc, lds, line, mem, ea, mode, regop, cond, freeRun>>

\* PULS and PULU: the mask and two VMA cycles.
Pull(label, sp) ==
  /\ at = label
  /\ Bus(<<Arg(0)>> \o Vma(2))
  /\ temp' = Peek(PC(0))
  /\ regop' = sp
  /\ reg' = At(PC(1))
  /\ Goto("PULL_REGISTERS")
  /\ UNCHANGED <<cc, lds, line, mem, ea, mode, cond, freeRun>>

PSHS == Push("PSHS", "s")
PSHU == Push("PSHU", "u")
PULS == Pull("PULS", "s")
PULU == Pull("PULU", "u")

RTS ==
  /\ at = "RTS"
  /\ Bus(<<Dead(0)>>)
  /\ temp' = \h80
  /\ regop' = "s"
  /\ Goto("PULL_REGISTERS")
  /\ UNCHANGED <<reg, cc, lds, line, mem, ea, mode, cond, freeRun>>

\* RTI pulls CC, whose E flag then says how much more the frame holds.
RTI ==
  /\ at = "RTI"
  /\ Bus(<<Dead(0), Rd(reg["s"], "data")>>)
  /\ cc' = CCSet(Peek(reg["s"]))
  /\ reg' = [reg EXCEPT !["s"] = ToWord(@ + 1)]
  /\ temp' = (IF "E" \in cc' THEN EntireState ELSE PartialState) - 1
  /\ regop' = "s"
  /\ Goto("PULL_REGISTERS")
  /\ UNCHANGED <<lds, line, mem, ea, mode, cond, freeRun>>

-----------------------------------------------------------------------------
(***************************************************************************)
(* Software interrupts.  All push the entire state; the undocumented XRES, *)
(* XSWI2 and XFIRQ do so without setting E.  Only SWI masks I and F, after *)
(* the push.                                                               *)
(***************************************************************************)
\* Mutant of DocumentedSwi: SWI2 and SWI3 do not set E.
DocumentedSwiShort == {"SWI"}
DocumentedSwi == {"SWI", "SOFTWARE_INTERRUPT"}
SoftwareInterrupts == {"SWI", "SOFTWARE_INTERRUPT", "XRES", "XSWI2", "XFIRQ"}

\* SWI2 and SWI3 set the vector and share the code of SOFTWARE_INTERRUPT.
SharedSoftwareInterrupt ==
  /\ at \in {"SWI2", "SWI3"}
  /\ ea' = VectorOf[at]
  /\ mode' = "ea"
  /\ Goto("SOFTWARE_INTERRUPT")
  /\ UNCHANGED <<reg, cc, lds, line, mem, bus, icount, regop, temp, cond, freeRun>>

SoftwareInterrupt ==
  /\ at \in SoftwareInterrupts
  /\ ea' = IF at = "SOFTWARE_INTERRUPT" THEN ea ELSE VectorOf[at]
  /\ mode' = IF at = "SOFTWARE_INTERRUPT" THEN mode ELSE "ea"
  /\ cc' = IF at \in DocumentedSwi THEN cc \cup {"E"} ELSE cc
  /\ regop' = "s"
  /\ temp' = EntireState
  /\ Bus(<<Dead(0)>> \o Vma(1))
  /\ Call("PUSH_REGISTERS", IF at = "SWI" THEN "SWI_PUSHED" ELSE "PUSHED")
  /\ UNCHANGED <<reg, lds, line, mem, cond, freeRun>>

\* The code behind "%PUSH_REGISTERS;".
SWI_PUSHED ==
  /\ at = "SWI_PUSHED"
  /\ cc' = cc \cup {"I", "F"}
  /\ Goto("INTERRUPT_VECTOR")
  /\ UNCHANGED <<reg, lds, line, mem, bus, icount, latches, freeRun>>

PUSHED ==
  /\ at = "PUSHED"
  /\ Goto("INTERRUPT_VECTOR")
  /\ UNCHANGED <<reg, cc, lds, line, mem, bus, icount, latches, freeRun>>

INTERRUPT_VECTOR ==
  /\ at = "INTERRUPT_VECTOR"
  /\ Bus(Vma(1) \o <<Rd(ea, "data"), Rd(ToWord(ea + 1), "data")>> \o Vma(1))
  /\ reg' = At(Pair(Peek(ea), Peek(ToWord(ea + 1))))
  /\ Return
  /\ UNCHANGED <<cc, lds, line, mem, latches, freeRun>>

-----------------------------------------------------------------------------
\* One step inside execute_one(): the code of one label.
Instruction ==
  \/ MAIN \/ DISPATCH01 \/ DISPATCH10 \/ DISPATCH11
  \/ DIRECT \/ EXTENDED \/ INDEXED
  \/ ReadModifyWrite \/ XNC8 \/ TST8 \/ JMP
  \/ Accumulate8 \/ Accumulate16 \/ ST8 \/ ST16 \/ XST8 \/ XST16 \/ LEA_xy \/ LEA_us
  \/ NOP \/ DAA \/ SEX \/ ABX \/ MUL \/ ORCC \/ ANDCC \/ XANDCC \/ X18 \/ FREERUN
  \/ EXG \/ TFR
  \/ BRANCH \/ LBRANCH \/ BSR \/ LBSR \/ JSR \/ GOTO_SUBROUTINE
  \/ PUSH_REGISTERS \/ PULL_REGISTERS \/ PSHS \/ PSHU \/ PULS \/ PULU \/ RTS \/ RTI
  \/ SharedSoftwareInterrupt \/ SoftwareInterrupt \/ SWI_PUSHED \/ PUSHED \/ INTERRUPT_VECTOR
=============================================================================
