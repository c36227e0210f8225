---------------------------- MODULE AluPrograms ----------------------------
(***************************************************************************)
(* What the arithmetic of the core is for.  An instruction alone computes  *)
(* 8 bits and leaves the rest to the flags: a carry links it to the next   *)
(* byte, H and C tell DAA what to correct, and a branch reads an order     *)
(* from N, Z, V and C.  Whether they say the right thing shows only over a *)
(* sequence, which the generator never runs: its tests are single          *)
(* instructions and record whatever flags the core leaves.                 *)
(*                                                                         *)
(* The machine is the accumulator and CC of the core without its bus.  A   *)
(* program is a sequence of instructions with their operand; what it       *)
(* stores is appended to out.                                              *)
(***************************************************************************)
EXTENDS M6809Alu, Sequences

CONSTANT Programs   \* the programs: a kind, two numbers and the initial flags

(***************************************************************************)
(* Numbers of packed decimal digits, the only ones DAA is made for.        *)
(***************************************************************************)
Decimal(w) == (w % 16) + 10 * ((w \div 16) % 16) + 100 * ((w \div 256) % 16)
                + 1000 * (w \div 4096)
IsDecimal(w) == \A d \in {1, 16, 256, 4096} : (w \div d) % 16 <= 9

ASSUME ProgramsAssumption ==
  \A p \in Programs :
    /\ p.x \in Word /\ p.y \in Word /\ p.cc \in SUBSET Flags
    /\ p.kind = "bcd" => IsDecimal(p.x) /\ IsDecimal(p.y)

VARIABLES
  program,   \* the program that runs
  next,      \* the instruction of Code that is executed next
  acc, cc,   \* the accumulator (D for the 16 bit instructions) and m_cc
  out        \* the bytes stored so far

vars == <<program, next, acc, cc, out>>

-----------------------------------------------------------------------------
(***************************************************************************)
(* The programs on x and y.  A sum of two bytes leaves its high byte in    *)
(* the accumulator; a store between the bytes must not disturb the carry.  *)
(***************************************************************************)
I(op, m) == [op |-> op, m |-> m]

TwoBytes(first, second, x, y) ==
  <<I("LD8", Lo(x)), I(first, Lo(y)), I("ST8", 0), I("LD8", Hi(x)), I(second, Hi(y))>>

Code(p) ==
  CASE p.kind = "add"   -> TwoBytes("ADD8", "ADC8", p.x, p.y)
    [] p.kind = "sub"   -> TwoBytes("SUB8", "SBC8", p.x, p.y)
    [] p.kind = "asl"   -> TwoBytes("ASL8", "ROL8", p.x, 0)
    [] p.kind = "neg"   -> <<I("LD8", Lo(p.x)), I("NEG8", 0), I("ST8", 0),
                             I("LD8", 0), I("SBC8", Hi(p.x))>>
    [] p.kind = "lsr"   -> <<I("LD8", Hi(p.x)), I("LSR8", 0), I("ST8", 0),
                             I("LD8", Lo(p.x)), I("ROR8", 0)>>
    [] p.kind = "asr"   -> <<I("LD8", Hi(p.x)), I("ASR8", 0), I("ST8", 0),
                             I("LD8", Lo(p.x)), I("ROR8", 0)>>
    [] p.kind = "bcd"   -> <<I("LD8", Lo(p.x)), I("ADD8", Lo(p.y)), I("DAA", 0),
                             I("ST8", 0), I("LD8", Hi(p.x)), I("ADC8", Hi(p.y)),
                             I("DAA", 0)>>
    [] p.kind = "cmp8"  -> <<I("LD8", Lo(p.x)), I("CMP8", Lo(p.y))>>
    [] p.kind = "cmp16" -> <<I("LD16", p.x), I("CMP16", p.y)>>

Init ==
  /\ program \in Programs
  /\ next = 1 /\ acc = 0 /\ cc = program.cc /\ out = <<>>

\* One instruction on the accumulator a and the flags f.
Effect(i, a, f) ==
  CASE i.op \in Compares8 -> [value |-> a, cc |-> Alu8(i.op, a, i.m, f).cc]
    [] i.op \in Alu8Ops \ Compares8 -> Alu8(i.op, a, i.m, f)
    [] i.op \in Compares16 -> [value |-> a, cc |-> Alu16(i.op, a, i.m, f).cc]
    [] i.op \in Alu16Ops \ Compares16 -> Alu16(i.op, a, i.m, f)
    [] i.op \in RmwOps -> Rmw(i.op, a, f)
    [] i.op = "DAA" -> Daa(a, f)
    [] i.op = "ST8" -> [value |-> a, cc |-> Test8(f, NZV, a).cc]

Execute ==
  /\ next <= Len(Code(program))
  /\ LET i == Code(program)[next]  r == Effect(i, acc, cc)
     IN  /\ acc' = r.value
         /\ cc' = r.cc
         /\ out' = IF i.op = "ST8" THEN Append(out, acc) ELSE out
  /\ next' = next + 1
  /\ UNCHANGED program

Next == Execute
Spec == Init /\ [][Next]_vars

-----------------------------------------------------------------------------
Done == next = Len(Code(program)) + 1

\* The results: programs that go up from the low byte, and down from the high.
Upward   == Pair(acc, out[1])
Downward == Pair(out[1], acc)

Is(kind) == Done /\ program.kind = kind

\* N, V and C after a result w whose exact signed value is exact.
Says(w, exact, carry) ==
  /\ ("N" \in cc) = (w >= 32768)
  /\ ("V" \in cc) = (exact < -32768 \/ exact > 32767)
  /\ ("C" \in cc) = carry

(***************************************************************************)
(* Two 8 bit instructions linked by C do what one 16 bit instruction does: *)
(* the sum, the difference and the negation of words, with N, V and C of   *)
(* the word, whatever the flags were before.                               *)
(***************************************************************************)
WideArithmetic ==
  LET x == program.x  y == program.y
  IN  /\ Is("add") => /\ Upward = (x + y) % 65536
                      /\ Says(Upward, Signed16(x) + Signed16(y), x + y > 65535)
      /\ Is("sub") => /\ Upward = (x - y) % 65536
                      /\ Says(Upward, Signed16(x) - Signed16(y), x < y)
      /\ Is("neg") => /\ Upward = (0 - x) % 65536
                      /\ Says(Upward, 0 - Signed16(x), x # 0)

(***************************************************************************)
(* A shift of a word is a shift of one byte and a rotation of the other:   *)
(* the bit that leaves the first byte enters the second.                   *)
(***************************************************************************)
WideShifts ==
  LET x == program.x
  IN  /\ Is("asl") => /\ Upward = (2 * x) % 65536
                      /\ Says(Upward, 2 * Signed16(x), x > 32767)
      /\ Is("lsr") => Downward = x \div 2 /\ ("C" \in cc) = (x % 2 = 1)
      /\ Is("asr") => /\ Signed16(Downward) = Signed16(x) \div 2
                      /\ ("C" \in cc) = (x % 2 = 1)

(***************************************************************************)
(* DAA after ADD8 and after ADC8 makes the sum of two numbers of packed    *)
(* decimal digits, and its carry is the decimal carry.                     *)
(***************************************************************************)
DecimalAddition ==
  Is("bcd") =>
    LET sum == Decimal(program.x) + Decimal(program.y)
    IN  /\ IsDecimal(Upward)
        /\ Decimal(Upward) = sum % 10000
        /\ ("C" \in cc) = (sum > 9999)

(***************************************************************************)
(* The branches after a comparison compare: BHI, BLS, BCC, BCS the numbers *)
(* without a sign, BGE, BLT, BGT, BLE those with one, BNE and BEQ either.  *)
(***************************************************************************)
Decides(f, x, y, sx, sy) ==
  /\ BranchCond(2, f)  = (x > y)    /\ BranchCond(3, f)  = (x <= y)
  /\ BranchCond(4, f)  = (x >= y)   /\ BranchCond(5, f)  = (x < y)
  /\ BranchCond(6, f)  = (x # y)    /\ BranchCond(7, f)  = (x = y)
  /\ BranchCond(12, f) = (sx >= sy) /\ BranchCond(13, f) = (sx < sy)
  /\ BranchCond(14, f) = (sx > sy)  /\ BranchCond(15, f) = (sx <= sy)

ComparisonsDecide ==
  /\ Is("cmp8") => Decides(cc, Lo(program.x), Lo(program.y),
                           Signed8(Lo(program.x)), Signed8(Lo(program.y)))
  /\ Is("cmp16") => Decides(cc, program.x, program.y,
                            Signed16(program.x), Signed16(program.y))
=============================================================================
