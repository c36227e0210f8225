------------------------------ MODULE M6809Alu ------------------------------
(***************************************************************************)
(* What the arithmetic and logic instructions of the core compute: the     *)
(* value that is stored and the condition codes, for every operand.  The   *)
(* flags come from set_flags alone, which works on the untruncated result  *)
(* r (an unsigned int in the code): its carry is the bit above the sign    *)
(* bit and its overflow the exclusive or of the bits of a, b, r and r >> 1 *)
(* at the sign bit.  Bit(r, m) is the two's complement bit of a negative r *)
(* too.  The accumulator D of a 16 bit instruction is Pair(A, B).          *)
(***************************************************************************)
EXTENDS M6809Data

NZ    == {"N", "Z"}
NZV   == {"N", "Z", "V"}
NZVC  == {"N", "Z", "V", "C"}
HNZVC == {"H", "N", "Z", "V", "C"}

\* sign is the weight of T's sign bit: \h80 for uint8_t, \h8000 for uint16_t.
SetFlags(cc, mask, sign, a, b, r) ==
  LET odd(n) == n % 2 = 1
      new == When("H", odd(Bit(a, \h10) + Bit(b, \h10) + Bit(r, \h10)))
        \cup When("N", Has(r, sign))
        \cup When("Z", r % (2 * sign) = 0)
        \cup When("V", odd(Bit(a, sign) + Bit(b, sign) + Bit(r, sign) + Bit(r, 2 * sign)))
        \cup When("C", Has(r, 2 * sign))
  IN  (cc \ mask) \cup (mask \cap new)

\* regop = set_flags(...): the truncated result and the new flags.
Op8(cc, mask, a, b, r) ==
  [value |-> ToByte(r), cc |-> SetFlags(cc, mask, \h80, a, b, r)]

Op16(cc, mask, a, b, r) ==
  [value |-> ToWord(r), cc |-> SetFlags(cc, mask, \h8000, a, b, r)]

\* set_flags(mask, r), the form with one operand, on a byte and on a word.
Test8(cc, mask, r)  == Op8(cc, mask, 0, r, r)
Test16(cc, mask, r) == Op16(cc, mask, 0, r, r)

\* Mutant of Carry: ADC8, SBC8 and the rotations ignore C.
NoCarry(cc) == 0

Carry(cc) == IF "C" \in cc THEN 1 ELSE 0

(***************************************************************************)
(* The read-modify-write instructions, on the operand v.                   *)
(***************************************************************************)
RmwOps == {"NEG8", "COM8", "LSR8", "ROR8", "ASR8", "ASL8", "ROL8", "DEC8",
           "XDEC8", "INC8", "CLR8", "XCLR8"}

\* Mutant of ShiftedOut: C is set but never cleared.
ShiftedOutSticky(cc, v) == cc \cup When("C", v % 2 = 1)

\* C takes the bit that a right shift drops.
ShiftedOut(cc, v) == (cc \ {"C"}) \cup When("C", v % 2 = 1)

Rmw(op, v, cc) ==
  CASE op = "NEG8"  -> Op8(cc, NZVC, 0, v, -v)
    [] op = "COM8"  -> Test8((cc \ {"V"}) \cup {"C"}, NZ, \hFF - v)
    [] op = "LSR8"  -> Test8(ShiftedOut(cc, v), NZ, v \div 2)
    [] op = "ROR8"  -> Test8(ShiftedOut(cc, v), NZ, v \div 2 + \h80 * Carry(cc))
    [] op = "ASR8"  -> Test8(ShiftedOut(cc, v), NZ, ToByte(Signed8(v) \div 2))
    [] op = "ASL8"  -> Op8(cc, NZVC, v, v, 2 * v)
    [] op = "ROL8"  -> Op8((cc \ {"C"}) \cup When("C", v >= \h80), NZV,
                           v, v, 2 * v + Carry(cc))
    [] op = "DEC8"  -> Op8(cc, NZV, v, 1, v - 1)
    [] op = "XDEC8" -> Op8((cc \ {"C"}) \cup When("C", v # 0), NZV, v, 1, v - 1)
    [] op = "INC8"  -> Op8(cc, NZV, v, 1, v + 1)
    [] op = "CLR8"  -> [value |-> 0, cc |-> (cc \ NZVC) \cup {"Z"}]
    [] op = "XCLR8" -> [value |-> 0, cc |-> (cc \ NZV) \cup {"Z"}]

(***************************************************************************)
(* The two-operand instructions on an accumulator r8 and an operand m.     *)
(* CMP8 and BIT8 only set the flags; LD8 ignores r8.                       *)
(***************************************************************************)
Alu8Ops == {"SUB8", "CMP8", "SBC8", "AND8", "BIT8", "EOR8", "ADC8", "OR8",
            "ADD8", "LD8"}
Compares8 == {"CMP8", "BIT8"}

Alu8(op, r8, m, cc) ==
  CASE op \in {"SUB8", "CMP8"} -> Op8(cc, NZVC, r8, m, r8 - m)
    [] op = "SBC8" -> Op8(cc, NZVC, r8, m, r8 - m - Carry(cc))
    [] op = "ADD8" -> Op8(cc, HNZVC, r8, m, r8 + m)
    [] op = "ADC8" -> Op8(cc, HNZVC, r8, m, r8 + m + Carry(cc))
    [] op \in {"AND8", "BIT8"} -> Op8(cc \ {"V"}, NZ, 0, r8, ByteAnd(r8, m))
    [] op = "EOR8" -> Op8(cc \ {"V"}, NZ, 0, r8, ByteXor(r8, m))
    [] op = "OR8"  -> Op8(cc \ {"V"}, NZ, 0, r8, ByteOr(r8, m))
    [] op = "LD8"  -> Test8(cc, NZV, m)

(***************************************************************************)
(* The 16 bit instructions.  XADD16 sets the flags of an addition and, as  *)
(* CMP16, stores nothing.                                                  *)
(***************************************************************************)
Alu16Ops == {"SUB16", "CMP16", "ADD16", "XADD16", "LD16"}
Compares16 == {"CMP16", "XADD16"}

Alu16(op, r16, m, cc) ==
  CASE op \in {"SUB16", "CMP16"}  -> Op16(cc, NZVC, r16, m, r16 - m)
    [] op \in {"ADD16", "XADD16"} -> Op16(cc, NZVC, r16, m, r16 + m)
    [] op = "LD16" -> Test16(cc, NZV, m)

(***************************************************************************)
(* DAA corrects A after a decimal addition: 6 is added to a digit that is  *)
(* above 9 or has carried.  A carry of the addition is kept.               *)
(***************************************************************************)
\* Mutant of DaaCorrection: the carry out of the low digit into 9 is missed.
DaaCorrectionShort(a, cc) ==
  LET msn == a - (a % 16)
      lsn == a % 16
  IN  (IF lsn > 9 \/ "H" \in cc THEN 6 ELSE 0)
        + (IF msn > \h90 \/ "C" \in cc THEN \h60 ELSE 0)

DaaCorrection(a, cc) ==
  LET msn == a - (a % 16)
      lsn == a % 16
  IN  (IF lsn > 9 \/ "H" \in cc THEN 6 ELSE 0)
        + (IF (msn > \h80 /\ lsn > 9) \/ msn > \h90 \/ "C" \in cc THEN \h60 ELSE 0)

Daa(a, cc) ==
  LET t == a + DaaCorrection(a, cc)
  IN  Test8((cc \ {"V"}) \cup When("C", t > \hFF), NZ, ToByte(t))

\* MUL: Z from the product, C from bit 7, the others kept.
Mul(a, b, cc) ==
  [value |-> a * b,
   cc |-> (Test16(cc, {"Z"}, a * b).cc \ {"C"}) \cup When("C", Has(a * b, \h80))]

\* SEX extends the sign of B into A.
Sex(b, cc) == Test16(cc, NZ, ToWord(Signed8(b)))

(***************************************************************************)
(* The branch conditions of the shim, and the conditions that the low      *)
(* digit of a branch opcode selects in the dispatch.                       *)
(***************************************************************************)
CondHi(cc) == cc \cap {"Z", "C"} = {}
CondCc(cc) == "C" \notin cc
CondNe(cc) == "Z" \notin cc
CondVc(cc) == "V" \notin cc
CondPl(cc) == "N" \notin cc
\* Mutant of CondGe: the sign without the overflow.
CondPositive(cc) == "N" \notin cc
CondGe(cc) == ("N" \in cc) = ("V" \in cc)
CondGt(cc) == CondGe(cc) /\ "Z" \notin cc

BranchCond(digit, cc) ==
  LET even == 2 * (digit \div 2)
      c == CASE even = 0  -> TRUE
             [] even = 2  -> CondHi(cc)
             [] even = 4  -> CondCc(cc)
             [] even = 6  -> CondNe(cc)
             [] even = 8  -> CondVc(cc)
             [] even = 10 -> CondPl(cc)
             [] even = 12 -> CondGe(cc)
             [] even = 14 -> CondGt(cc)
  IN  c = (digit = even)
=============================================================================
