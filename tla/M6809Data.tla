----------------------------- MODULE M6809Data -----------------------------
(***************************************************************************)
(* The data of the MC6809: bytes, 16 bit words and the condition codes.    *)
(* A condition code register is the SET of the flags that are 1; CCByte    *)
(* and CCSet convert between that set and the byte the code stores, so     *)
(* that pushing, pulling and transferring CC go through its real layout.   *)
(* A mask is named by its weight (1, 2, 4 .. 128), as the code's hex       *)
(* literals do, and every width is explicit: % 256, % 65536.               *)
(***************************************************************************)
EXTENDS Integers

Byte == 0..255
Word == 0..65535

\* The names of the CPU registers other than CC.  D is A and B side by side.
Reg8  == {"a", "b", "dp"}
Reg16 == {"pc", "s", "u", "x", "y"}
Registers == Reg8 \cup Reg16

Flags == {"C", "V", "Z", "N", "I", "H", "F", "E"}

(***************************************************************************)
(* Halves of a word, wrap-around and sign extension: PAIR16's w, b.h, b.l  *)
(* and the casts (uint8_t), (uint16_t), (int8_t), (int16_t).               *)
(***************************************************************************)
Hi(w) == w \div 256
Lo(w) == w % 256
Pair(h, l) == 256 * h + l
ToByte(v) == v % 256
ToWord(v) == v % 65536
Signed8(b)  == IF b >= 128 THEN b - 256 ELSE b
Signed16(w) == IF w >= 32768 THEN w - 65536 ELSE w

\* v & m for a mask of one bit, on any two's complement integer v.
Bit(v, m) == (v \div m) % 2
Has(v, m) == Bit(v, m) = 1

\* The digits of an opcode, as the rows and columns of the opcode map, and the
\* opcodes of one instruction in the four columns of its addressing modes:
\* immediate, direct, indexed, extended (\h83 stands for \h83 \h93 \hA3 \hB3).
Row(opcode) == opcode \div \h10
Col(opcode) == opcode % \h10
Quad(opcode) == {opcode + \h10 * i : i \in 0..3}

ByteMasks == {1, 2, 4, 8, 16, 32, 64, 128}

FromBits(f) == f[1] + 2 * f[2] + 4 * f[4] + 8 * f[8]
                 + 16 * f[16] + 32 * f[32] + 64 * f[64] + 128 * f[128]

ByteAnd(p, q) == FromBits([m \in ByteMasks |-> Bit(p, m) * Bit(q, m)])
ByteXor(p, q) == FromBits([m \in ByteMasks |-> (Bit(p, m) + Bit(q, m)) % 2])
ByteOr(p, q)  == FromBits([m \in ByteMasks |-> IF Has(p, m) THEN 1 ELSE Bit(q, m)])

\* The weight of each flag in the CC byte.
CCMask == [C |-> 1, V |-> 2, Z |-> 4, N |-> 8, I |-> 16, H |-> 32, F |-> 64, E |-> 128]

CCSet(v) == {f \in Flags : Has(v, CCMask[f])}

CCByte(cc) ==
  LET w(f) == IF f \in cc THEN CCMask[f] ELSE 0
  IN  w("C") + w("V") + w("Z") + w("N") + w("I") + w("H") + w("F") + w("E")

\* { f } when the condition holds: one term of a set of flags.
When(f, on) == IF on THEN {f} ELSE {}
=============================================================================
