------------------------- MODULE M6809AluProofs -------------------------
(***************************************************************************)
(* What the ALU computes stays within its types, for every operand.        *)
(***************************************************************************)
EXTENDS M6809Alu, TLAPS

-----------------------------------------------------------------------------
(***************************************************************************)
(* Data.                                                                   *)
(***************************************************************************)
\* The bounds of the two types are hidden behind n: the provers would
\* enumerate an interval between two numerals.
LEMMA IntervalIs ==
  \A n \in Nat : \A v : v \in 0..n <=> v \in Int /\ 0 <= v /\ v <= n
  OBVIOUS

LEMMA ByteIs == \A v : v \in Byte <=> v \in Int /\ 0 <= v /\ v <= 255
<1> DEFINE n == 255
<1>1. n \in Nat
  OBVIOUS
<1>2. Byte = 0..n
  BY DEF Byte
<1>3. n = 255
  OBVIOUS
<1> HIDE DEF n
<1>4. \A v : v \in Byte <=> v \in Int /\ 0 <= v /\ v <= n
  BY <1>1, <1>2, IntervalIs
<1> QED BY <1>3, <1>4

LEMMA WordIs == \A v : v \in Word <=> v \in Int /\ 0 <= v /\ v <= 65535
<1> DEFINE n == 65535
<1>1. n \in Nat
  OBVIOUS
<1>2. Word = 0..n
  BY DEF Word
<1>3. n = 65535
  OBVIOUS
<1> HIDE DEF n
<1>4. \A v : v \in Word <=> v \in Int /\ 0 <= v /\ v <= n
  BY <1>1, <1>2, IntervalIs
<1> QED BY <1>3, <1>4

LEMMA ToWordTyped == \A v \in Int : ToWord(v) \in Word
  BY WordIs DEF ToWord

LEMMA ToByteTyped == \A v \in Int : ToByte(v) \in Byte
  BY ByteIs DEF ToByte

LEMMA HalvesTyped ==
  /\ \A w \in Word : Hi(w) \in Byte /\ Lo(w) \in Byte
  /\ \A h, l \in Byte : Pair(h, l) \in Word
<1>1. ASSUME NEW w \in Word PROVE Hi(w) \in Byte /\ Lo(w) \in Byte
  <2>1. w \div 256 <= 255
    BY WordIs
  <2>2. w \div 256 \in Nat
    BY WordIs
  <2>3. w % 256 \in Byte
    BY ByteIs, WordIs
  <2> QED BY <2>1, <2>2, <2>3, ByteIs DEF Hi, Lo
<1>2. ASSUME NEW h \in Byte, NEW l \in Byte PROVE Pair(h, l) \in Word
  BY ByteIs, WordIs DEF Pair
<1> QED BY <1>1, <1>2

LEMMA SignedTyped ==
  /\ \A b \in Byte : Signed8(b) \in Int
  /\ \A w \in Word : Signed16(w) \in Int
  BY ByteIs, WordIs DEF Signed8, Signed16

LEMMA BitTyped ==
  \A v \in Int : \A m \in ByteMasks : Bit(v, m) \in {0, 1}
  BY DEF Bit, ByteMasks

LEMMA FromBitsTyped ==
  ASSUME NEW f \in [ByteMasks -> {0, 1}]
  PROVE  FromBits(f) \in Byte
<1>1. \A m \in {1, 2, 4, 8, 16, 32, 64, 128} : f[m] = 0 \/ f[m] = 1
  BY DEF ByteMasks
<1>2. FromBits(f) \in Int /\ 0 <= FromBits(f) /\ FromBits(f) <= 255
  BY <1>1 DEF FromBits
<1> QED BY <1>2, ByteIs

LEMMA BitwiseTyped ==
  ASSUME NEW p \in Byte, NEW q \in Byte
  PROVE  ByteAnd(p, q) \in Byte /\ ByteXor(p, q) \in Byte /\ ByteOr(p, q) \in Byte
<1>1. \A m \in ByteMasks : Bit(p, m) \in {0, 1} /\ Bit(q, m) \in {0, 1}
  BY BitTyped, ByteIs
<1>2. ByteAnd(p, q) \in Byte
  <2>1. [m \in ByteMasks |-> Bit(p, m) * Bit(q, m)] \in [ByteMasks -> {0, 1}]
    BY <1>1
  <2> QED BY <2>1, FromBitsTyped DEF ByteAnd
<1>3. ByteXor(p, q) \in Byte
  <2>1. [m \in ByteMasks |-> (Bit(p, m) + Bit(q, m)) % 2] \in [ByteMasks -> {0, 1}]
    BY <1>1
  <2> QED BY <2>1, FromBitsTyped DEF ByteXor
<1>4. ByteOr(p, q) \in Byte
  <2>1. [m \in ByteMasks |-> IF Has(p, m) THEN 1 ELSE Bit(q, m)] \in [ByteMasks -> {0, 1}]
    BY <1>1
  <2> QED BY <2>1, FromBitsTyped DEF ByteOr
<1> QED BY <1>2, <1>3, <1>4

LEMMA CCByteTyped == \A f : CCByte(f) \in Byte
  BY ByteIs DEF CCByte, CCMask

LEMMA CCSetTyped == \A v : CCSet(v) \in SUBSET Flags
  BY DEF CCSet

LEMMA WhenTyped == \A f \in Flags : \A on \in BOOLEAN : When(f, on) \in SUBSET Flags
  BY DEF When

-----------------------------------------------------------------------------
(***************************************************************************)
(* Operations.                                                             *)
(***************************************************************************)
LEMMA SetFlagsTyped ==
  \A f, mask \in SUBSET Flags : \A sign, a, b, r :
    SetFlags(f, mask, sign, a, b, r) \in SUBSET Flags
  BY DEF SetFlags

\* What an operation yields.
Result8  == [value : Byte, cc : SUBSET Flags]
Result16 == [value : Word, cc : SUBSET Flags]

LEMMA Op8Typed ==
  \A f, mask \in SUBSET Flags : \A a, b : \A r \in Int :
    Op8(f, mask, a, b, r) \in Result8
  BY SetFlagsTyped, ToByteTyped DEF Op8, Result8

LEMMA Op16Typed ==
  \A f, mask \in SUBSET Flags : \A a, b : \A r \in Int :
    Op16(f, mask, a, b, r) \in Result16
  BY SetFlagsTyped, ToWordTyped DEF Op16, Result16

LEMMA Test8Typed ==
  \A f, mask \in SUBSET Flags : \A r \in Int : Test8(f, mask, r) \in Result8
  BY Op8Typed DEF Test8

LEMMA Test16Typed ==
  \A f, mask \in SUBSET Flags : \A r \in Int : Test16(f, mask, r) \in Result16
  BY Op16Typed DEF Test16

LEMMA MasksTyped ==
  /\ NZ \in SUBSET Flags /\ NZV \in SUBSET Flags /\ NZVC \in SUBSET Flags
  /\ HNZVC \in SUBSET Flags /\ {"Z"} \in SUBSET Flags
  BY DEF NZ, NZV, NZVC, HNZVC, Flags

LEMMA CarryTyped == \A f : Carry(f) \in {0, 1}
  BY DEF Carry

LEMMA RmwTyped ==
  ASSUME NEW op \in RmwOps, NEW v \in Byte, NEW f \in SUBSET Flags
  PROVE  Rmw(op, v, f) \in Result8
<1> DEFINE g == (f \ {"C"}) \cup When("C", v % 2 = 1)
           h == (f \ {"C"}) \cup When("C", v >= \h80)
           k == (f \ {"C"}) \cup When("C", v # 0)
           m == (f \ {"V"}) \cup {"C"}
<1>1. v \in Int /\ Carry(f) \in Int /\ Signed8(v) \in Int
  BY CarryTyped, SignedTyped, ByteIs
<1>2. /\ g \in SUBSET Flags /\ h \in SUBSET Flags /\ k \in SUBSET Flags
      /\ m \in SUBSET Flags
  BY DEF When, Flags
<1>3. /\ v \div 2 \in Int /\ \h80 * Carry(f) \in Int
      /\ Signed8(v) \div 2 \in Int /\ ToByte(Signed8(v) \div 2) \in Int
  BY <1>1, ToByteTyped, ByteIs, WordIs
<1> HIDE DEF g, h, k, m
<1> USE <1>1, <1>2, <1>3, MasksTyped
<1>4. CASE op = "NEG8"
  <2>1. Rmw(op, v, f) = Op8(f, NZVC, 0, v, -v)
    BY <1>4 DEF Rmw
  <2> QED BY <2>1, Op8Typed
<1>5. CASE op = "COM8"
  <2>1. Rmw(op, v, f) = Test8(m, NZ, \hFF - v)
    BY <1>5 DEF Rmw, m
  <2> QED BY <2>1, Test8Typed
<1>6. CASE op = "LSR8"
  <2>1. Rmw(op, v, f) = Test8(g, NZ, v \div 2)
    BY <1>6 DEF Rmw, g, ShiftedOut
  <2> QED BY <2>1, Test8Typed
<1>7. CASE op = "ROR8"
  <2>1. Rmw(op, v, f) = Test8(g, NZ, v \div 2 + \h80 * Carry(f))
    BY <1>7 DEF Rmw, g, ShiftedOut
  <2>2. v \div 2 + \h80 * Carry(f) \in Int
    OBVIOUS
  <2> QED BY <2>1, <2>2, Test8Typed
<1>8. CASE op = "ASR8"
  <2>1. Rmw(op, v, f) = Test8(g, NZ, ToByte(Signed8(v) \div 2))
    BY <1>8 DEF Rmw, g, ShiftedOut
  <2> QED BY <2>1, Test8Typed
<1>9. CASE op = "ASL8"
  <2>1. Rmw(op, v, f) = Op8(f, NZVC, v, v, 2 * v)
    BY <1>9 DEF Rmw
  <2> QED BY <2>1, Op8Typed
<1>10. CASE op = "ROL8"
  <2>1. Rmw(op, v, f) = Op8(h, NZV, v, v, 2 * v + Carry(f))
    BY <1>10 DEF Rmw, h
  <2> QED BY <2>1, Op8Typed
<1>11. CASE op = "DEC8"
  <2>1. Rmw(op, v, f) = Op8(f, NZV, v, 1, v - 1)
    BY <1>11 DEF Rmw
  <2> QED BY <2>1, Op8Typed
<1>12. CASE op = "XDEC8"
  <2>1. Rmw(op, v, f) = Op8(k, NZV, v, 1, v - 1)
    BY <1>12 DEF Rmw, k
  <2> QED BY <2>1, Op8Typed
<1>13. CASE op = "INC8"
  <2>1. Rmw(op, v, f) = Op8(f, NZV, v, 1, v + 1)
    BY <1>13 DEF Rmw
  <2> QED BY <2>1, Op8Typed
<1>14. CASE op = "CLR8"
  <2>1. Rmw(op, v, f) = [value |-> 0, cc |-> (f \ NZVC) \cup {"Z"}]
    BY <1>14 DEF Rmw
  <2>2. (f \ NZVC) \cup {"Z"} \in SUBSET Flags
    OBVIOUS
  <2> QED BY <2>1, <2>2, ByteIs DEF Result8
<1>15. CASE op = "XCLR8"
  <2>1. Rmw(op, v, f) = [value |-> 0, cc |-> (f \ NZV) \cup {"Z"}]
    BY <1>15 DEF Rmw
  <2>2. (f \ NZV) \cup {"Z"} \in SUBSET Flags
    OBVIOUS
  <2> QED BY <2>1, <2>2, ByteIs DEF Result8
<1> QED BY <1>4, <1>5, <1>6, <1>7, <1>8, <1>9, <1>10, <1>11, <1>12, <1>13, <1>14, <1>15
        DEF RmwOps

LEMMA Alu8Typed ==
  ASSUME NEW op \in Alu8Ops, NEW r \in Byte, NEW m \in Byte, NEW f \in SUBSET Flags
  PROVE  Alu8(op, r, m, f) \in Result8
<1> DEFINE g == f \ {"V"}
<1>1. r \in Int /\ m \in Int /\ Carry(f) \in Int /\ g \in SUBSET Flags
  BY CarryTyped, ByteIs
<1>2. ByteAnd(r, m) \in Int /\ ByteXor(r, m) \in Int /\ ByteOr(r, m) \in Int
  BY BitwiseTyped, ByteIs, WordIs
<1> HIDE DEF g
<1> USE <1>1, <1>2, MasksTyped
<1>3. CASE op \in {"SUB8", "CMP8"}
  <2>1. Alu8(op, r, m, f) = Op8(f, NZVC, r, m, r - m)
    BY <1>3 DEF Alu8
  <2> QED BY <2>1, Op8Typed
<1>4. CASE op = "ADD8"
  <2>1. Alu8(op, r, m, f) = Op8(f, HNZVC, r, m, r + m)
    BY <1>4 DEF Alu8
  <2> QED BY <2>1, Op8Typed
<1>5. CASE op = "SBC8"
  <2>1. Alu8(op, r, m, f) = Op8(f, NZVC, r, m, r - m - Carry(f))
    BY <1>5 DEF Alu8
  <2> QED BY <2>1, Op8Typed
<1>6. CASE op = "ADC8"
  <2>1. Alu8(op, r, m, f) = Op8(f, HNZVC, r, m, r + m + Carry(f))
    BY <1>6 DEF Alu8
  <2> QED BY <2>1, Op8Typed
<1>7. CASE op \in {"AND8", "BIT8"}
  <2>1. Alu8(op, r, m, f) = Op8(g, NZ, 0, r, ByteAnd(r, m))
    BY <1>7 DEF Alu8, g
  <2> QED BY <2>1, Op8Typed
<1>8. CASE op = "EOR8"
  <2>1. Alu8(op, r, m, f) = Op8(g, NZ, 0, r, ByteXor(r, m))
    BY <1>8 DEF Alu8, g
  <2> QED BY <2>1, Op8Typed
<1>9. CASE op = "OR8"
  <2>1. Alu8(op, r, m, f) = Op8(g, NZ, 0, r, ByteOr(r, m))
    BY <1>9 DEF Alu8, g
  <2> QED BY <2>1, Op8Typed
<1>10. CASE op = "LD8"
  <2>1. Alu8(op, r, m, f) = Test8(f, NZV, m)
    BY <1>10 DEF Alu8
  <2> QED BY <2>1, Test8Typed
<1> QED BY <1>3, <1>4, <1>5, <1>6, <1>7, <1>8, <1>9, <1>10 DEF Alu8Ops

LEMMA Alu16Typed ==
  ASSUME NEW op \in Alu16Ops, NEW r \in Word, NEW m \in Word, NEW f \in SUBSET Flags
  PROVE  Alu16(op, r, m, f) \in Result16
<1>1. r \in Int /\ m \in Int
  BY WordIs
<1>2. CASE op \in {"SUB16", "CMP16"}
  <2>1. Alu16(op, r, m, f) = Op16(f, NZVC, r, m, r - m)
    BY <1>2 DEF Alu16
  <2> QED BY <2>1, <1>1, MasksTyped, Op16Typed
<1>3. CASE op \in {"ADD16", "XADD16"}
  <2>1. Alu16(op, r, m, f) = Op16(f, NZVC, r, m, r + m)
    BY <1>3 DEF Alu16
  <2> QED BY <2>1, <1>1, MasksTyped, Op16Typed
<1>4. CASE op = "LD16"
  <2>1. Alu16(op, r, m, f) = Test16(f, NZV, m)
    BY <1>4 DEF Alu16
  <2> QED BY <2>1, <1>1, MasksTyped, Test16Typed
<1> QED BY <1>2, <1>3, <1>4 DEF Alu16Ops

LEMMA DaaTyped ==
  ASSUME NEW a \in Byte, NEW f \in SUBSET Flags
  PROVE  Daa(a, f) \in Result8
<1> DEFINE t == a + DaaCorrection(a, f)
           g == (f \ {"V"}) \cup When("C", t > \hFF)
<1>1. t \in Int
  BY ByteIs DEF DaaCorrection
<1>2. g \in SUBSET Flags
  BY DEF When, Flags
<1>3. ToByte(t) \in Int
  BY <1>1, ToByteTyped, ByteIs, WordIs
<1>4. Daa(a, f) = Test8(g, NZ, ToByte(t))
  BY DEF Daa
<1> HIDE DEF t, g
<1> QED BY <1>2, <1>3, <1>4, Test8Typed, MasksTyped

LEMMA MulTyped ==
  ASSUME NEW a \in Byte, NEW b \in Byte, NEW f \in SUBSET Flags
  PROVE  Mul(a, b, f) \in Result16
<1> DEFINE p == a * b
<1>1. p \in Int /\ 0 <= p
  BY ByteIs
<1>2. p <= 65025
  <2>1. a * b <= 255 * b
    BY ByteIs
  <2>2. 255 * b <= 65025
    BY ByteIs
  <2> QED BY <1>1, <2>1, <2>2, ByteIs
<1> DEFINE g == Test16(f, {"Z"}, p).cc
<1>3. Mul(a, b, f) = [value |-> p, cc |-> (g \ {"C"}) \cup When("C", Has(p, \h80))]
  BY DEF Mul
<1> HIDE DEF p
<1>4. g \in SUBSET Flags
  BY <1>1, Test16Typed, MasksTyped DEF Result16
<1> HIDE DEF g
<1>5. (g \ {"C"}) \cup When("C", Has(p, \h80)) \in SUBSET Flags
  BY <1>4 DEF When, Flags
<1>6. p \in Word
  <2>1. p <= 65535
    BY <1>1, <1>2
  <2> QED BY <1>1, <2>1, WordIs
<1> QED BY <1>3, <1>5, <1>6 DEF Result16

LEMMA SexTyped ==
  ASSUME NEW b \in Byte, NEW f \in SUBSET Flags
  PROVE  Sex(b, f) \in Result16
<1>1. ToWord(Signed8(b)) \in Int
  BY SignedTyped, ToWordTyped, ByteIs, WordIs
<1> QED BY <1>1, Test16Typed, MasksTyped DEF Sex
=============================================================================
