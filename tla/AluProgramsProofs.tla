------------------------- MODULE AluProgramsProofs -------------------------
(***************************************************************************)
(* The programs of AluPrograms on all numbers, where its runs take some.   *)
(***************************************************************************)
EXTENDS AluPrograms, M6809AluProofs

\* The bit of weight m, for the weights that set_flags looks at.
LEMMA Bits8 ==
  ASSUME NEW r \in Int, -256 <= r, r <= 511
  PROVE  /\ Bit(r, 128) = IF r < -128 \/ (0 <= r /\ r < 128) \/ (256 <= r /\ r < 384) THEN 0 ELSE 1
         /\ Bit(r, 256) = IF 0 <= r /\ r < 256 THEN 0 ELSE 1
  BY DEF Bit

\* What set_flags leaves in the four flags of a comparison.
LEMMA Flags8 ==
  ASSUME NEW f, NEW a \in Byte, NEW b \in Byte, NEW r \in Int
  PROVE  LET g == Op8(f, NZVC, a, b, r).cc
         IN  /\ ("C" \in g) = (Bit(r, 256) = 1)
             /\ ("N" \in g) = (Bit(r, 128) = 1)
             /\ ("Z" \in g) = (r % 256 = 0)
             /\ ("V" \in g) = ((Bit(a, 128) + Bit(b, 128) + Bit(r, 128) + Bit(r, 256)) % 2 = 1)
  BY DEF Op8, SetFlags, NZVC, When, Has

LEMMA Compare8 ==
  ASSUME NEW f, NEW x \in Byte, NEW y \in Byte
  PROVE  LET g == Op8(f, NZVC, x, y, x - y).cc
         IN  /\ ("C" \in g) = (x < y)
             /\ ("Z" \in g) = (x = y)
             /\ (("N" \in g) = ("V" \in g)) = (Signed8(x) >= Signed8(y))
<1> DEFINE g == Op8(f, NZVC, x, y, x - y).cc
           r == x - y
<1>1. x \in Int /\ 0 <= x /\ x <= 255 /\ y \in Int /\ 0 <= y /\ y <= 255
  BY ByteIs
<1>2. r \in Int /\ -256 <= r /\ r <= 511
  BY <1>1
<1>3. /\ ("C" \in g) = (Bit(r, 256) = 1)
      /\ ("N" \in g) = (Bit(r, 128) = 1)
      /\ ("Z" \in g) = (r % 256 = 0)
      /\ ("V" \in g) = ((Bit(x, 128) + Bit(y, 128) + Bit(r, 128) + Bit(r, 256)) % 2 = 1)
  BY <1>2, Flags8
<1> HIDE DEF g
<1>4. /\ Bit(r, 128) = IF r < -128 \/ (0 <= r /\ r < 128) \/ (256 <= r /\ r < 384) THEN 0 ELSE 1
      /\ Bit(r, 256) = IF 0 <= r /\ r < 256 THEN 0 ELSE 1
      /\ Bit(x, 128) = IF x < 128 THEN 0 ELSE 1
      /\ Bit(y, 128) = IF y < 128 THEN 0 ELSE 1
  BY <1>1, <1>2, Bits8
<1>5. ("C" \in g) = (x < y)
  BY <1>1, <1>3, <1>4
<1>6. ("Z" \in g) = (x = y)
  BY <1>1, <1>3
<1>7. (("N" \in g) = ("V" \in g)) = (Signed8(x) >= Signed8(y))
  BY <1>1, <1>3, <1>4 DEF Signed8
<1> QED BY <1>5, <1>6, <1>7 DEF g

-----------------------------------------------------------------------------
(***************************************************************************)
(* The same for words.                                                     *)
(***************************************************************************)
LEMMA Bits16 ==
  ASSUME NEW r \in Int, -65536 <= r, r <= 131071
  PROVE  /\ Bit(r, 32768) =
              IF r < -32768 \/ (0 <= r /\ r < 32768) \/ (65536 <= r /\ r < 98304) THEN 0 ELSE 1
         /\ Bit(r, 65536) = IF 0 <= r /\ r < 65536 THEN 0 ELSE 1
  BY DEF Bit

LEMMA Flags16 ==
  ASSUME NEW f, NEW a \in Word, NEW b \in Word, NEW r \in Int
  PROVE  LET g == Op16(f, NZVC, a, b, r).cc
         IN  /\ ("C" \in g) = (Bit(r, 65536) = 1)
             /\ ("N" \in g) = (Bit(r, 32768) = 1)
             /\ ("Z" \in g) = (r % 65536 = 0)
             /\ ("V" \in g) = ((Bit(a, 32768) + Bit(b, 32768) + Bit(r, 32768)
                                 + Bit(r, 65536)) % 2 = 1)
  BY DEF Op16, SetFlags, NZVC, When, Has

LEMMA Compare16 ==
  ASSUME NEW f, NEW x \in Word, NEW y \in Word
  PROVE  LET g == Op16(f, NZVC, x, y, x - y).cc
         IN  /\ ("C" \in g) = (x < y)
             /\ ("Z" \in g) = (x = y)
             /\ (("N" \in g) = ("V" \in g)) = (Signed16(x) >= Signed16(y))
<1> DEFINE g == Op16(f, NZVC, x, y, x - y).cc
           r == x - y
<1>1. x \in Int /\ 0 <= x /\ x <= 65535 /\ y \in Int /\ 0 <= y /\ y <= 65535
  BY WordIs
<1>2. r \in Int /\ -65536 <= r /\ r <= 131071
  BY <1>1
<1>3. /\ ("C" \in g) = (Bit(r, 65536) = 1)
      /\ ("N" \in g) = (Bit(r, 32768) = 1)
      /\ ("Z" \in g) = (r % 65536 = 0)
      /\ ("V" \in g) = ((Bit(x, 32768) + Bit(y, 32768) + Bit(r, 32768)
                          + Bit(r, 65536)) % 2 = 1)
  BY <1>2, Flags16
<1> HIDE DEF g
<1>4. /\ Bit(r, 32768) =
           IF r < -32768 \/ (0 <= r /\ r < 32768) \/ (65536 <= r /\ r < 98304) THEN 0 ELSE 1
      /\ Bit(r, 65536) = IF 0 <= r /\ r < 65536 THEN 0 ELSE 1
      /\ Bit(x, 32768) = IF x < 32768 THEN 0 ELSE 1
      /\ Bit(y, 32768) = IF y < 32768 THEN 0 ELSE 1
  BY <1>1, <1>2, Bits16
<1>5. ("C" \in g) = (x < y)
  BY <1>1, <1>3, <1>4
<1>6. ("Z" \in g) = (x = y)
  BY <1>1, <1>3
<1>7. (("N" \in g) = ("V" \in g)) = (Signed16(x) >= Signed16(y))
  BY <1>1, <1>3, <1>4 DEF Signed16
<1> QED BY <1>5, <1>6, <1>7 DEF g

-----------------------------------------------------------------------------
(***************************************************************************)
(* Comparisons.                                                            *)
(***************************************************************************)
\* The conditions of the branches, from the order that the flags stand for.
LEMMA BranchesDecide ==
  ASSUME NEW f, NEW x \in Int, NEW y \in Int, NEW sx \in Int, NEW sy \in Int,
         x = y <=> sx = sy,
         ("C" \in f) = (x < y), ("Z" \in f) = (x = y),
         (("N" \in f) = ("V" \in f)) = (sx >= sy)
  PROVE  Decides(f, x, y, sx, sy)
<1>1. BranchCond(2, f) = (x > y) /\ BranchCond(3, f) = (x <= y)
  BY DEF BranchCond, CondHi
<1>2. BranchCond(4, f) = (x >= y) /\ BranchCond(5, f) = (x < y)
  BY DEF BranchCond, CondCc
<1>3. BranchCond(6, f) = (x # y) /\ BranchCond(7, f) = (x = y)
  BY DEF BranchCond, CondNe
<1>4. BranchCond(12, f) = (sx >= sy) /\ BranchCond(13, f) = (sx < sy)
  BY DEF BranchCond, CondGe
<1>5. BranchCond(14, f) = (sx > sy) /\ BranchCond(15, f) = (sx <= sy)
  BY DEF BranchCond, CondGe, CondGt
<1> QED BY <1>1, <1>2, <1>3, <1>4, <1>5, Zenon DEF Decides

-----------------------------------------------------------------------------
(***************************************************************************)
(* Between the load and the comparison the accumulator is the first        *)
(* number, and nothing runs behind the comparison.                         *)
(***************************************************************************)
CompareInv ==
  /\ program \in Programs /\ next \in Nat
  /\ program.kind = "cmp8" => next \in {1, 2, 3} /\ (next = 2 => acc = Lo(program.x))
  /\ program.kind = "cmp16" => next \in {1, 2, 3} /\ (next = 2 => acc = program.x)
  /\ ComparisonsDecide

LEMMA Compare8OK ==
  ASSUME CompareInv, Execute, program.kind = "cmp8"
  PROVE  CompareInv'
<1> DEFINE x == program.x  y == program.y
           first == I("LD8", Lo(x))  second == I("CMP8", Lo(y))
<1>1. /\ program' = program /\ next' = next + 1 /\ next \in {1, 2, 3}
      /\ program \in Programs /\ (next = 2 => acc = Lo(x))
  BY DEF CompareInv, Execute
<1>2. x \in Word /\ y \in Word
  BY <1>1, ProgramsAssumption
<1>3. Lo(x) \in Byte /\ Lo(y) \in Byte
  BY <1>2, HalvesTyped
<1>4. Code(program) = <<first, second>>
  BY DEF Code
<1>5. Len(Code(program)) = 2
  BY <1>4
<1>6. CASE next = 1
  <2>1. acc' = Effect(first, acc, cc).value
    BY <1>4, <1>6 DEF Execute
  <2>2. Effect(first, acc, cc) = Test8(cc, NZV, Lo(x))
    <3>1. first.op = "LD8" /\ first.m = Lo(x)
      BY DEF I
    <3>2. Alu8("LD8", acc, Lo(x), cc) = Test8(cc, NZV, Lo(x))
      BY DEF Alu8
    <3>3. /\ "LD8" \in Alu8Ops \ Compares8
          /\ "LD8" \notin Alu16Ops \cup Compares16 \cup RmwOps
      BY DEF Alu8Ops, Compares8, Alu16Ops, Compares16, RmwOps
    <3> HIDE DEF first
    <3> QED BY <3>1, <3>2, <3>3 DEF Effect
  <2>3. acc' = Lo(x)
    BY <1>3, <2>1, <2>2, ByteIs DEF Test8, Op8, ToByte
  <2>4. ~Done'
    BY <1>1, <1>5, <1>6 DEF Done
  <2> QED BY <1>1, <1>6, <2>3, <2>4 DEF CompareInv, ComparisonsDecide, Is
<1>7. CASE next = 2
  <2>1. cc' = Effect(second, acc, cc).cc
    BY <1>4, <1>7 DEF Execute
  <2>2. Effect(second, acc, cc).cc = Op8(cc, NZVC, Lo(x), Lo(y), Lo(x) - Lo(y)).cc
    <3>1. second.op = "CMP8" /\ second.m = Lo(y)
      BY DEF I
    <3>2. Alu8("CMP8", acc, Lo(y), cc) = Op8(cc, NZVC, Lo(x), Lo(y), Lo(x) - Lo(y))
      BY <1>1, <1>7 DEF Alu8
    <3>3. "CMP8" \in Compares8 /\ "CMP8" \notin Alu16Ops \cup Compares16 \cup RmwOps
      BY DEF Compares8, Alu16Ops, Compares16, RmwOps
    <3> HIDE DEF second
    <3> QED BY <3>1, <3>2, <3>3 DEF Effect
  <2>3. /\ ("C" \in cc') = (Lo(x) < Lo(y))
        /\ ("Z" \in cc') = (Lo(x) = Lo(y))
        /\ (("N" \in cc') = ("V" \in cc')) = (Signed8(Lo(x)) >= Signed8(Lo(y)))
    BY <1>3, <2>1, <2>2, Compare8
  <2>4. /\ Lo(x) \in Int /\ Lo(y) \in Int
        /\ Signed8(Lo(x)) \in Int /\ Signed8(Lo(y)) \in Int
        /\ Lo(x) = Lo(y) <=> Signed8(Lo(x)) = Signed8(Lo(y))
    BY <1>3, ByteIs DEF Signed8
  <2>5. Decides(cc', Lo(x), Lo(y), Signed8(Lo(x)), Signed8(Lo(y)))
    BY <1>1, <2>3, <2>4, BranchesDecide
  <2> QED BY <1>1, <1>7, <2>5 DEF CompareInv, ComparisonsDecide, Is
<1>8. next <= 2
  BY <1>5 DEF Execute
<1> QED BY <1>1, <1>6, <1>7, <1>8

LEMMA Compare16OK ==
  ASSUME CompareInv, Execute, program.kind = "cmp16"
  PROVE  CompareInv'
<1> DEFINE x == program.x  y == program.y
           first == I("LD16", x)  second == I("CMP16", y)
<1>1. /\ program' = program /\ next' = next + 1 /\ next \in {1, 2, 3}
      /\ program \in Programs /\ (next = 2 => acc = x)
  BY DEF CompareInv, Execute
<1>2. x \in Word /\ y \in Word
  BY <1>1, ProgramsAssumption
<1>4. Code(program) = <<first, second>>
  BY DEF Code
<1>5. Len(Code(program)) = 2
  BY <1>4
<1>6. CASE next = 1
  <2>1. acc' = Effect(first, acc, cc).value
    BY <1>4, <1>6 DEF Execute
  <2>2. Effect(first, acc, cc) = Test16(cc, NZV, x)
    <3>1. first.op = "LD16" /\ first.m = x
      BY DEF I
    <3>2. Alu16("LD16", acc, x, cc) = Test16(cc, NZV, x)
      BY DEF Alu16
    <3>3. /\ "LD16" \in Alu16Ops \ Compares16
          /\ "LD16" \notin Alu8Ops \cup Compares8 \cup RmwOps
      BY DEF Alu8Ops, Compares8, Alu16Ops, Compares16, RmwOps
    <3> HIDE DEF first
    <3> QED BY <3>1, <3>2, <3>3 DEF Effect
  <2>3. acc' = x
    BY <1>2, <2>1, <2>2, WordIs DEF Test16, Op16, ToWord
  <2>4. ~Done'
    BY <1>1, <1>5, <1>6 DEF Done
  <2> QED BY <1>1, <1>6, <2>3, <2>4 DEF CompareInv, ComparisonsDecide, Is
<1>7. CASE next = 2
  <2>1. cc' = Effect(second, acc, cc).cc
    BY <1>4, <1>7 DEF Execute
  <2>2. Effect(second, acc, cc).cc = Op16(cc, NZVC, x, y, x - y).cc
    <3>1. second.op = "CMP16" /\ second.m = y
      BY DEF I
    <3>2. Alu16("CMP16", acc, y, cc) = Op16(cc, NZVC, x, y, x - y)
      BY <1>1, <1>7 DEF Alu16
    <3>3. "CMP16" \in Compares16 /\ "CMP16" \notin Alu8Ops \cup Compares8 \cup RmwOps
      BY DEF Alu8Ops, Compares8, Compares16, RmwOps
    <3> HIDE DEF second
    <3> QED BY <3>1, <3>2, <3>3 DEF Effect
  <2>3. /\ ("C" \in cc') = (x < y)
        /\ ("Z" \in cc') = (x = y)
        /\ (("N" \in cc') = ("V" \in cc')) = (Signed16(x) >= Signed16(y))
    BY <1>2, <2>1, <2>2, Compare16
  <2>4. /\ x \in Int /\ y \in Int /\ Signed16(x) \in Int /\ Signed16(y) \in Int
        /\ x = y <=> Signed16(x) = Signed16(y)
    BY <1>2, WordIs DEF Signed16
  <2>5. Decides(cc', x, y, Signed16(x), Signed16(y))
    BY <1>1, <2>3, <2>4, BranchesDecide
  <2> QED BY <1>1, <1>7, <2>5 DEF CompareInv, ComparisonsDecide, Is
<1>8. next <= 2
  BY <1>5 DEF Execute
<1> QED BY <1>1, <1>6, <1>7, <1>8

(***************************************************************************)
(* The branches after CMP8 and CMP16 decide the order of the two numbers,  *)
(* with and without a sign, for all numbers and whatever the flags were.   *)
(***************************************************************************)
THEOREM BranchesCompare == Spec => []ComparisonsDecide
<1>1. Init => CompareInv
  <2> SUFFICES ASSUME Init PROVE CompareInv
    OBVIOUS
  <2>1. CASE program.kind \in {"cmp8", "cmp16"}
    <3>1. Len(Code(program)) = 2
      BY <2>1 DEF Code
    <3> QED BY <2>1, <3>1 DEF Init, CompareInv, ComparisonsDecide, Is, Done
  <2>2. CASE program.kind \notin {"cmp8", "cmp16"}
    BY <2>2 DEF Init, CompareInv, ComparisonsDecide, Is
  <2> QED BY <2>1, <2>2
<1>2. CompareInv /\ [Next]_vars => CompareInv'
  <2> SUFFICES ASSUME CompareInv, [Next]_vars PROVE CompareInv'
    OBVIOUS
  <2>1. CASE Execute
    <3>1. CASE program.kind \notin {"cmp8", "cmp16"}
      <4>1. program' = program /\ next' = next + 1
        BY <2>1 DEF Execute
      <4> QED BY <3>1, <4>1 DEF CompareInv, ComparisonsDecide, Is
    <3> QED BY <2>1, <3>1, Compare8OK, Compare16OK
  <2>2. CASE UNCHANGED vars
    BY <2>2 DEF vars, CompareInv, ComparisonsDecide, Is, Done, Decides
  <2> QED BY <2>1, <2>2 DEF Next
<1>3. CompareInv => ComparisonsDecide
  BY DEF CompareInv
<1> QED BY <1>1, <1>2, <1>3, PTL DEF Spec

-----------------------------------------------------------------------------
(***************************************************************************)
(* What one arithmetic instruction yields: r is its result before it is    *)
(* cut to a byte, s the same result on numbers with a sign.                *)
(***************************************************************************)
Yields(res, r, s) ==
  /\ res.value = r % 256
  /\ ("N" \in res.cc) = (r % 256 >= 128)
  /\ ("V" \in res.cc) = (s < -128 \/ s > 127)
  /\ ("C" \in res.cc) = (r < 0 \/ r > 255)

\* The value and the flags of set_flags, as bits, and the C that it keeps.
LEMMA OpIs ==
  ASSUME NEW f, NEW mask \in {NZV, NZVC, HNZVC},
         NEW a \in Byte, NEW b \in Byte, NEW r \in Int
  PROVE  LET o == Op8(f, mask, a, b, r)
         IN  /\ o.value = r % 256
             /\ ("N" \in o.cc) = (Bit(r, 128) = 1)
  BY DEF Op8, SetFlags, NZV, NZVC, HNZVC, When, Has, ToByte

LEMMA OpOverflows ==
  ASSUME NEW f, NEW mask \in {NZV, NZVC, HNZVC}, NEW a, NEW b, NEW r
  PROVE  ("V" \in Op8(f, mask, a, b, r).cc)
           = ((Bit(a, 128) + Bit(b, 128) + Bit(r, 128) + Bit(r, 256)) % 2 = 1)
  BY DEF Op8, SetFlags, NZV, NZVC, HNZVC, When

LEMMA OpCarries ==
  ASSUME NEW f, NEW mask, NEW a, NEW b, NEW r \in Int
  PROVE  LET o == Op8(f, mask, a, b, r)
         IN  /\ "C" \in mask => ("C" \in o.cc <=> Bit(r, 256) = 1)
             /\ "C" \notin mask => ("C" \in o.cc <=> "C" \in f)
  BY DEF Op8, SetFlags, When, Has

LEMMA OpHalfCarries ==
  ASSUME NEW f, NEW a, NEW b, NEW r \in Int
  PROVE  ("H" \in Op8(f, HNZVC, a, b, r).cc)
           = ((Bit(a, 16) + Bit(b, 16) + Bit(r, 16)) % 2 = 1)
  BY DEF Op8, SetFlags, HNZVC, When, Has

\* An addition, of two bytes and a carry; the mask may leave C alone.
LEMMA Adds ==
  ASSUME NEW f, NEW mask \in {NZV, NZVC, HNZVC},
         NEW a \in Byte, NEW b \in Byte, NEW c \in {0, 1},
         "C" \in mask \/ ("C" \in f <=> a + b + c > 255)
  PROVE  Yields(Op8(f, mask, a, b, a + b + c), a + b + c, Signed8(a) + Signed8(b) + c)
<1> DEFINE r == a + b + c
           o == Op8(f, mask, a, b, r)
<1>1. /\ a \in Int /\ 0 <= a /\ a <= 255 /\ b \in Int /\ 0 <= b /\ b <= 255
      /\ c \in Int /\ 0 <= c /\ c <= 1
  BY ByteIs
<1>2. r \in Int /\ 0 <= r /\ r <= 511
  BY <1>1
<1>3. o.value = r % 256 /\ ("N" \in o.cc) = (Bit(r, 128) = 1)
  BY <1>2, OpIs
<1>4. ("V" \in o.cc) = ((Bit(a, 128) + Bit(b, 128) + Bit(r, 128) + Bit(r, 256)) % 2 = 1)
  BY OpOverflows
<1>5. /\ "C" \in mask => ("C" \in o.cc <=> Bit(r, 256) = 1)
      /\ "C" \notin mask => ("C" \in o.cc <=> "C" \in f)
  BY <1>2, OpCarries
<1> HIDE DEF o
<1>6. /\ Bit(r, 128) = IF r < -128 \/ (0 <= r /\ r < 128) \/ (256 <= r /\ r < 384) THEN 0 ELSE 1
      /\ Bit(r, 256) = IF 0 <= r /\ r < 256 THEN 0 ELSE 1
      /\ Bit(a, 128) = IF a < 128 THEN 0 ELSE 1
      /\ Bit(b, 128) = IF b < 128 THEN 0 ELSE 1
  BY <1>1, <1>2, Bits8
<1>7. ("C" \in o.cc) = (r < 0 \/ r > 255)
  BY <1>2, <1>5, <1>6
<1>8. ("N" \in o.cc) = (r % 256 >= 128)
  BY <1>2, <1>3, <1>6
<1>9. ("V" \in o.cc) = (Signed8(a) + Signed8(b) + c < -128 \/ Signed8(a) + Signed8(b) + c > 127)
  BY <1>1, <1>4, <1>6 DEF Signed8
<1> QED BY <1>3, <1>7, <1>8, <1>9 DEF Yields, o

\* A subtraction with a borrow.
LEMMA Subtracts ==
  ASSUME NEW f, NEW a \in Byte, NEW b \in Byte, NEW c \in {0, 1}
  PROVE  Yields(Op8(f, NZVC, a, b, a - b - c), a - b - c, Signed8(a) - Signed8(b) - c)
<1> DEFINE r == a - b - c
           o == Op8(f, NZVC, a, b, r)
<1>1. /\ a \in Int /\ 0 <= a /\ a <= 255 /\ b \in Int /\ 0 <= b /\ b <= 255
      /\ c \in Int /\ 0 <= c /\ c <= 1
  BY ByteIs
<1>2. r \in Int /\ -256 <= r /\ r <= 255
  BY <1>1
<1>3. o.value = r % 256 /\ ("N" \in o.cc) = (Bit(r, 128) = 1)
  <2>1. r \in Int /\ NZVC \in {NZV, NZVC, HNZVC}
    BY <1>2
  <2> HIDE DEF r
  <2> QED BY <2>1, OpIs
<1>4. ("V" \in o.cc) = ((Bit(a, 128) + Bit(b, 128) + Bit(r, 128) + Bit(r, 256)) % 2 = 1)
  BY OpOverflows
<1>5. "C" \in o.cc <=> Bit(r, 256) = 1
  BY <1>2, OpCarries DEF NZVC
<1> HIDE DEF o
<1>6. /\ Bit(r, 128) = IF r < -128 \/ (0 <= r /\ r < 128) \/ (256 <= r /\ r < 384) THEN 0 ELSE 1
      /\ Bit(r, 256) = IF 0 <= r /\ r < 256 THEN 0 ELSE 1
      /\ Bit(a, 128) = IF a < 128 THEN 0 ELSE 1
      /\ Bit(b, 128) = IF b < 128 THEN 0 ELSE 1
  BY <1>1, <1>2, Bits8
<1>7. ("C" \in o.cc) = (r < 0 \/ r > 255)
  BY <1>2, <1>5, <1>6
<1>8. ("N" \in o.cc) = (r % 256 >= 128)
  BY <1>2, <1>3, <1>6
<1>9. ("V" \in o.cc) = (Signed8(a) - Signed8(b) - c < -128 \/ Signed8(a) - Signed8(b) - c > 127)
  BY <1>1, <1>4, <1>6 DEF Signed8
<1> QED BY <1>3, <1>7, <1>8, <1>9 DEF Yields, o

\* The half carry of an addition.
LEMMA HalfCarries ==
  ASSUME NEW f, NEW a \in Byte, NEW b \in Byte, NEW c \in {0, 1}
  PROVE  ("H" \in Op8(f, HNZVC, a, b, a + b + c).cc) = ((a % 16) + (b % 16) + c > 15)
<1> DEFINE r == a + b + c
<1>1. /\ a \in Int /\ 0 <= a /\ a <= 255 /\ b \in Int /\ 0 <= b /\ b <= 255
      /\ c \in Int /\ 0 <= c /\ c <= 1
  BY ByteIs
<1>2. ("H" \in Op8(f, HNZVC, a, b, r).cc) = ((Bit(a, 16) + Bit(b, 16) + Bit(r, 16)) % 2 = 1)
  <2>1. r \in Int
    BY <1>1
  <2> HIDE DEF r
  <2> QED BY <2>1, OpHalfCarries
<1>3. PICK p \in Int, q \in Int : p = a \div 16 /\ q = b \div 16
  BY <1>1
<1>4. PICK i \in Int, j \in Int : i = a % 16 /\ j = b % 16
  BY <1>1
<1>5. /\ a = 16 * p + i /\ b = 16 * q + j
      /\ 0 <= i /\ i <= 15 /\ 0 <= j /\ j <= 15
  BY <1>1, <1>3, <1>4
<1>6. r \div 16 = IF i + j + c > 15 THEN p + q + 1 ELSE p + q
  BY <1>1, <1>5
<1>7. (((p % 2) + (q % 2) + ((r \div 16) % 2)) % 2 = 1) = (i + j + c > 15)
  BY <1>6
<1> QED BY <1>2, <1>3, <1>4, <1>7 DEF Bit

-----------------------------------------------------------------------------
(***************************************************************************)
(* Effect, one instruction of a program at a time.                         *)
(***************************************************************************)
\* The instructions are looked up in tables that do not overlap.
LEMMA EffectIs ==
  ASSUME NEW i, NEW a, NEW f
  PROVE  /\ i.op \in {"LD8", "ADD8", "ADC8", "SUB8", "SBC8"} =>
              Effect(i, a, f) = Alu8(i.op, a, i.m, f)
         /\ i.op \in {"NEG8", "ASL8", "ROL8", "LSR8", "ASR8", "ROR8"} =>
              Effect(i, a, f) = Rmw(i.op, a, f)
         /\ i.op = "DAA" => Effect(i, a, f) = Daa(a, f)
         /\ i.op = "ST8" => Effect(i, a, f) = [value |-> a, cc |-> Test8(f, NZV, a).cc]
<1> DEFINE op == i.op
<1>1. op \in {"LD8", "ADD8", "ADC8", "SUB8", "SBC8"} =>
        /\ op \notin Compares8 /\ op \notin Compares16 /\ op \notin RmwOps
        /\ op \in Alu8Ops \ Compares8 /\ op \notin Alu16Ops \ Compares16
        /\ op # "DAA" /\ op # "ST8"
  BY DEF Alu8Ops, Compares8, Alu16Ops, Compares16, RmwOps
<1>2. op \in {"NEG8", "ASL8", "ROL8", "LSR8", "ASR8", "ROR8"} =>
        /\ op \notin Compares8 /\ op \notin Compares16 /\ op \in RmwOps
        /\ op \notin Alu8Ops \ Compares8 /\ op \notin Alu16Ops \ Compares16
        /\ op # "DAA" /\ op # "ST8"
  BY DEF Alu8Ops, Compares8, Alu16Ops, Compares16, RmwOps
<1>3. op \in {"DAA", "ST8"} =>
        /\ op \notin Compares8 /\ op \notin Compares16 /\ op \notin RmwOps
        /\ op \notin Alu8Ops \ Compares8 /\ op \notin Alu16Ops \ Compares16
  BY DEF Alu8Ops, Compares8, Alu16Ops, Compares16, RmwOps
<1> HIDE DEF op
<1>4. Effect(i, a, f) =
        CASE op \in Compares8 -> [value |-> a, cc |-> Alu8(op, a, i.m, f).cc]
          [] op \in Alu8Ops \ Compares8 -> Alu8(op, a, i.m, f)
          [] op \in Compares16 -> [value |-> a, cc |-> Alu16(op, a, i.m, f).cc]
          [] op \in Alu16Ops \ Compares16 -> Alu16(op, a, i.m, f)
          [] op \in RmwOps -> Rmw(op, a, f)
          [] op = "DAA" -> Daa(a, f)
          [] op = "ST8" -> [value |-> a, cc |-> Test8(f, NZV, a).cc]
  BY DEF Effect, op
<1>5. op \in {"LD8", "ADD8", "ADC8", "SUB8", "SBC8"} =>
        Effect(i, a, f) = Alu8(op, a, i.m, f)
  BY <1>1, <1>4
<1>6. op \in {"NEG8", "ASL8", "ROL8", "LSR8", "ASR8", "ROR8"} =>
        Effect(i, a, f) = Rmw(op, a, f)
  BY <1>2, <1>4
<1>7. op = "DAA" => Effect(i, a, f) = Daa(a, f)
  BY <1>3, <1>4
<1>8. op = "ST8" => Effect(i, a, f) = [value |-> a, cc |-> Test8(f, NZV, a).cc]
  BY <1>3, <1>4
<1> QED BY <1>5, <1>6, <1>7, <1>8 DEF op

\* A load and a store leave C alone: it crosses from one byte to the next.
LEMMA LoadEffect ==
  ASSUME NEW m \in Byte, NEW a, NEW f
  PROVE  LET r == Effect(I("LD8", m), a, f)
         IN  r.value = m /\ Carry(r.cc) = Carry(f)
<1>1. Effect(I("LD8", m), a, f) = Op8(f, NZV, 0, m, m)
  <2>1. I("LD8", m).op = "LD8" /\ I("LD8", m).m = m
    BY DEF I
  <2>2. Alu8("LD8", a, m, f) = Op8(f, NZV, 0, m, m)
    BY DEF Alu8, Test8
  <2> QED BY <2>1, <2>2, EffectIs
<1>2. Op8(f, NZV, 0, m, m).value = m
  BY ByteIs DEF Op8, ToByte
<1>3. "C" \in Op8(f, NZV, 0, m, m).cc <=> "C" \in f
  BY DEF Op8, SetFlags, NZV
<1> QED BY <1>1, <1>2, <1>3 DEF Carry

LEMMA StoreEffect ==
  ASSUME NEW n, NEW a, NEW f
  PROVE  LET r == Effect(I("ST8", n), a, f)
         IN  r.value = a /\ Carry(r.cc) = Carry(f)
<1>1. Effect(I("ST8", n), a, f) = [value |-> a, cc |-> Test8(f, NZV, a).cc]
  <2>1. I("ST8", n).op = "ST8"
    BY DEF I
  <2> QED BY <2>1, EffectIs
<1>2. "C" \in Test8(f, NZV, a).cc <=> "C" \in f
  BY DEF Test8, Op8, SetFlags, NZV
<1> QED BY <1>1, <1>2 DEF Carry

LEMMA AddEffect ==
  ASSUME NEW a \in Byte, NEW m \in Byte, NEW f
  PROVE  /\ Effect(I("ADD8", m), a, f) = Op8(f, HNZVC, a, m, a + m)
         /\ Effect(I("ADC8", m), a, f) = Op8(f, HNZVC, a, m, a + m + Carry(f))
         /\ Effect(I("SUB8", m), a, f) = Op8(f, NZVC, a, m, a - m)
         /\ Effect(I("SBC8", m), a, f) = Op8(f, NZVC, a, m, a - m - Carry(f))
<1>1. \A op : I(op, m).op = op /\ I(op, m).m = m
  BY DEF I
<1>2. \A op \in {"ADD8", "ADC8", "SUB8", "SBC8"} :
         Effect(I(op, m), a, f) = Alu8(op, a, m, f)
  BY <1>1, EffectIs
<1>3. /\ Alu8("ADD8", a, m, f) = Op8(f, HNZVC, a, m, a + m)
      /\ Alu8("ADC8", a, m, f) = Op8(f, HNZVC, a, m, a + m + Carry(f))
      /\ Alu8("SUB8", a, m, f) = Op8(f, NZVC, a, m, a - m)
      /\ Alu8("SBC8", a, m, f) = Op8(f, NZVC, a, m, a - m - Carry(f))
  BY DEF Alu8
<1> QED BY <1>2, <1>3

LEMMA ShiftEffect ==
  ASSUME NEW a \in Byte, NEW f
  PROVE  /\ Effect(I("NEG8", 0), a, f) = Op8(f, NZVC, 0, a, -a)
         /\ Effect(I("ASL8", 0), a, f) = Op8(f, NZVC, a, a, 2 * a)
         /\ Effect(I("ROL8", 0), a, f) =
              Op8((f \ {"C"}) \cup When("C", a >= 128), NZV, a, a, 2 * a + Carry(f))
         /\ Effect(I("LSR8", 0), a, f) = Test8(ShiftedOut(f, a), NZ, a \div 2)
         /\ Effect(I("ASR8", 0), a, f) =
              Test8(ShiftedOut(f, a), NZ, ToByte(Signed8(a) \div 2))
         /\ Effect(I("ROR8", 0), a, f) =
              Test8(ShiftedOut(f, a), NZ, a \div 2 + 128 * Carry(f))
         /\ Effect(I("DAA", 0), a, f) = Daa(a, f)
<1>1. \A op : I(op, 0).op = op
  BY DEF I
<1>2. \A op \in {"NEG8", "ASL8", "ROL8", "LSR8", "ASR8", "ROR8"} :
         Effect(I(op, 0), a, f) = Rmw(op, a, f)
  BY <1>1, EffectIs
<1>3. /\ Rmw("NEG8", a, f) = Op8(f, NZVC, 0, a, -a)
      /\ Rmw("ASL8", a, f) = Op8(f, NZVC, a, a, 2 * a)
      /\ Rmw("ROL8", a, f) =
           Op8((f \ {"C"}) \cup When("C", a >= 128), NZV, a, a, 2 * a + Carry(f))
  BY DEF Rmw
<1>4. /\ Rmw("LSR8", a, f) = Test8(ShiftedOut(f, a), NZ, a \div 2)
      /\ Rmw("ASR8", a, f) = Test8(ShiftedOut(f, a), NZ, ToByte(Signed8(a) \div 2))
      /\ Rmw("ROR8", a, f) = Test8(ShiftedOut(f, a), NZ, a \div 2 + 128 * Carry(f))
  BY DEF Rmw
<1>5. Effect(I("DAA", 0), a, f) = Daa(a, f)
  BY <1>1, EffectIs
<1> QED BY <1>2, <1>3, <1>4, <1>5

-----------------------------------------------------------------------------
(***************************************************************************)
(* Words as two bytes.  The high byte of a result, h before it is cut and  *)
(* s with its sign, and the low byte l make the word 256 * h + l.          *)
(***************************************************************************)
\* What WideArithmetic and WideShifts ask of the flags f, with f named.
SaysIn(f, w, exact, carry) ==
  /\ ("N" \in f) = (w >= 32768)
  /\ ("V" \in f) = (exact < -32768 \/ exact > 32767)
  /\ ("C" \in f) = carry

LEMMA Halves ==
  ASSUME NEW w \in Word
  PROVE  /\ Hi(w) \in Byte /\ Lo(w) \in Byte /\ w = 256 * Hi(w) + Lo(w)
         /\ Signed16(w) = 256 * Signed8(Hi(w)) + Lo(w)
<1>1. Hi(w) \in Byte /\ Lo(w) \in Byte
  BY HalvesTyped
<1>2. w = 256 * Hi(w) + Lo(w)
  BY WordIs DEF Hi, Lo
<1>3. Signed16(w) = 256 * Signed8(Hi(w)) + Lo(w)
  BY <1>1, <1>2, WordIs, ByteIs DEF Signed8, Signed16
<1> QED BY <1>1, <1>2, <1>3

LEMMA HighByte ==
  ASSUME NEW res, NEW h \in Int, NEW s \in Int, NEW l \in Byte,
         -256 <= h, h <= 511, Yields(res, h, s)
  PROVE  /\ Pair(res.value, l) = (256 * h + l) % 65536
         /\ SaysIn(res.cc, Pair(res.value, l), 256 * s + l, h < 0 \/ h > 255)
<1>1. l \in Int /\ 0 <= l /\ l <= 255
  BY ByteIs
<1>2. PICK v \in Int : v = h % 256
  OBVIOUS
<1>3. v = IF h < 0 THEN h + 256 ELSE IF h > 255 THEN h - 256 ELSE h
  BY <1>2
<1>4. 0 <= v /\ v <= 255
  BY <1>2
<1>5. 256 * v + l = (256 * h + l) % 65536
  BY <1>1, <1>3, <1>4
<1>6. 256 * v + l >= 32768 <=> v >= 128
  BY <1>1, <1>4
<1>7. 256 * s + l < -32768 \/ 256 * s + l > 32767 <=> s < -128 \/ s > 127
  BY <1>1
<1>8. /\ res.value = v /\ ("N" \in res.cc) = (v >= 128)
      /\ ("V" \in res.cc) = (s < -128 \/ s > 127)
      /\ ("C" \in res.cc) = (h < 0 \/ h > 255)
  BY <1>2 DEF Yields
<1> QED BY <1>5, <1>6, <1>7, <1>8 DEF Pair, SaysIn

-----------------------------------------------------------------------------
(***************************************************************************)
(* The programs of five instructions.  Between the two arithmetic ones the *)
(* first byte b and the carry c hold the whole result of the first byte.   *)
(***************************************************************************)
Wide == {"add", "sub", "neg", "asl", "lsr", "asr"}

Begin(p) == IF p.kind \in {"lsr", "asr"} THEN Hi(p.x) ELSE Lo(p.x)
Then(p) == CASE p.kind \in {"add", "sub", "asl"} -> Hi(p.x)
             [] p.kind = "neg" -> 0
             [] p.kind \in {"lsr", "asr"} -> Lo(p.x)

First(p, b, c) ==
  CASE p.kind = "add" -> b + 256 * c = Lo(p.x) + Lo(p.y)
    [] p.kind = "sub" -> b - 256 * c = Lo(p.x) - Lo(p.y)
    [] p.kind = "neg" -> b - 256 * c = 0 - Lo(p.x)
    [] p.kind = "asl" -> b + 256 * c = 2 * Lo(p.x)
    [] p.kind = "lsr" -> 2 * b + c = Hi(p.x)
    [] p.kind = "asr" -> 2 * Signed8(b) + c = Signed8(Hi(p.x))

\* The result: the first byte b, the second a, and the flags f.
Result(p, b, a, f) ==
  LET x == p.x  y == p.y  up == Pair(a, b)  down == Pair(b, a)
  IN  CASE p.kind = "add" -> /\ up = (x + y) % 65536
                             /\ SaysIn(f, up, Signed16(x) + Signed16(y), x + y > 65535)
        [] p.kind = "sub" -> /\ up = (x - y) % 65536
                             /\ SaysIn(f, up, Signed16(x) - Signed16(y), x < y)
        [] p.kind = "neg" -> /\ up = (0 - x) % 65536
                             /\ SaysIn(f, up, 0 - Signed16(x), x # 0)
        [] p.kind = "asl" -> /\ up = (2 * x) % 65536
                             /\ SaysIn(f, up, 2 * Signed16(x), x > 32767)
        [] p.kind = "lsr" -> down = x \div 2 /\ ("C" \in f) = (x % 2 = 1)
        [] p.kind = "asr" -> /\ Signed16(down) = Signed16(x) \div 2
                             /\ ("C" \in f) = (x % 2 = 1)

\* From the untruncated result r of a byte, the byte that is kept and the carry.
LEMMA CarriedOut ==
  ASSUME NEW res, NEW r \in Int, NEW s, -255 <= r, r <= 511, Yields(res, r, s)
  PROVE  /\ res.value \in Byte
         /\ r >= 0 => res.value + 256 * Carry(res.cc) = r
         /\ r <= 255 => res.value - 256 * Carry(res.cc) = r
<1>1. PICK v \in Int : v = r % 256
  OBVIOUS
<1>2. v = IF r < 0 THEN r + 256 ELSE IF r > 255 THEN r - 256 ELSE r
  BY <1>1
<1>3. v \in Byte
  BY <1>1, ByteIs
<1>4. res.value = v /\ Carry(res.cc) = IF r < 0 \/ r > 255 THEN 1 ELSE 0
  BY <1>1 DEF Yields, Carry
<1> QED BY <1>2, <1>3, <1>4

LEMMA FirstAdd ==
  ASSUME NEW p \in Programs, p.kind = "add", NEW f
  PROVE  LET r == Effect(Code(p)[2], Begin(p), f)
         IN  r.value \in Byte /\ First(p, r.value, Carry(r.cc))
<1> DEFINE a == Lo(p.x)  b == Lo(p.y)  r == Op8(f, HNZVC, a, b, a + b)
<1>1. a \in Byte /\ b \in Byte
  BY ProgramsAssumption, Halves
<1>2. a \in Int /\ b \in Int /\ 0 <= a + b /\ a + b <= 510 /\ a + b + 0 = a + b
  BY <1>1, ByteIs
<1>3. Yields(r, a + b, Signed8(a) + Signed8(b) + 0)
  BY <1>1, <1>2, Adds DEF HNZVC
<1>4. r.value \in Byte /\ r.value + 256 * Carry(r.cc) = a + b
  BY <1>2, <1>3, CarriedOut
<1>5. Code(p)[2] = I("ADD8", b) /\ Begin(p) = a
  BY DEF Code, TwoBytes, Begin
<1>6. Effect(Code(p)[2], Begin(p), f) = r
  BY <1>1, <1>5, AddEffect
<1> QED BY <1>4, <1>6 DEF First

LEMMA FirstSub ==
  ASSUME NEW p \in Programs, p.kind = "sub", NEW f
  PROVE  LET r == Effect(Code(p)[2], Begin(p), f)
         IN  r.value \in Byte /\ First(p, r.value, Carry(r.cc))
<1> DEFINE a == Lo(p.x)  b == Lo(p.y)  r == Op8(f, NZVC, a, b, a - b)
<1>1. a \in Byte /\ b \in Byte
  BY ProgramsAssumption, Halves
<1>2. a \in Int /\ b \in Int /\ -255 <= a - b /\ a - b <= 255 /\ a - b - 0 = a - b
  BY <1>1, ByteIs
<1>3. Yields(r, a - b, Signed8(a) - Signed8(b) - 0)
  BY <1>1, <1>2, Subtracts
<1>4. r.value \in Byte /\ r.value - 256 * Carry(r.cc) = a - b
  BY <1>2, <1>3, CarriedOut
<1>5. Code(p)[2] = I("SUB8", b) /\ Begin(p) = a
  BY DEF Code, TwoBytes, Begin
<1>6. Effect(Code(p)[2], Begin(p), f) = r
  BY <1>1, <1>5, AddEffect
<1> QED BY <1>4, <1>6 DEF First

LEMMA FirstNeg ==
  ASSUME NEW p \in Programs, p.kind = "neg", NEW f
  PROVE  LET r == Effect(Code(p)[2], Begin(p), f)
         IN  r.value \in Byte /\ First(p, r.value, Carry(r.cc))
<1> DEFINE a == Lo(p.x)  r == Op8(f, NZVC, 0, a, -a)
<1>1. a \in Byte /\ 0 \in Byte
  BY ProgramsAssumption, Halves, ByteIs
<1>2. /\ a \in Int /\ -255 <= 0 - a - 0 /\ 0 - a - 0 <= 255
      /\ 0 - a - 0 = -a /\ 0 - a - 0 = 0 - a
  BY <1>1, ByteIs
<1>3. Yields(r, 0 - a - 0, Signed8(0) - Signed8(a) - 0)
  <2>1. Yields(Op8(f, NZVC, 0, a, 0 - a - 0), 0 - a - 0, Signed8(0) - Signed8(a) - 0)
    BY <1>1, Subtracts
  <2> QED BY <1>2, <2>1
<1>4. r.value \in Byte /\ r.value - 256 * Carry(r.cc) = 0 - a
  BY <1>2, <1>3, CarriedOut
<1>5. Code(p)[2] = I("NEG8", 0) /\ Begin(p) = a
  BY DEF Code, Begin
<1>6. Effect(Code(p)[2], Begin(p), f) = r
  BY <1>1, <1>5, ShiftEffect, ZenonT(40)
<1> QED BY <1>4, <1>6 DEF First

LEMMA FirstAsl ==
  ASSUME NEW p \in Programs, p.kind = "asl", NEW f
  PROVE  LET r == Effect(Code(p)[2], Begin(p), f)
         IN  r.value \in Byte /\ First(p, r.value, Carry(r.cc))
<1> DEFINE a == Lo(p.x)  r == Op8(f, NZVC, a, a, 2 * a)
<1>1. a \in Byte
  BY ProgramsAssumption, Halves
<1>2. a \in Int /\ 0 <= 2 * a /\ 2 * a <= 510 /\ a + a + 0 = 2 * a
  BY <1>1, ByteIs
<1>3. Yields(r, 2 * a, Signed8(a) + Signed8(a) + 0)
  BY <1>1, <1>2, Adds DEF NZVC
<1>4. r.value \in Byte /\ r.value + 256 * Carry(r.cc) = 2 * a
  BY <1>2, <1>3, CarriedOut
<1>5. Code(p)[2] = I("ASL8", 0) /\ Begin(p) = a
  BY DEF Code, TwoBytes, Begin, Lo
<1>6. Effect(Code(p)[2], Begin(p), f) = r
  BY <1>1, <1>5, ShiftEffect, ZenonT(40)
<1> QED BY <1>4, <1>6 DEF First

\* A right shift: the byte, and the bit that it drops.
LEMMA ShiftsOut ==
  ASSUME NEW f, NEW v \in Int, NEW w \in Byte
  PROVE  LET r == Test8(ShiftedOut(f, v), NZ, w)
         IN  r.value = w /\ Carry(r.cc) = v % 2
<1>1. Test8(ShiftedOut(f, v), NZ, w).value = w
  BY ByteIs DEF Test8, Op8, ToByte
<1>2. "C" \in Test8(ShiftedOut(f, v), NZ, w).cc <=> v % 2 = 1
  BY DEF Test8, Op8, SetFlags, NZ, ShiftedOut, When
<1>3. v % 2 = 0 \/ v % 2 = 1
  OBVIOUS
<1> QED BY <1>1, <1>2, <1>3 DEF Carry

LEMMA FirstLsr ==
  ASSUME NEW p \in Programs, p.kind = "lsr", NEW f
  PROVE  LET r == Effect(Code(p)[2], Begin(p), f)
         IN  r.value \in Byte /\ First(p, r.value, Carry(r.cc))
<1> DEFINE a == Hi(p.x)  r == Test8(ShiftedOut(f, a), NZ, a \div 2)
<1>1. a \in Byte
  BY ProgramsAssumption, Halves
<1>2. a \in Int /\ a \div 2 \in Byte /\ 2 * (a \div 2) + (a % 2) = a
  BY <1>1, ByteIs
<1>3. r.value = a \div 2 /\ Carry(r.cc) = a % 2
  BY <1>2, ShiftsOut
<1>4. Code(p)[2] = I("LSR8", 0) /\ Begin(p) = a
  BY DEF Code, Begin
<1>5. Effect(Code(p)[2], Begin(p), f) = r
  BY <1>1, <1>4, ShiftEffect, ZenonT(40)
<1> QED BY <1>2, <1>3, <1>5 DEF First

LEMMA FirstAsr ==
  ASSUME NEW p \in Programs, p.kind = "asr", NEW f
  PROVE  LET r == Effect(Code(p)[2], Begin(p), f)
         IN  r.value \in Byte /\ First(p, r.value, Carry(r.cc))
<1> DEFINE a == Hi(p.x)  w == ToByte(Signed8(a) \div 2)
           r == Test8(ShiftedOut(f, a), NZ, w)
<1>1. a \in Byte
  BY ProgramsAssumption, Halves
<1>2. a \in Int /\ 0 <= a /\ a <= 255
  BY <1>1, ByteIs
<1>3. w \in Byte /\ 2 * Signed8(w) + (a % 2) = Signed8(a)
  <2>1. PICK h \in Int : h = Signed8(a) \div 2
    BY <1>2 DEF Signed8
  <2>2. -64 <= h /\ h <= 63 /\ 2 * h + (a % 2) = Signed8(a) /\ w = h % 256
    BY <1>2, <2>1 DEF Signed8, ToByte
  <2>3. w = IF h < 0 THEN h + 256 ELSE h
    BY <2>2
  <2>4. w \in Byte
    BY <2>2, <2>3, ByteIs
  <2>5. Signed8(w) = h
    BY <2>2, <2>3 DEF Signed8
  <2> QED BY <2>2, <2>4, <2>5
<1>4. r.value = w /\ Carry(r.cc) = a % 2
  BY <1>2, <1>3, ShiftsOut
<1>5. Code(p)[2] = I("ASR8", 0) /\ Begin(p) = a
  BY DEF Code, Begin
<1>6. Effect(Code(p)[2], Begin(p), f) = r
  BY <1>1, <1>5, ShiftEffect, ZenonT(40)
<1> QED BY <1>3, <1>4, <1>6 DEF First

-----------------------------------------------------------------------------
(***************************************************************************)
(* The second byte.                                                        *)
(***************************************************************************)
LEMMA CarryIs == \A f : Carry(f) \in Int /\ Carry(f) \in {0, 1} /\ (Carry(f) = 1 <=> "C" \in f)
  BY DEF Carry

LEMMA LastAdd ==
  ASSUME NEW p \in Programs, p.kind = "add", NEW f, NEW b \in Byte, First(p, b, Carry(f))
  PROVE  LET r == Effect(Code(p)[5], Then(p), f)
         IN  Result(p, b, r.value, r.cc)
<1> DEFINE x == p.x  y == p.y  a == Hi(x)  m == Hi(y)  c == Carry(f)  h == a + m + c
           s == Signed8(a) + Signed8(m) + c  r == Op8(f, HNZVC, a, m, h)
<1>1. /\ x \in Word /\ y \in Word /\ a \in Byte /\ m \in Byte
      /\ x = 256 * a + Lo(x) /\ y = 256 * m + Lo(y)
      /\ Signed16(x) = 256 * Signed8(a) + Lo(x) /\ Signed16(y) = 256 * Signed8(m) + Lo(y)
  BY ProgramsAssumption, Halves
<1>2. /\ x \in Int /\ y \in Int /\ Lo(x) \in Int /\ Lo(y) \in Int /\ a \in Int /\ m \in Int
      /\ Signed8(a) \in Int /\ Signed8(m) \in Int /\ c \in Int /\ b \in Int /\ 0 <= b /\ b <= 255
      /\ 0 <= a /\ a <= 255 /\ 0 <= m /\ m <= 255 /\ 0 <= c /\ c <= 1
  BY <1>1, Halves, SignedTyped, CarryIs, ByteIs, WordIs
<1>3. b + 256 * c = Lo(x) + Lo(y)
  BY DEF First
<1>4. Yields(r, h, s)
  BY <1>1, CarryIs, Adds DEF HNZVC
<1>5. 256 * h + b = x + y /\ 256 * s + b = Signed16(x) + Signed16(y)
  <2>1. \A k, l, i, j \in Int :
          b + 256 * c = i + j => 256 * (k + l + c) + b = (256 * k + i) + (256 * l + j)
    BY <1>2, SMTT(30)
  <2> QED BY <1>1, <1>2, <1>3, <2>1
<1>6. (h < 0 \/ h > 255) <=> x + y > 65535
  BY <1>2, <1>5
<1>7. h \in Int /\ s \in Int /\ -256 <= h /\ h <= 511
  BY <1>2
<1>8. Code(p)[5] = I("ADC8", m) /\ Then(p) = a
  BY DEF Code, TwoBytes, Then
<1>9. Effect(Code(p)[5], Then(p), f) = r
  BY <1>1, <1>8, AddEffect
<1> HIDE DEF h, s, r
<1>10. /\ Pair(r.value, b) = (256 * h + b) % 65536
       /\ SaysIn(r.cc, Pair(r.value, b), 256 * s + b, h < 0 \/ h > 255)
  BY <1>4, <1>7, HighByte
<1> QED BY <1>5, <1>6, <1>9, <1>10 DEF Result, SaysIn

LEMMA LastSub ==
  ASSUME NEW p \in Programs, p.kind = "sub", NEW f, NEW b \in Byte, First(p, b, Carry(f))
  PROVE  LET r == Effect(Code(p)[5], Then(p), f)
         IN  Result(p, b, r.value, r.cc)
<1> DEFINE x == p.x  y == p.y  a == Hi(x)  m == Hi(y)  c == Carry(f)  h == a - m - c
           s == Signed8(a) - Signed8(m) - c  r == Op8(f, NZVC, a, m, h)
<1>1. /\ x \in Word /\ y \in Word /\ a \in Byte /\ m \in Byte
      /\ x = 256 * a + Lo(x) /\ y = 256 * m + Lo(y)
      /\ Signed16(x) = 256 * Signed8(a) + Lo(x) /\ Signed16(y) = 256 * Signed8(m) + Lo(y)
  BY ProgramsAssumption, Halves
<1>2. /\ x \in Int /\ y \in Int /\ Lo(x) \in Int /\ Lo(y) \in Int /\ a \in Int /\ m \in Int
      /\ Signed8(a) \in Int /\ Signed8(m) \in Int /\ c \in Int /\ b \in Int /\ 0 <= b /\ b <= 255
      /\ 0 <= a /\ a <= 255 /\ 0 <= m /\ m <= 255 /\ 0 <= c /\ c <= 1
  BY <1>1, Halves, SignedTyped, CarryIs, ByteIs, WordIs
<1>3. b = 256 * c + Lo(x) - Lo(y)
  BY <1>2 DEF First
<1>4. Yields(r, h, s)
  BY <1>1, CarryIs, Subtracts
<1>5. 256 * h + b = x - y /\ 256 * s + b = Signed16(x) - Signed16(y)
  <2>1. \A k, l, i, j \in Int :
          b = 256 * c + i - j => 256 * (k - l - c) + b = (256 * k + i) - (256 * l + j)
    BY <1>2
  <2> QED BY <1>1, <1>2, <1>3, <2>1
<1>6. (h < 0 \/ h > 255) <=> x < y
  BY <1>2, <1>5
<1>7. h \in Int /\ s \in Int /\ -256 <= h /\ h <= 511
  BY <1>2
<1>8. Code(p)[5] = I("SBC8", m) /\ Then(p) = a
  BY DEF Code, TwoBytes, Then
<1>9. Effect(Code(p)[5], Then(p), f) = r
  BY <1>1, <1>8, AddEffect
<1> HIDE DEF h, s, r
<1>10. /\ Pair(r.value, b) = (256 * h + b) % 65536
       /\ SaysIn(r.cc, Pair(r.value, b), 256 * s + b, h < 0 \/ h > 255)
  BY <1>4, <1>7, HighByte
<1> QED BY <1>5, <1>6, <1>9, <1>10 DEF Result, SaysIn

LEMMA LastNeg ==
  ASSUME NEW p \in Programs, p.kind = "neg", NEW f, NEW b \in Byte, First(p, b, Carry(f))
  PROVE  LET r == Effect(Code(p)[5], Then(p), f)
         IN  Result(p, b, r.value, r.cc)
<1> DEFINE x == p.x  m == Hi(x)  c == Carry(f)  h == 0 - m - c
           s == 0 - Signed8(m) - c  r == Op8(f, NZVC, 0, m, h)
<1>1. /\ x \in Word /\ m \in Byte /\ x = 256 * m + Lo(x)
      /\ Signed16(x) = 256 * Signed8(m) + Lo(x) /\ 0 \in Byte /\ Signed8(0) = 0
  BY ProgramsAssumption, Halves, ByteIs DEF Signed8
<1>2. /\ x \in Int /\ 0 <= x /\ Lo(x) \in Int /\ m \in Int /\ Signed8(m) \in Int
      /\ c \in Int /\ b \in Int /\ 0 <= b /\ b <= 255
      /\ 0 <= m /\ m <= 255 /\ 0 <= c /\ c <= 1
  BY <1>1, Halves, SignedTyped, CarryIs, ByteIs, WordIs
<1>3. b - 256 * c = 0 - Lo(x)
  BY DEF First
<1>4. Yields(r, h, s)
  <2>1. Yields(r, h, Signed8(0) - Signed8(m) - c)
    BY <1>1, CarryIs, Subtracts
  <2> QED BY <1>1, <2>1
<1>5. 256 * h + b = 0 - x /\ 256 * s + b = 0 - Signed16(x)
  <2>1. \A l, j \in Int : b - 256 * c = 0 - j => 256 * (0 - l - c) + b = 0 - (256 * l + j)
    BY <1>2
  <2> QED BY <1>1, <1>2, <1>3, <2>1
<1>6. (h < 0 \/ h > 255) <=> x # 0
  BY <1>2, <1>5, SMTT(30)
<1>7. h \in Int /\ s \in Int /\ -256 <= h /\ h <= 511
  BY <1>2
<1>8. Code(p)[5] = I("SBC8", m) /\ Then(p) = 0
  BY DEF Code, Then
<1>9. Effect(Code(p)[5], Then(p), f) = r
  BY <1>1, <1>8, AddEffect
<1> HIDE DEF h, s, r
<1>10. /\ Pair(r.value, b) = (256 * h + b) % 65536
       /\ SaysIn(r.cc, Pair(r.value, b), 256 * s + b, h < 0 \/ h > 255)
  BY <1>4, <1>7, HighByte
<1> QED BY <1>5, <1>6, <1>9, <1>10 DEF Result, SaysIn

LEMMA LastAsl ==
  ASSUME NEW p \in Programs, p.kind = "asl", NEW f, NEW b \in Byte, First(p, b, Carry(f))
  PROVE  LET r == Effect(Code(p)[5], Then(p), f)
         IN  Result(p, b, r.value, r.cc)
<1> DEFINE x == p.x  a == Hi(x)  c == Carry(f)  h == 2 * a + c
           g == (f \ {"C"}) \cup When("C", a >= 128)
           s == Signed8(a) + Signed8(a) + c  r == Op8(g, NZV, a, a, h)
<1>1. /\ x \in Word /\ a \in Byte /\ x = 256 * a + Lo(x)
      /\ Signed16(x) = 256 * Signed8(a) + Lo(x)
  BY ProgramsAssumption, Halves
<1>2. /\ x \in Int /\ Lo(x) \in Int /\ 0 <= Lo(x) /\ Lo(x) <= 255 /\ a \in Int
      /\ Signed8(a) \in Int /\ c \in Int /\ b \in Int /\ 0 <= b /\ b <= 255
      /\ 0 <= a /\ a <= 255 /\ 0 <= c /\ c <= 1
  BY <1>1, Halves, SignedTyped, CarryIs, ByteIs, WordIs
<1>3. b + 256 * c = 2 * Lo(x)
  BY DEF First
<1>4. Yields(r, h, s)
  <2>1. a + a + c = h /\ (a + a + c > 255 <=> a >= 128)
    BY <1>2
  <2>2. "C" \in g <=> a + a + c > 255
    BY <2>1 DEF When
  <2> HIDE DEF g
  <2>3. Yields(Op8(g, NZV, a, a, a + a + c), a + a + c, s)
    BY <1>1, <2>2, CarryIs, Adds
  <2> QED BY <2>1, <2>3
<1>5. 256 * h + b = 2 * x /\ 256 * s + b = 2 * Signed16(x)
  <2>1. \A k, i \in Int : b + 256 * c = 2 * i =>
          /\ 256 * (2 * k + c) + b = 2 * (256 * k + i)
          /\ 256 * (k + k + c) + b = 2 * (256 * k + i)
    BY <1>2
  <2> QED BY <1>1, <1>2, <1>3, <2>1
<1>6. (h < 0 \/ h > 255) <=> x > 32767
  BY <1>1, <1>2
<1>7. h \in Int /\ s \in Int /\ -256 <= h /\ h <= 511
  BY <1>2
<1>8. Code(p)[5] = I("ROL8", 0) /\ Then(p) = a
  BY DEF Code, TwoBytes, Then, Hi
<1>9. Effect(Code(p)[5], Then(p), f) = r
  BY <1>1, <1>8, ShiftEffect
<1> HIDE DEF h, s, r
<1>10. /\ Pair(r.value, b) = (256 * h + b) % 65536
       /\ SaysIn(r.cc, Pair(r.value, b), 256 * s + b, h < 0 \/ h > 255)
  BY <1>4, <1>7, HighByte
<1> QED BY <1>5, <1>6, <1>9, <1>10 DEF Result, SaysIn

\* ROR8 puts the carry above the low byte.
LEMMA LowByte ==
  ASSUME NEW l \in Byte, NEW f, NEW g
  PROVE  LET r == Test8(ShiftedOut(g, l), NZ, l \div 2 + 128 * Carry(f))
         IN  /\ r.value = l \div 2 + 128 * Carry(f)
             /\ ("C" \in r.cc) = (l % 2 = 1)
<1>1. l \in Int /\ 0 <= l /\ l <= 255 /\ Carry(f) \in Int /\ 0 <= Carry(f) /\ Carry(f) <= 1
  BY ByteIs, CarryIs
<1>2. l \div 2 + 128 * Carry(f) \in Byte
  BY <1>1, ByteIs
<1>3. LET r == Test8(ShiftedOut(g, l), NZ, l \div 2 + 128 * Carry(f))
      IN  r.value = l \div 2 + 128 * Carry(f) /\ Carry(r.cc) = l % 2
  BY <1>1, <1>2, ShiftsOut
<1> QED BY <1>3, CarryIs

LEMMA LastLsr ==
  ASSUME NEW p \in Programs, p.kind = "lsr", NEW f, NEW b \in Byte, First(p, b, Carry(f))
  PROVE  LET r == Effect(Code(p)[5], Then(p), f)
         IN  Result(p, b, r.value, r.cc)
<1> DEFINE x == p.x  l == Lo(x)  c == Carry(f)  w == l \div 2 + 128 * c
           r == Test8(ShiftedOut(f, l), NZ, w)
<1>1. x \in Word /\ l \in Byte /\ x = 256 * Hi(x) + l
  BY ProgramsAssumption, Halves
<1>2. /\ x \in Int /\ Hi(x) \in Int /\ l \in Int /\ 0 <= l /\ l <= 255
      /\ c \in Int /\ 0 <= c /\ c <= 1 /\ b \in Int
  BY <1>1, Halves, CarryIs, ByteIs, WordIs
<1>3. 2 * b + c = Hi(x)
  BY DEF First
<1>4. r.value = w /\ ("C" \in r.cc) = (l % 2 = 1)
  BY <1>1, LowByte
<1>5. 256 * b + w = x \div 2
  <2>1. PICK d \in Int, e \in Int : d = l \div 2 /\ e = l % 2
    BY <1>2
  <2>2. l = 2 * d + e /\ 0 <= e /\ e <= 1
    BY <1>2, <2>1
  <2>3. x = 2 * (256 * b + d + 128 * c) + e
    BY <1>1, <1>2, <1>3, <2>2
  <2>4. PICK q \in Int : q = 256 * b + d + 128 * c
    BY <1>2
  <2>5. x \div 2 = q
    <3>1. \A n, i \in Int : n = 2 * q + i /\ 0 <= i /\ i <= 1 => n \div 2 = q
      OBVIOUS
    <3>2. x = 2 * q + e
      BY <1>2, <2>3, <2>4
    <3> QED BY <1>2, <2>2, <3>1, <3>2
  <2> QED BY <1>2, <2>1, <2>4, <2>5
<1>6. x % 2 = l % 2
  BY <1>1, <1>2
<1>7. Code(p)[5] = I("ROR8", 0) /\ Then(p) = l
  BY DEF Code, Then
<1>8. Effect(Code(p)[5], Then(p), f) = r
  <2>1. Effect(I("ROR8", 0), l, f) = r
    BY <1>1, ShiftEffect, ZenonT(40)
  <2> QED BY <1>7, <2>1
<1> QED BY <1>4, <1>5, <1>6, <1>8 DEF Result, Pair

LEMMA LastAsr ==
  ASSUME NEW p \in Programs, p.kind = "asr", NEW f, NEW b \in Byte, First(p, b, Carry(f))
  PROVE  LET r == Effect(Code(p)[5], Then(p), f)
         IN  Result(p, b, r.value, r.cc)
<1> DEFINE x == p.x  l == Lo(x)  c == Carry(f)  w == l \div 2 + 128 * c
           r == Test8(ShiftedOut(f, l), NZ, w)
<1>1. /\ x \in Word /\ l \in Byte /\ x = 256 * Hi(x) + l
      /\ Signed16(x) = 256 * Signed8(Hi(x)) + l /\ Hi(x) \in Byte
  BY ProgramsAssumption, Halves
<1>2. /\ x \in Int /\ Hi(x) \in Int /\ l \in Int /\ 0 <= l /\ l <= 255
      /\ c \in Int /\ 0 <= c /\ c <= 1 /\ b \in Int /\ 0 <= b /\ b <= 255
      /\ Signed8(b) \in Int /\ Signed8(Hi(x)) \in Int /\ Signed16(x) \in Int
  BY <1>1, SignedTyped, CarryIs, ByteIs, WordIs
<1>3. 2 * Signed8(b) + c = Signed8(Hi(x))
  BY DEF First
<1>4. r.value = w /\ ("C" \in r.cc) = (l % 2 = 1)
  BY <1>1, LowByte
<1>5. Signed16(256 * b + w) = Signed16(x) \div 2
  <2>1. PICK d \in Int, e \in Int : d = l \div 2 /\ e = l % 2
    BY <1>2
  <2>2. l = 2 * d + e /\ 0 <= e /\ e <= 1 /\ 0 <= d /\ d <= 127
    BY <1>2, <2>1
  <2>3. Signed16(x) = 2 * (256 * Signed8(b) + d + 128 * c) + e
    BY <1>1, <1>2, <1>3, <2>2
  <2>4. Signed16(x) \div 2 = 256 * Signed8(b) + d + 128 * c
    BY <1>2, <2>2, <2>3
  <2>5. Signed16(256 * b + w) = 256 * Signed8(b) + w
    BY <1>2, <2>1, <2>2 DEF Signed8, Signed16
  <2> QED BY <1>2, <2>1, <2>4, <2>5
<1>6. x % 2 = l % 2
  BY <1>1, <1>2
<1>7. Code(p)[5] = I("ROR8", 0) /\ Then(p) = l
  BY DEF Code, Then
<1>8. Effect(Code(p)[5], Then(p), f) = r
  <2>1. Effect(I("ROR8", 0), l, f) = r
    BY <1>1, ShiftEffect, ZenonT(40)
  <2> QED BY <1>7, <2>1
<1> QED BY <1>4, <1>5, <1>6, <1>8 DEF Result, Pair

-----------------------------------------------------------------------------
(***************************************************************************)
(* The state before each of the five instructions.                         *)
(***************************************************************************)
WideInv ==
  /\ program \in Programs /\ next \in Nat
  /\ program.kind \in Wide =>
       /\ next \in {1, 2, 3, 4, 5, 6}
       /\ next \in {1, 2, 3} => out = <<>>
       /\ next = 2 => acc = Begin(program)
       /\ next = 3 => acc \in Byte /\ First(program, acc, Carry(cc))
       /\ next = 5 => acc = Then(program)
       /\ next \in {4, 5, 6} =>
            \E b \in Byte :
              /\ out = <<b>>
              /\ next \in {4, 5} => First(program, b, Carry(cc))
              /\ next = 6 => Result(program, b, acc, cc)

LEMMA WideCode ==
  ASSUME NEW p \in Programs, p.kind \in Wide
  PROVE  /\ Len(Code(p)) = 5
         /\ Code(p)[1] = I("LD8", Begin(p))
         /\ Code(p)[2].op # "ST8" /\ Code(p)[5].op # "ST8"
         /\ Code(p)[3] = I("ST8", 0)
         /\ Code(p)[4] = I("LD8", Then(p))
         /\ Begin(p) \in Byte /\ Then(p) \in Byte
<1>1. Hi(p.x) \in Byte /\ Lo(p.x) \in Byte /\ 0 \in Byte
  BY ProgramsAssumption, Halves, ByteIs
<1>2. CASE p.kind \in {"add", "sub", "asl"}
  <2>1. \E first \in {"ADD8", "SUB8", "ASL8"}, second \in {"ADC8", "SBC8", "ROL8"} :
          \E y : Code(p) = TwoBytes(first, second, p.x, y)
    BY <1>2 DEF Code
  <2>2. Begin(p) = Lo(p.x) /\ Then(p) = Hi(p.x)
    BY <1>2 DEF Begin, Then
  <2> QED BY <1>1, <2>1, <2>2 DEF TwoBytes, I
<1>3. CASE p.kind = "neg"
  BY <1>1, <1>3 DEF Code, Begin, Then, I
<1>4. CASE p.kind = "lsr"
  BY <1>1, <1>4 DEF Code, Begin, Then, I
<1>5. CASE p.kind = "asr"
  BY <1>1, <1>5 DEF Code, Begin, Then, I
<1> QED BY <1>2, <1>3, <1>4, <1>5 DEF Wide

LEMMA FirstOK ==
  ASSUME NEW p \in Programs, p.kind \in Wide, NEW f
  PROVE  LET r == Effect(Code(p)[2], Begin(p), f)
         IN  r.value \in Byte /\ First(p, r.value, Carry(r.cc))
  BY FirstAdd, FirstSub, FirstNeg, FirstAsl, FirstLsr, FirstAsr DEF Wide

LEMMA LastOK ==
  ASSUME NEW p \in Programs, p.kind \in Wide, NEW f, NEW b \in Byte, First(p, b, Carry(f))
  PROVE  LET r == Effect(Code(p)[5], Then(p), f)
         IN  Result(p, b, r.value, r.cc)
  BY LastAdd, LastSub, LastNeg, LastAsl, LastLsr, LastAsr DEF Wide

LEMMA WideStep ==
  ASSUME WideInv, Execute, program.kind \in Wide
  PROVE  WideInv'
<1> DEFINE p == program  i == Code(p)[next]  r == Effect(i, acc, cc)
<1>1. /\ p' = p /\ p \in Programs /\ next' = next + 1 /\ acc' = r.value /\ cc' = r.cc
      /\ out' = IF i.op = "ST8" THEN Append(out, acc) ELSE out
  BY DEF WideInv, Execute
<1>2. next \in {1, 2, 3, 4, 5}
  <2>1. Len(Code(p)) = 5
    BY <1>1, WideCode
  <2>2. next <= 5 /\ next \in {1, 2, 3, 4, 5, 6}
    BY <2>1 DEF WideInv, Execute
  <2> QED BY <2>2
<1>3. CASE next = 1
  <2>1. i = I("LD8", Begin(p)) /\ i.op = "LD8"
    <3>1. Code(p)[1] = I("LD8", Begin(p))
      BY <1>1, WideCode
    <3> QED BY <1>3, <3>1 DEF I
  <2>2. r.value = Begin(p)
    BY <1>1, <2>1, WideCode, LoadEffect
  <2> HIDE DEF i, r
  <2> QED BY <1>1, <1>3, <2>1, <2>2 DEF WideInv
<1>4. CASE next = 2
  <2>1. i.op # "ST8" /\ acc = Begin(p) /\ out = <<>>
    BY <1>1, <1>4, WideCode DEF WideInv
  <2>2. r.value \in Byte /\ First(p, r.value, Carry(r.cc))
    BY <1>1, <1>4, <2>1, FirstOK
  <2> HIDE DEF i, r
  <2> QED BY <1>1, <1>4, <2>1, <2>2 DEF WideInv
<1>5. CASE next = 3
  <2>1. i = I("ST8", 0) /\ i.op = "ST8"
    <3>1. Code(p)[3] = I("ST8", 0)
      BY <1>1, WideCode
    <3> QED BY <1>5, <3>1 DEF I
  <2>2. out = <<>> /\ acc \in Byte /\ First(p, acc, Carry(cc))
    BY <1>5 DEF WideInv
  <2>3. Carry(r.cc) = Carry(cc)
    BY <2>1, StoreEffect
  <2>4. out' = <<acc>>
    BY <1>1, <2>1, <2>2
  <2> HIDE DEF i, r
  <2>5. First(program', acc, Carry(cc'))
    BY <1>1, <2>2, <2>3
  <2>6. next' = 4 /\ program' \in Programs
    BY <1>1, <1>5
  <2> QED BY <2>2, <2>4, <2>5, <2>6 DEF WideInv
<1>6. CASE next = 4
  <2>1. i = I("LD8", Then(p)) /\ i.op = "LD8"
    <3>1. Code(p)[4] = I("LD8", Then(p))
      BY <1>1, WideCode
    <3> QED BY <1>6, <3>1 DEF I
  <2>2. r.value = Then(p) /\ Carry(r.cc) = Carry(cc)
    BY <1>1, <2>1, WideCode, LoadEffect
  <2>3. PICK b \in Byte : out = <<b>> /\ First(p, b, Carry(cc))
    BY <1>6 DEF WideInv
  <2> HIDE DEF i, r
  <2> QED BY <1>1, <1>6, <2>1, <2>2, <2>3 DEF WideInv
<1>7. CASE next = 5
  <2>1. i.op # "ST8" /\ acc = Then(p)
    BY <1>1, <1>7, WideCode DEF WideInv
  <2>2. PICK b \in Byte : out = <<b>> /\ First(p, b, Carry(cc))
    BY <1>7 DEF WideInv
  <2>3. Result(p, b, r.value, r.cc)
    BY <1>1, <1>7, <2>1, <2>2, LastOK
  <2> HIDE DEF i, r
  <2> QED BY <1>1, <1>7, <2>1, <2>2, <2>3 DEF WideInv
<1> QED BY <1>2, <1>3, <1>4, <1>5, <1>6, <1>7

LEMMA WideInductive ==
  /\ Init => WideInv
  /\ WideInv /\ [Next]_vars => WideInv'
<1>1. Init => WideInv
  BY DEF Init, WideInv
<1>2. ASSUME WideInv, [Next]_vars PROVE WideInv'
  <2>1. CASE Execute
    <3>1. CASE program.kind \notin Wide
      <4>1. program' = program /\ next' = next + 1
        BY <2>1 DEF Execute
      <4> QED BY <1>2, <3>1, <4>1 DEF WideInv
    <3>2. CASE program.kind \in Wide
      BY <1>2, <2>1, <3>2, WideStep
    <3> QED BY <3>1, <3>2
  <2>2. CASE UNCHANGED vars
    <3>1. program' = program /\ next' = next /\ acc' = acc /\ cc' = cc /\ out' = out
      BY <2>2 DEF vars
    <3> QED BY <1>2, <3>1 DEF WideInv
  <2> QED BY <1>2, <2>1, <2>2 DEF Next
<1> QED BY <1>1, <1>2

LEMMA WideResult ==
  ASSUME WideInv, Done, program.kind \in Wide
  PROVE  Result(program, out[1], acc, cc)
<1>1. next = 6
  BY WideCode DEF Done, WideInv
<1>2. PICK b \in Byte : out = <<b>> /\ Result(program, b, acc, cc)
  BY <1>1 DEF WideInv
<1> QED BY <1>2

(***************************************************************************)
(* ADD8 and ADC8, SUB8 and SBC8, NEG8 and SBC8 compute the sum, the        *)
(* difference and the negation of all words, with N, V and C of the word.  *)
(***************************************************************************)
THEOREM WordsAreExact == Spec => []WideArithmetic
<1>1. WideInv => WideArithmetic
  <2> SUFFICES ASSUME WideInv PROVE WideArithmetic
    OBVIOUS
  <2>1. ASSUME Is("add") \/ Is("sub") \/ Is("neg")
        PROVE  Result(program, out[1], acc, cc)
    BY <2>1, WideResult DEF Is, Wide
  <2>2. ASSUME Is("add")
        PROVE  /\ Upward = (program.x + program.y) % 65536
               /\ Says(Upward, Signed16(program.x) + Signed16(program.y),
                       program.x + program.y > 65535)
    BY <2>1, <2>2 DEF Is, Result, Says, SaysIn, Upward
  <2>3. ASSUME Is("sub")
        PROVE  /\ Upward = (program.x - program.y) % 65536
               /\ Says(Upward, Signed16(program.x) - Signed16(program.y),
                       program.x < program.y)
    BY <2>1, <2>3 DEF Is, Result, Says, SaysIn, Upward
  <2>4. ASSUME Is("neg")
        PROVE  /\ Upward = (0 - program.x) % 65536
               /\ Says(Upward, 0 - Signed16(program.x), program.x # 0)
    BY <2>1, <2>4 DEF Is, Result, Says, SaysIn, Upward
  <2> QED BY <2>2, <2>3, <2>4 DEF WideArithmetic
<1> QED BY <1>1, WideInductive, PTL DEF Spec

(***************************************************************************)
(* ASL8 and ROL8, LSR8 and ROR8, ASR8 and ROR8 shift all words by one bit. *)
(***************************************************************************)
THEOREM WordsShift == Spec => []WideShifts
<1>1. WideInv => WideShifts
  <2> SUFFICES ASSUME WideInv PROVE WideShifts
    OBVIOUS
  <2>1. ASSUME Is("asl") \/ Is("lsr") \/ Is("asr")
        PROVE  Result(program, out[1], acc, cc)
    BY <2>1, WideResult DEF Is, Wide
  <2>2. ASSUME Is("asl")
        PROVE  /\ Upward = (2 * program.x) % 65536
               /\ Says(Upward, 2 * Signed16(program.x), program.x > 32767)
    BY <2>1, <2>2 DEF Is, Result, Says, SaysIn, Upward
  <2>3. ASSUME Is("lsr")
        PROVE  Downward = program.x \div 2 /\ ("C" \in cc) = (program.x % 2 = 1)
    BY <2>1, <2>3 DEF Is, Result, Downward
  <2>4. ASSUME Is("asr")
        PROVE  /\ Signed16(Downward) = Signed16(program.x) \div 2
               /\ ("C" \in cc) = (program.x % 2 = 1)
    BY <2>1, <2>4 DEF Is, Result, Downward
  <2> QED BY <2>2, <2>3, <2>4 DEF WideShifts
<1> QED BY <1>1, WideInductive, PTL DEF Spec

-----------------------------------------------------------------------------
(***************************************************************************)
(* Packed decimal digits.  A byte holds two.                               *)
(***************************************************************************)
Digits(b) == (b % 16) + 10 * (b \div 16)
AreDigits(b) == b % 16 <= 9 /\ b \div 16 <= 9

\* A byte and its digits.
LEMMA DigitsOf ==
  ASSUME NEW b \in Byte
  PROVE  /\ b % 16 \in Int /\ b \div 16 \in Int /\ b = 16 * (b \div 16) + (b % 16)
         /\ 0 <= b % 16 /\ b % 16 <= 15 /\ 0 <= b \div 16 /\ b \div 16 <= 15
<1>1. b \in Int /\ 0 <= b /\ b <= 255
  BY ByteIs
<1> QED BY <1>1

LEMMA ByteOfDigits ==
  ASSUME NEW h \in Int, NEW l \in Int, 0 <= h, h <= 15, 0 <= l, l <= 15
  PROVE  /\ 16 * h + l \in Byte
         /\ (16 * h + l) % 16 = l /\ (16 * h + l) \div 16 = h
  BY ByteIs

LEMMA WordDigits ==
  ASSUME NEW h \in Byte, NEW l \in Byte
  PROVE  LET w == Pair(h, l)
         IN  /\ Decimal(w) = 100 * Digits(h) + Digits(l)
             /\ IsDecimal(w) <=> AreDigits(h) /\ AreDigits(l)
<1> DEFINE w == Pair(h, l)
<1>1. PICK h1 \in Int, h0 \in Int : h1 = h \div 16 /\ h0 = h % 16
  BY DigitsOf
<1>2. PICK l1 \in Int, l0 \in Int : l1 = l \div 16 /\ l0 = l % 16
  BY DigitsOf
<1>3. /\ h = 16 * h1 + h0 /\ 0 <= h0 /\ h0 <= 15 /\ 0 <= h1 /\ h1 <= 15
      /\ l = 16 * l1 + l0 /\ 0 <= l0 /\ l0 <= 15 /\ 0 <= l1 /\ l1 <= 15
  BY <1>1, <1>2, DigitsOf
<1>4. w = 4096 * h1 + 256 * h0 + 16 * l1 + l0 /\ w \in Int
  BY <1>3 DEF Pair
<1> HIDE DEF w
<1>5. w % 16 = l0 /\ w \div 16 = 256 * h1 + 16 * h0 + l1
  BY <1>3, <1>4
<1>6. (w \div 16) % 16 = l1
  BY <1>3, <1>5
<1>7. w \div 256 = 16 * h1 + h0
  BY <1>3, <1>4
<1>8. (w \div 256) % 16 = h0
  BY <1>3, <1>7
<1>9. w \div 4096 = h1
  BY <1>3, <1>4
<1>10. (w \div 4096) % 16 = h1 /\ (w \div 1) % 16 = l0
  BY <1>3, <1>4, <1>5, <1>9
<1>11. Decimal(w) = 100 * Digits(h) + Digits(l)
  <2>1. Decimal(w) = l0 + 10 * l1 + 100 * h0 + 1000 * h1
    BY <1>5, <1>6, <1>8, <1>9 DEF Decimal
  <2>2. Digits(h) = h0 + 10 * h1 /\ Digits(l) = l0 + 10 * l1
    BY <1>1, <1>2 DEF Digits
  <2> QED BY <2>1, <2>2
<1>12. IsDecimal(w) <=> AreDigits(h) /\ AreDigits(l)
  <2>1. IsDecimal(w) <=> h1 <= 9 /\ h0 <= 9 /\ l1 <= 9 /\ l0 <= 9
    BY <1>6, <1>8, <1>10 DEF IsDecimal
  <2> QED BY <2>1, <1>1, <1>2 DEF AreDigits
<1> QED BY <1>11, <1>12 DEF w

\* What an addition of two bytes leaves for DAA: v, C and H.
Added(a, b, c, v, f) ==
  /\ v = (a + b + c) % 256
  /\ "C" \in f <=> a + b + c > 255
  /\ "H" \in f <=> (a % 16) + (b % 16) + c > 15

LEMMA DaaAdds ==
  ASSUME NEW a \in Byte, NEW b \in Byte, NEW c \in {0, 1}, NEW v, NEW f,
         AreDigits(a), AreDigits(b), Added(a, b, c, v, f)
  PROVE  LET r == Daa(v, f)
         IN  /\ r.value \in Byte /\ AreDigits(r.value)
             /\ Digits(r.value) + 100 * Carry(r.cc) = Digits(a) + Digits(b) + c
<1>1. PICK a1 \in Int, a0 \in Int : a1 = a \div 16 /\ a0 = a % 16
  BY DigitsOf
<1>2. PICK b1 \in Int, b0 \in Int : b1 = b \div 16 /\ b0 = b % 16
  BY DigitsOf
<1>3. /\ a = 16 * a1 + a0 /\ 0 <= a0 /\ a0 <= 9 /\ 0 <= a1 /\ a1 <= 9
      /\ b = 16 * b1 + b0 /\ 0 <= b0 /\ b0 <= 9 /\ 0 <= b1 /\ b1 <= 9
      /\ Digits(a) = a0 + 10 * a1 /\ Digits(b) = b0 + 10 * b1
  BY <1>1, <1>2, DigitsOf DEF AreDigits, Digits
<1> DEFINE s == a0 + b0 + c
           n == a1 + b1
           e == DaaCorrection(v, f)
           t == v + e
<1>4. /\ s \in Int /\ 0 <= s /\ s <= 19 /\ n \in Int /\ 0 <= n /\ n <= 18
      /\ a + b + c = 16 * n + s
  BY <1>3
<1>5. PICK h \in Int, l \in Int : h = v \div 16 /\ l = v % 16
  BY <1>4 DEF Added
<1>6. v \in Int /\ v = 16 * h + l /\ 0 <= l /\ l <= 15 /\ 0 <= h /\ h <= 15
  <2>1. v \in Int /\ 0 <= v /\ v <= 255
    BY <1>4 DEF Added
  <2> QED BY <1>5, <2>1
<1>7. "H" \in f <=> s > 15
  BY <1>1, <1>2 DEF Added
<1>8. "C" \in f <=> 16 * n + s > 255
  BY <1>4 DEF Added
<1>9. v = IF 16 * n + s > 255 THEN 16 * n + s - 256 ELSE 16 * n + s
  BY <1>4 DEF Added
<1>10. l = IF s > 15 THEN s - 16 ELSE s
  BY <1>4, <1>5, <1>9
<1>11. h = IF s > 15 THEN (IF n > 14 THEN n - 15 ELSE n + 1)
                     ELSE (IF n > 15 THEN n - 16 ELSE n)
  BY <1>4, <1>6, <1>9, <1>10
<1> HIDE DEF s, n
<1>12. e = (IF l > 9 \/ "H" \in f THEN 6 ELSE 0)
             + (IF (16 * h > 128 /\ l > 9) \/ 16 * h > 144 \/ "C" \in f THEN 96 ELSE 0)
  <2>1. v - l = 16 * h
    BY <1>6
  <2> QED BY <1>5, <2>1 DEF DaaCorrection
\* Six is added to a low digit above 9, and to a high digit that is, or that
\* the carry of the low one takes, above 9.
<1>13. e = (IF s > 9 THEN 6 ELSE 0)
             + (IF n + (IF s > 9 THEN 1 ELSE 0) > 9 THEN 96 ELSE 0)
  BY <1>4, <1>7, <1>8, <1>10, <1>11, <1>12
<1> HIDE DEF e
<1> DEFINE k == IF s > 9 THEN 1 ELSE 0
           l2 == IF s > 9 THEN s - 10 ELSE s
           h2 == IF n + k > 9 THEN n + k - 10 ELSE n + k
<1>14. /\ k \in Int /\ l2 \in Int /\ h2 \in Int
       /\ 0 <= l2 /\ l2 <= 9 /\ 0 <= h2 /\ h2 <= 9
  BY <1>4
<1>15. t % 256 = 16 * h2 + l2
  BY <1>4, <1>9, <1>13
<1>16. "C" \in f \/ t > 255 <=> n + k > 9
  BY <1>4, <1>8, <1>9, <1>13
<1>17. l2 + 10 * h2 + 100 * (IF n + k > 9 THEN 1 ELSE 0) = s + 10 * n
  BY <1>4
<1>18. Daa(v, f) = Test8((f \ {"V"}) \cup When("C", t > 255), NZ, ToByte(t))
  BY DEF Daa, e
<1> HIDE DEF k, l2, h2, t
<1>19. /\ Daa(v, f).value = ToByte(ToByte(t))
       /\ "C" \in Daa(v, f).cc <=> "C" \in f \/ t > 255
  BY <1>18 DEF Test8, Op8, SetFlags, NZ, When
<1>20. Daa(v, f).value = 16 * h2 + l2
  BY <1>14, <1>15, <1>19 DEF ToByte
<1>21. /\ Daa(v, f).value \in Byte
       /\ AreDigits(Daa(v, f).value)
       /\ Digits(Daa(v, f).value) = l2 + 10 * h2
  <2>1. /\ 16 * h2 + l2 \in Byte
        /\ (16 * h2 + l2) % 16 = l2 /\ (16 * h2 + l2) \div 16 = h2
    <3>1. h2 <= 15 /\ l2 <= 15
      BY <1>14
    <3> QED BY <1>14, <3>1, ByteOfDigits
  <2> QED BY <1>14, <1>20, <2>1 DEF AreDigits, Digits
<1>22. Carry(Daa(v, f).cc) = IF n + k > 9 THEN 1 ELSE 0
  BY <1>16, <1>19 DEF Carry
<1>23. Digits(a) + Digits(b) + c = s + 10 * n
  BY <1>3 DEF s, n
<1> QED BY <1>17, <1>21, <1>22, <1>23

(***************************************************************************)
(* The state before each of the seven instructions of the decimal sum.     *)
(***************************************************************************)
DecimalResult(p, l, h, f) ==
  LET sum == Decimal(p.x) + Decimal(p.y)
  IN  /\ IsDecimal(Pair(h, l))
      /\ Decimal(Pair(h, l)) = sum % 10000
      /\ ("C" \in f) = (sum > 9999)

LowSum(p, l, c) ==
  /\ l \in Byte /\ AreDigits(l)
  /\ Digits(l) + 100 * c = Digits(Lo(p.x)) + Digits(Lo(p.y))

DecimalState(p, n, a, f, o) ==
  /\ n \in {1, 2, 3, 4, 5, 6, 7, 8}
  /\ n \in {1, 2, 3, 4} => o = <<>>
  /\ n = 2 => a = Lo(p.x)
  /\ n = 3 => Added(Lo(p.x), Lo(p.y), 0, a, f)
  /\ n = 4 => LowSum(p, a, Carry(f))
  /\ n = 6 => a = Hi(p.x)
  /\ n \in {5, 6, 7, 8} =>
       \E l \in Byte :
         /\ o = <<l>>
         /\ n \in {5, 6} => LowSum(p, l, Carry(f))
         /\ n = 7 => \E c \in {0, 1} : LowSum(p, l, c) /\ Added(Hi(p.x), Hi(p.y), c, a, f)
         /\ n = 8 => DecimalResult(p, l, a, f)

DecimalInv ==
  /\ program \in Programs /\ next \in Nat
  /\ program.kind = "bcd" => DecimalState(program, next, acc, cc, out)

LEMMA DecimalStates ==
  ASSUME NEW p, NEW a, NEW f
  PROVE  /\ DecimalState(p, 1, a, f, <<>>)
         /\ a = Lo(p.x) => DecimalState(p, 2, a, f, <<>>)
         /\ Added(Lo(p.x), Lo(p.y), 0, a, f) => DecimalState(p, 3, a, f, <<>>)
         /\ LowSum(p, a, Carry(f)) => DecimalState(p, 4, a, f, <<>>)
         /\ \A l \in Byte : LowSum(p, l, Carry(f)) =>
              /\ DecimalState(p, 5, a, f, <<l>>)
              /\ a = Hi(p.x) => DecimalState(p, 6, a, f, <<l>>)
         /\ \A l \in Byte, c \in {0, 1} :
              (LowSum(p, l, c) /\ Added(Hi(p.x), Hi(p.y), c, a, f))
                => DecimalState(p, 7, a, f, <<l>>)
         /\ \A l \in Byte : DecimalResult(p, l, a, f) => DecimalState(p, 8, a, f, <<l>>)
<1>1. DecimalState(p, 1, a, f, <<>>)
  BY DEF DecimalState
<1>2. a = Lo(p.x) => DecimalState(p, 2, a, f, <<>>)
  BY DEF DecimalState
<1>3. Added(Lo(p.x), Lo(p.y), 0, a, f) => DecimalState(p, 3, a, f, <<>>)
  BY DEF DecimalState
<1>4. LowSum(p, a, Carry(f)) => DecimalState(p, 4, a, f, <<>>)
  BY DEF DecimalState
<1>5. ASSUME NEW l \in Byte, LowSum(p, l, Carry(f))
      PROVE  /\ DecimalState(p, 5, a, f, <<l>>)
             /\ a = Hi(p.x) => DecimalState(p, 6, a, f, <<l>>)
  BY <1>5 DEF DecimalState
<1>6. ASSUME NEW l \in Byte, NEW c \in {0, 1},
             LowSum(p, l, c) /\ Added(Hi(p.x), Hi(p.y), c, a, f)
      PROVE  DecimalState(p, 7, a, f, <<l>>)
  BY <1>6 DEF DecimalState
<1>7. ASSUME NEW l \in Byte, DecimalResult(p, l, a, f)
      PROVE  DecimalState(p, 8, a, f, <<l>>)
  BY <1>7 DEF DecimalState
<1> QED BY <1>1, <1>2, <1>3, <1>4, <1>5, <1>6, <1>7

LEMMA DecimalCode ==
  ASSUME NEW p \in Programs, p.kind = "bcd"
  PROVE  /\ Len(Code(p)) = 7
         /\ Code(p)[1] = I("LD8", Lo(p.x)) /\ Code(p)[2] = I("ADD8", Lo(p.y))
         /\ Code(p)[3] = I("DAA", 0) /\ Code(p)[4] = I("ST8", 0)
         /\ Code(p)[5] = I("LD8", Hi(p.x)) /\ Code(p)[6] = I("ADC8", Hi(p.y))
         /\ Code(p)[7] = I("DAA", 0)
<1>1. Code(p) = <<I("LD8", Lo(p.x)), I("ADD8", Lo(p.y)), I("DAA", 0), I("ST8", 0),
                  I("LD8", Hi(p.x)), I("ADC8", Hi(p.y)), I("DAA", 0)>>
  BY DEF Code
<1> HIDE DEF I
<1> QED BY <1>1

LEMMA DecimalOperands ==
  ASSUME NEW p \in Programs, p.kind = "bcd"
  PROVE  /\ Lo(p.x) \in Byte /\ Lo(p.y) \in Byte /\ Hi(p.x) \in Byte /\ Hi(p.y) \in Byte
         /\ AreDigits(Lo(p.x)) /\ AreDigits(Lo(p.y))
         /\ AreDigits(Hi(p.x)) /\ AreDigits(Hi(p.y))
         /\ Decimal(p.x) = 100 * Digits(Hi(p.x)) + Digits(Lo(p.x))
         /\ Decimal(p.y) = 100 * Digits(Hi(p.y)) + Digits(Lo(p.y))
<1>1. \A w \in Word : /\ Hi(w) \in Byte /\ Lo(w) \in Byte /\ w = Pair(Hi(w), Lo(w))
  BY Halves DEF Pair
<1>2. \A w \in Word :
        /\ Decimal(w) = 100 * Digits(Hi(w)) + Digits(Lo(w))
        /\ IsDecimal(w) <=> AreDigits(Hi(w)) /\ AreDigits(Lo(w))
  BY <1>1, WordDigits
<1>3. p.x \in Word /\ p.y \in Word /\ IsDecimal(p.x) /\ IsDecimal(p.y)
  BY ProgramsAssumption
<1> QED BY <1>1, <1>2, <1>3

\* ADD8 and ADC8, as DAA finds them.
LEMMA AddedBytes ==
  ASSUME NEW a \in Byte, NEW b \in Byte, NEW c \in {0, 1}, NEW f
  PROVE  LET r == Op8(f, HNZVC, a, b, a + b + c)
         IN  Added(a, b, c, r.value, r.cc)
<1> DEFINE r == Op8(f, HNZVC, a, b, a + b + c)
<1>1. Yields(r, a + b + c, Signed8(a) + Signed8(b) + c)
  BY Adds DEF HNZVC
<1>2. ("H" \in r.cc) = ((a % 16) + (b % 16) + c > 15)
  BY HalfCarries
<1>3. a + b + c \in Int /\ ~(a + b + c < 0)
  BY ByteIs
<1> HIDE DEF r
<1> QED BY <1>1, <1>2, <1>3 DEF Yields, Added, r

LEMMA HighSum ==
  ASSUME NEW p \in Programs, p.kind = "bcd", NEW l \in Byte, NEW c \in {0, 1},
         LowSum(p, l, c), NEW v, NEW f, Added(Hi(p.x), Hi(p.y), c, v, f)
  PROVE  LET r == Daa(v, f)
         IN  DecimalResult(p, l, r.value, r.cc)
<1> DEFINE r == Daa(v, f)
<1>1. /\ r.value \in Byte /\ AreDigits(r.value)
      /\ Digits(r.value) + 100 * Carry(r.cc) = Digits(Hi(p.x)) + Digits(Hi(p.y)) + c
  BY DecimalOperands, DaaAdds
<1>2. \A b \in Byte : AreDigits(b) => Digits(b) \in Int /\ 0 <= Digits(b) /\ Digits(b) <= 99
  BY DigitsOf DEF Digits, AreDigits
<1> HIDE DEF r
<1>3. /\ Decimal(Pair(r.value, l)) = 100 * Digits(r.value) + Digits(l)
      /\ IsDecimal(Pair(r.value, l))
  BY <1>1, WordDigits DEF LowSum
<1>4. PICK k \in Int : k = Carry(r.cc) /\ (k = 0 \/ k = 1) /\ (k = 1 <=> "C" \in r.cc)
  BY CarryIs
<1>5. PICK d \in Int : d = 100 * Digits(r.value) + Digits(l) /\ 0 <= d /\ d <= 9999
  BY <1>1, <1>2 DEF LowSum
<1>6. Decimal(p.x) + Decimal(p.y) = d + 10000 * k
  <2> DEFINE D(b) == Digits(b)
  <2>1. /\ Decimal(p.x) = 100 * D(Hi(p.x)) + D(Lo(p.x))
        /\ Decimal(p.y) = 100 * D(Hi(p.y)) + D(Lo(p.y))
        /\ D(Hi(p.x)) \in Int /\ D(Lo(p.x)) \in Int
        /\ D(Hi(p.y)) \in Int /\ D(Lo(p.y)) \in Int
    BY <1>2, DecimalOperands
  <2>2. /\ D(r.value) \in Int /\ D(l) \in Int /\ D(l) + 100 * c = D(Lo(p.x)) + D(Lo(p.y))
        /\ D(r.value) + 100 * k = D(Hi(p.x)) + D(Hi(p.y)) + c
    BY <1>1, <1>2, <1>4 DEF LowSum
  <2> HIDE DEF D
  <2>3. \A a1, a0, b1, b0, h, w, i, j \in Int :
          h = a1 + b1 + i - 100 * j /\ w = a0 + b0 - 100 * i
            => (100 * a1 + a0) + (100 * b1 + b0) = (100 * h + w) + 10000 * j
    OBVIOUS
  <2>4. d = 100 * D(r.value) + D(l)
    BY <1>5 DEF D
  <2>5. c \in Int
    OBVIOUS
  <2>6. D(r.value) = D(Hi(p.x)) + D(Hi(p.y)) + c - 100 * k
    <3>1. \A h, a1, b1 \in Int : h + 100 * k = a1 + b1 + c => h = a1 + b1 + c - 100 * k
      BY <2>5
    <3> QED BY <2>1, <2>2, <3>1
  <2>7. D(l) = D(Lo(p.x)) + D(Lo(p.y)) - 100 * c
    <3>1. \A w, a0, b0 \in Int : w + 100 * c = a0 + b0 => w = a0 + b0 - 100 * c
      BY <2>5
    <3> QED BY <2>1, <2>2, <3>1
  <2> QED BY <2>1, <2>2, <2>3, <2>4, <2>5, <2>6, <2>7
<1>7. (d + 10000 * k) % 10000 = d /\ (d + 10000 * k > 9999 <=> k = 1)
  BY <1>4, <1>5
<1> QED BY <1>3, <1>4, <1>5, <1>6, <1>7 DEF DecimalResult, r

LEMMA DecimalStep ==
  ASSUME DecimalInv, Execute, program.kind = "bcd"
  PROVE  DecimalInv'
<1> DEFINE p == program  i == Code(p)[next]  r == Effect(i, acc, cc)
           x0 == Lo(p.x)  y0 == Lo(p.y)  x1 == Hi(p.x)  y1 == Hi(p.y)
<1>1. /\ p' = p /\ p \in Programs /\ next' = next + 1 /\ acc' = r.value /\ cc' = r.cc
      /\ out' = IF i.op = "ST8" THEN Append(out, acc) ELSE out
  BY DEF DecimalInv, Execute
<1>2. next \in {1, 2, 3, 4, 5, 6, 7}
  <2>1. Len(Code(p)) = 7
    BY <1>1, DecimalCode
  <2>2. next <= 7 /\ next \in {1, 2, 3, 4, 5, 6, 7, 8}
    BY <2>1 DEF DecimalInv, DecimalState, Execute
  <2> QED BY <2>2
<1>3. /\ x0 \in Byte /\ y0 \in Byte /\ x1 \in Byte /\ y1 \in Byte
      /\ AreDigits(x0) /\ AreDigits(y0) /\ AreDigits(x1) /\ AreDigits(y1)
  BY <1>1, DecimalOperands
<1>4. /\ Code(p)[1] = I("LD8", x0) /\ Code(p)[2] = I("ADD8", y0)
      /\ Code(p)[3] = I("DAA", 0) /\ Code(p)[4] = I("ST8", 0)
      /\ Code(p)[5] = I("LD8", x1) /\ Code(p)[6] = I("ADC8", y1)
      /\ Code(p)[7] = I("DAA", 0)
  BY <1>1, DecimalCode
<1>5. \A op, m : I(op, m).op = op
  BY DEF I
<1>13. DecimalState(p, next, acc, cc, out)
  BY DEF DecimalInv
<1>14. SUFFICES DecimalState(p, next', acc', cc', out')
  BY <1>1 DEF DecimalInv
<1>6. CASE next = 1
  <2>1. i.op # "ST8" /\ r.value = x0
    BY <1>3, <1>4, <1>5, <1>6, LoadEffect
  <2>2. out' = <<>> /\ acc' = x0 /\ next' = 2
    BY <1>1, <1>6, <2>1, <1>13 DEF DecimalState
  <2> HIDE DEF i, r
  <2> QED BY <1>1, <2>2, DecimalStates
<1>7. CASE next = 2
  <2>1. i = I("ADD8", y0) /\ i.op # "ST8" /\ acc = x0
    BY <1>4, <1>5, <1>7, <1>13 DEF DecimalState
  <2>2. r = Op8(cc, HNZVC, x0, y0, x0 + y0 + 0)
    <3>1. x0 + y0 + 0 = x0 + y0
      BY <1>3, ByteIs
    <3> QED BY <1>3, <2>1, <3>1, AddEffect
  <2>3. Added(x0, y0, 0, r.value, r.cc)
    BY <1>3, <2>2, AddedBytes
  <2>4. out' = <<>> /\ next' = 3
    BY <1>1, <1>7, <2>1, <1>13 DEF DecimalState
  <2> HIDE DEF i, r
  <2> QED BY <1>1, <2>3, <2>4, DecimalStates
<1>8. CASE next = 3
  <2>1. i = I("DAA", 0) /\ i.op # "ST8" /\ Added(x0, y0, 0, acc, cc)
    BY <1>4, <1>5, <1>8, <1>13 DEF DecimalState
  <2>2. r = Daa(acc, cc)
    BY <2>1, <1>5, EffectIs
  <2>3. LowSum(p, r.value, Carry(r.cc))
    <3>1. /\ r.value \in Byte /\ AreDigits(r.value)
          /\ Digits(r.value) + 100 * Carry(r.cc) = Digits(x0) + Digits(y0) + 0
      BY <1>3, <2>1, <2>2, DaaAdds
    <3>2. Digits(x0) + Digits(y0) + 0 = Digits(x0) + Digits(y0)
      BY <1>3, DigitsOf DEF Digits
    <3> QED BY <3>1, <3>2 DEF LowSum
  <2>4. out' = <<>> /\ next' = 4
    BY <1>1, <1>8, <2>1, <1>13 DEF DecimalState
  <2> HIDE DEF i, r
  <2> QED BY <1>1, <2>3, <2>4, DecimalStates
<1>9. CASE next = 4
  <2>1. i = I("ST8", 0) /\ i.op = "ST8"
    BY <1>4, <1>5, <1>9
  <2>2. out = <<>> /\ acc \in Byte /\ LowSum(p, acc, Carry(cc))
    BY <1>9, <1>13 DEF DecimalState, LowSum
  <2>3. Carry(r.cc) = Carry(cc)
    BY <2>1, StoreEffect
  <2>4. out' = <<acc>> /\ next' = 5 /\ LowSum(p, acc, Carry(cc'))
    BY <1>1, <1>9, <2>1, <2>2, <2>3
  <2> HIDE DEF i, r
  <2> QED BY <1>1, <2>2, <2>4, DecimalStates
<1>10. CASE next = 5
  <2>1. i.op # "ST8" /\ r.value = x1 /\ Carry(r.cc) = Carry(cc)
    BY <1>3, <1>4, <1>5, <1>10, LoadEffect
  <2>2. PICK l \in Byte : out = <<l>> /\ LowSum(p, l, Carry(cc))
    BY <1>10, <1>13 DEF DecimalState
  <2>3. out' = <<l>> /\ acc' = x1 /\ next' = 6 /\ LowSum(p, l, Carry(cc'))
    BY <1>1, <1>10, <2>1, <2>2
  <2> HIDE DEF i, r
  <2> QED BY <2>2, <2>3, DecimalStates
<1>11. CASE next = 6
  <2>1. i = I("ADC8", y1) /\ i.op # "ST8" /\ acc = x1
    BY <1>4, <1>5, <1>11, <1>13 DEF DecimalState
  <2>2. PICK l \in Byte : out = <<l>> /\ LowSum(p, l, Carry(cc))
    BY <1>11, <1>13 DEF DecimalState
  <2>3. r = Op8(cc, HNZVC, x1, y1, x1 + y1 + Carry(cc))
    BY <1>3, <2>1, AddEffect
  <2>4. Carry(cc) \in {0, 1} /\ Added(x1, y1, Carry(cc), r.value, r.cc)
    BY <1>3, <2>3, AddedBytes, CarryIs
  <2>5. /\ out' = <<l>> /\ next' = 7 /\ LowSum(p, l, Carry(cc))
        /\ Added(Hi(p.x), Hi(p.y), Carry(cc), acc', cc')
    BY <1>1, <1>11, <2>1, <2>2, <2>4
  <2>6. \E c \in {0, 1} : /\ LowSum(p, l, c)
                          /\ Added(Hi(p.x), Hi(p.y), c, acc', cc')
    BY <2>4, <2>5
  <2> HIDE DEF i, r
  <2> QED BY <1>1, <2>5, <2>6, DecimalStates
<1>12. CASE next = 7
  <2>1. i = I("DAA", 0) /\ i.op # "ST8"
    BY <1>4, <1>5, <1>12
  <2>2. PICK l \in Byte, c \in {0, 1} :
          out = <<l>> /\ LowSum(p, l, c) /\ Added(x1, y1, c, acc, cc)
    BY <1>12, <1>13 DEF DecimalState
  <2>3. r = Daa(acc, cc)
    BY <2>1, <1>5, EffectIs
  <2>4. DecimalResult(p, l, r.value, r.cc)
    BY <1>1, <2>2, <2>3, HighSum
  <2>5. out' = <<l>> /\ next' = 8 /\ DecimalResult(p, l, acc', cc')
    BY <1>1, <1>12, <2>1, <2>2, <2>4
  <2> HIDE DEF i, r
  <2> QED BY <1>1, <2>5, DecimalStates
<1> QED BY <1>2, <1>6, <1>7, <1>8, <1>9, <1>10, <1>11, <1>12

(***************************************************************************)
(* ADD8, DAA, ADC8, DAA add all numbers of four packed decimal digits, and *)
(* C is the decimal carry.                                                 *)
(***************************************************************************)
THEOREM DecimalsAdd == Spec => []DecimalAddition
<1>1. Init => DecimalInv
  BY DecimalStates DEF Init, DecimalInv
<1>2. DecimalInv /\ [Next]_vars => DecimalInv'
  <2> SUFFICES ASSUME DecimalInv, [Next]_vars PROVE DecimalInv'
    OBVIOUS
  <2>1. CASE Execute
    <3>1. CASE program.kind # "bcd"
      <4>1. program' = program /\ next' = next + 1
        BY <2>1 DEF Execute
      <4> QED BY <3>1, <4>1 DEF DecimalInv
    <3> QED BY <2>1, <3>1, DecimalStep
  <2>2. CASE UNCHANGED vars
    <3>1. program' = program /\ next' = next /\ acc' = acc /\ cc' = cc /\ out' = out
      BY <2>2 DEF vars
    <3> QED BY <3>1 DEF DecimalInv
  <2> QED BY <2>1, <2>2 DEF Next
<1>3. DecimalInv => DecimalAddition
  <2> SUFFICES ASSUME DecimalInv, Is("bcd") PROVE DecimalResult(program, out[1], acc, cc)
    BY DEF DecimalAddition, DecimalResult, Upward
  <2>1. Len(Code(program)) = 7
    BY DecimalCode DEF DecimalInv, DecimalState, Is
  <2>2. next = 8
    BY <2>1 DEF Is, Done, DecimalInv, DecimalState
  <2>3. PICK l \in Byte : out = <<l>> /\ DecimalResult(program, l, acc, cc)
    BY <2>2 DEF DecimalInv, DecimalState, Is
  <2> QED BY <2>3
<1> QED BY <1>1, <1>2, <1>3, PTL DEF Spec
=============================================================================
