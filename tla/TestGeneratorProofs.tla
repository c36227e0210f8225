------------------------ MODULE TestGeneratorProofs ------------------------
(***************************************************************************)
(* Theorems of the vector generator, for every memory and every set of     *)
(* tests.  The inductive invariant is the core's, with what bounds the     *)
(* number of calls: the label that the second call starts with leaves the  *)
(* state stack empty, and so does every label that it can jump to.         *)
(* What a finished test says needs more: where the test is in its          *)
(* instruction, with the cycles that are behind it and ahead of it         *)
(* (TestInv), and what the log says of the memory (Replay).  Both rest on  *)
(* the dispatch tables and labels of the core against the opcode table of  *)
(* the generator: for every instruction of the table, the cycles the core  *)
(* takes are those that expected_cycles() counts, and the bytes it steps   *)
(* over are those of the addressing mode.  The two are written down        *)
(* separately in the code, one as a state machine, one as a table.         *)
(***************************************************************************)
EXTENDS TestGenerator, M6809CoreProofs, SequenceTheorems, FiniteSetTheorems,
        WellFoundedInduction

-----------------------------------------------------------------------------
(***************************************************************************)
(* What an instruction takes, from the dispatch tables and the cycles of   *)
(* the labels alone: operand is the byte behind the opcode, taken the      *)
(* branch condition, stacked the byte at the stack pointer.                *)
(***************************************************************************)
EntryOf(prefix, opcode) ==
  CASE prefix = \h00 -> Page1(opcode)
    [] prefix = \h10 -> Page10(opcode)
    [] prefix = \h11 -> Page11(opcode)

Addressed(e) == e.addr \in Calls

\* The addressing mode that the label e.body finds.
ModeOf(e) == IF Addressed(e) THEN "ea" ELSE e.addr

Opening(prefix) == IF prefix = \h00 THEN 1 ELSE 2

CoreCycles(prefix, opcode, operand, taken, stacked) ==
  LET e == EntryOf(prefix, opcode)
  IN  Opening(prefix) + (IF Addressed(e) THEN AddressCycles(e.addr, operand) ELSE 0)
        + BodyCycles(e.body, ModeOf(e), operand, taken, stacked)

CoreBytes(prefix, opcode, operand) ==
  LET e == EntryOf(prefix, opcode)
  IN  Opening(prefix) + (IF Addressed(e) THEN AddressBytes(e.addr, operand) ELSE 0)
        + BodyBytes(e.body, ModeOf(e))

\* The datasheet count, from the branch condition and the stacked byte.
DatasheetCycles(prefix, opcode, operand, taken, stacked) ==
  LET base == DocumentedCycles(prefix, opcode)
      extra == IF Mode(prefix, opcode) = "INDEXED" THEN IndexedExtraCycles(operand) ELSE 0
      special == Special(prefix, opcode)
  IN  IF base = -1 \/ extra = -1 THEN -1
      ELSE CASE special = "NONE" -> base + extra
             [] special = "LONG_BRANCH" -> base + extra + (IF taken THEN 1 ELSE 0)
             [] special = "PUSH_PULL" -> base + extra + Offset(operand, 256)
             [] special = "RTI" -> IF Has(stacked, \h80) THEN 15 ELSE 6

\* The dispatch tables and the opcode table agree on an instruction.
Agrees(prefix, opcode, p, t, s) ==
  LET n == CoreCycles(prefix, opcode, p, t, s)
      d == DatasheetCycles(prefix, opcode, p, t, s)
  IN  n \in 2..21 /\ (d = -1 \/ n = d)

Timed(prefix, opcode) ==
  \A p \in Byte, t \in BOOLEAN, s \in Byte :
    (opcode \in {\h16, \h20} => t) => Agrees(prefix, opcode, p, t, s)

Sized(prefix, opcode) ==
  \A p \in Byte :
    CoreBytes(prefix, opcode, p) = Opening(prefix) + OperandLength(Mode(prefix, opcode), p)

-----------------------------------------------------------------------------
LEMMA IndexedTiming ==
  ASSUME NEW p \in Byte
  PROVE  /\ AddressCycles("INDEXED", p) \in 1..10
         /\ IndexedExtraCycles(p) = -1 \/ AddressCycles("INDEXED", p) = IndexedExtraCycles(p) + 2
         /\ AddressBytes("INDEXED", p) = 1 + IndexedOperandBytes(p)
         /\ IndexedExtraCycles(p) \in Int
<1>1. Col(p) \in 0..15
  BY DigitsTyped
<1>2. AddressBytes("INDEXED", p) = 1 + IndexedOperandBytes(p)
  <2>1. \A c \in 0..15 : IndexedArgs(c) =
          IF c \in {8, 12} THEN 1 ELSE IF c \in {9, 13, 15} THEN 2 ELSE 0
    BY DEF IndexedArgs
  <2>2. CASE Has(p, 128)
    <3>1. IndexedOperandBytes(p) =
            IF Col(p) \in {8, 12} THEN 1 ELSE IF Col(p) \in {9, 13, 15} THEN 2 ELSE 0
      BY <1>1, <2>2 DEF IndexedOperandBytes
    <3>2. AddressBytes("INDEXED", p) = 1 + IndexedArgs(Col(p))
      BY <2>2 DEF AddressBytes
    <3> QED BY <1>1, <2>1, <3>1, <3>2
  <2>3. CASE ~Has(p, 128)
    BY <2>3 DEF AddressBytes, IndexedOperandBytes
  <2> QED BY <2>2, <2>3
<1>3. CASE ~Has(p, 128)
  BY <1>2, <1>3 DEF AddressCycles, IndexedExtraCycles
<1>4. CASE Has(p, 128)
  <2> DEFINE sum(c) == 1 + IndexedArgs(c) + IndexedDeads(c) + IndexedVmas(c)
             times == <<4, 5, 4, 5, 2, 3, 3, 1, 3, 6, 1, 6, 3, 7, 1, 4>>
             direct   == <<2, 3, 2, 3, 0, 1, 1, -1, 1, 4, -1, 4, 1, 5, -1, -1>>
             indirect == <<-1, 6, -1, 6, 3, 4, 4, -1, 4, 7, -1, 7, 4, 8, -1, 5>>
  <2>1. \A c \in 0..15 : sum(c) = times[c + 1]
    BY DEF IndexedArgs, IndexedDeads, IndexedVmas
  <2>2. \A c \in 0..15 : /\ direct[c + 1] = -1 \/ times[c + 1] = direct[c + 1] + 2
                         /\ times[c + 1] \in 1..7 /\ direct[c + 1] \in Int
    OBVIOUS
  <2>3. \A c \in 0..15 : /\ indirect[c + 1] = -1 \/ times[c + 1] + 3 = indirect[c + 1] + 2
                         /\ times[c + 1] \in 1..7 /\ indirect[c + 1] \in Int
    OBVIOUS
  <2>4. AddressCycles("INDEXED", p) = sum(Col(p)) + (IF Has(p, 16) THEN 3 ELSE 0)
    BY <1>4 DEF AddressCycles
  <2>5. IndexedExtraCycles(p) = IF Has(p, 16) THEN indirect[Col(p) + 1] ELSE direct[Col(p) + 1]
    BY <1>4 DEF IndexedExtraCycles
  <2> HIDE DEF sum, times, direct, indirect
  <2>6. CASE Has(p, 16)
    BY <1>1, <1>2, <2>1, <2>3, <2>4, <2>5, <2>6
  <2>7. CASE ~Has(p, 16)
    BY <1>1, <1>2, <2>1, <2>2, <2>4, <2>5, <2>7
  <2> QED BY <2>6, <2>7
<1> QED BY <1>3, <1>4

\* The four columns of addressing, for a body of b cycles.
LEMMA UnaddressedAgrees ==
  ASSUME NEW prefix, NEW opcode, NEW p \in Byte, NEW t, NEW s, NEW b \in Int,
         LET e == EntryOf(prefix, opcode)
         IN  ~Addressed(e) /\ BodyCycles(e.body, ModeOf(e), p, t, s) = b,
         Mode(prefix, opcode) # "INDEXED", Special(prefix, opcode) = "NONE",
         Opening(prefix) + b \in 2..21,
         DocumentedCycles(prefix, opcode) \in {-1, Opening(prefix) + b}
  PROVE  Agrees(prefix, opcode, p, t, s)
<1>1. Opening(prefix) \in Int
  BY DEF Opening
<1>2. CoreCycles(prefix, opcode, p, t, s) = Opening(prefix) + b
  BY <1>1 DEF CoreCycles
<1>3. DatasheetCycles(prefix, opcode, p, t, s) = DocumentedCycles(prefix, opcode)
  BY <1>1 DEF DatasheetCycles
<1> QED BY <1>2, <1>3 DEF Agrees

LEMMA AddressedAgrees ==
  ASSUME NEW prefix, NEW opcode, NEW p \in Byte, NEW t, NEW s, NEW b \in 0..4,
         LET e == EntryOf(prefix, opcode)
         IN  /\ e.addr \in Calls /\ Mode(prefix, opcode) = e.addr
             /\ BodyCycles(e.body, "ea", p, t, s) = b
             /\ DocumentedCycles(prefix, opcode)
                  \in {-1, Opening(prefix) + b + (IF e.addr = "EXTENDED" THEN 3 ELSE 2)},
         Special(prefix, opcode) = "NONE"
  PROVE  Agrees(prefix, opcode, p, t, s)
<1> DEFINE e == EntryOf(prefix, opcode)
           o == Opening(prefix)
           z == DocumentedCycles(prefix, opcode)
           a == AddressCycles(e.addr, p)
           n == CoreCycles(prefix, opcode, p, t, s)
           d == DatasheetCycles(prefix, opcode, p, t, s)
           i == IndexedExtraCycles(p)
<1>1. o \in {1, 2}
  BY DEF Opening
<1>2. n = o + a + b
  BY DEF CoreCycles, Addressed, ModeOf
<1>3. d = IF z = -1 \/ (e.addr = "INDEXED" /\ i = -1) THEN -1
          ELSE z + (IF e.addr = "INDEXED" THEN i ELSE 0)
  BY DEF DatasheetCycles
<1>4. e.addr = "DIRECT" => a = 2
  BY DEF AddressCycles
<1>5. e.addr = "EXTENDED" => a = 3
  BY DEF AddressCycles
<1>6. e.addr = "INDEXED" => a \in 1..10 /\ (i = -1 \/ a = i + 2)
  BY IndexedTiming
<1>7. i \in Int
  BY IndexedTiming
<1>8. e.addr \in {"DIRECT", "EXTENDED", "INDEXED"}
  BY DEF Calls
<1>9. z \in {-1, o + b + (IF e.addr = "EXTENDED" THEN 3 ELSE 2)}
  OBVIOUS
<1> HIDE DEF n, d, a, i, z, e, o
<1>10. o + b + a \in 2..21
  BY <1>1, <1>4, <1>5, <1>6, <1>8
<1>11. d = -1 \/ n = d
  <2>1. CASE e.addr = "DIRECT"
    BY <1>1, <1>2, <1>3, <1>4, <1>9, <2>1
  <2>2. CASE e.addr = "EXTENDED"
    BY <1>1, <1>2, <1>3, <1>5, <1>9, <2>2
  <2>3. CASE e.addr = "INDEXED"
    BY <1>1, <1>2, <1>3, <1>6, <1>7, <1>9, <2>3
  <2> QED BY <1>8, <2>1, <2>2, <2>3
<1>12. n \in 2..21
  BY <1>1, <1>2, <1>4, <1>5, <1>6, <1>8
<1> QED BY <1>11, <1>12 DEF Agrees, n, d

\* The bytes of the four columns, for a body without operand bytes.
LEMMA AddressedSized ==
  ASSUME NEW prefix, NEW opcode,
         LET e == EntryOf(prefix, opcode)
         IN  /\ e.addr \in Calls /\ Mode(prefix, opcode) = e.addr
             /\ BodyBytes(e.body, "ea") = 0
  PROVE  Sized(prefix, opcode)
<1> DEFINE e == EntryOf(prefix, opcode)
           o == Opening(prefix)
<1> SUFFICES ASSUME NEW p \in Byte
             PROVE  CoreBytes(prefix, opcode, p) = o + OperandLength(Mode(prefix, opcode), p)
  BY DEF Sized
<1>1. o \in {1, 2}
  BY DEF Opening
<1>2. CoreBytes(prefix, opcode, p) = o + AddressBytes(e.addr, p) + 0
  BY DEF CoreBytes, Addressed, ModeOf
<1>3. e.addr \in {"DIRECT", "EXTENDED", "INDEXED"}
  BY DEF Calls
<1>4. AddressBytes(e.addr, p) = OperandLength(e.addr, p) /\ OperandLength(e.addr, p) \in Int
  <2>1. CASE e.addr = "DIRECT"
    BY <2>1 DEF AddressBytes, OperandLength
  <2>2. CASE e.addr = "EXTENDED"
    BY <2>2 DEF AddressBytes, OperandLength
  <2>3. CASE e.addr = "INDEXED"
    <3>1. OperandLength(e.addr, p) = 1 + IndexedOperandBytes(p)
      BY <2>3 DEF OperandLength
    <3>2. IndexedOperandBytes(p) \in Int
      BY DEF IndexedOperandBytes
    <3> QED BY <2>3, <3>1, <3>2, IndexedTiming
  <2> QED BY <1>3, <2>1, <2>2, <2>3
<1> QED BY <1>1, <1>2, <1>4

LEMMA UnaddressedSized ==
  ASSUME NEW prefix, NEW opcode,
         LET e == EntryOf(prefix, opcode)
         IN  /\ ~Addressed(e) /\ Mode(prefix, opcode) # "INDEXED"
             /\ \A p : BodyBytes(e.body, ModeOf(e)) = OperandLength(Mode(prefix, opcode), p)
  PROVE  Sized(prefix, opcode)
<1> DEFINE e == EntryOf(prefix, opcode)
           o == Opening(prefix)
<1> SUFFICES ASSUME NEW p \in Byte
             PROVE  CoreBytes(prefix, opcode, p) = o + OperandLength(Mode(prefix, opcode), p)
  BY DEF Sized
<1>1. o \in {1, 2} /\ o + 0 = o
  BY DEF Opening
<1>2. CoreBytes(prefix, opcode, p) = o + 0 + BodyBytes(e.body, ModeOf(e))
  BY DEF CoreBytes
<1> QED BY <1>1, <1>2

LEMMA RmwCycles ==
  \A l \in RmwOps \cup {"XNC8", "TST8"} : \A m, k, t, s :
    BodyCycles(l, m, k, t, s) = IF m = "ea" THEN 3 ELSE 1
  BY DEF BodyCycles, RmwOps, Alu8Ops, SoftwareLabels

LEMMA JmpCycles == \A m, k, t, s : BodyCycles("JMP", m, k, t, s) = 0
  BY CyclesOf

LEMMA RmwFits ==
  ASSUME NEW opcode \in Byte, Row(opcode) \in {0, 4, 5, 6, 7}
  PROVE  Timed(0, opcode) /\ Sized(0, opcode)
<1> DEFINE r == Row(opcode)  c == Col(opcode)  e == EntryOf(0, opcode)
<1>1. c \in 0..15 /\ e = RmwEntry(opcode)
  BY DigitsTyped DEF EntryOf, Page1
<1>2. /\ e.addr = CASE r = 0 -> "DIRECT" [] r = 4 -> "a" [] r = 5 -> "b"
                    [] r = 6 -> "INDEXED" [] r = 7 -> "EXTENDED"
      /\ e.body \in IF c = 14 /\ r \notin {4, 5} THEN {"JMP"} ELSE RmwOps \cup {"XNC8", "TST8"}
  BY <1>1 DEF RmwEntry, Entry, RmwOps
<1>3. Mode(0, opcode) = IF r \in {4, 5} THEN "INHERENT" ELSE e.addr
  BY <1>2 DEF Mode
<1>4. DocumentedCycles(0, opcode) \in
        {-1, IF r \in {4, 5} THEN 2 ELSE (IF r = 7 THEN 4 ELSE 3) + (IF c = 14 THEN 0 ELSE 3)}
  BY DEF DocumentedCycles, LowCycles
<1>5. Special(0, opcode) = "NONE"
  BY ByteIs DEF Special, Row
<1>6. BodyBytes(e.body, ModeOf(e)) = 0
  BY <1>2, BytesOf
<1>7. CASE r \in {4, 5}
  <2>1. ~Addressed(e) /\ ModeOf(e) # "ea" /\ e.body \in RmwOps \cup {"XNC8", "TST8"}
    BY <1>2, <1>7 DEF Addressed, ModeOf, Calls
  <2>2. \A p, t, s : BodyCycles(e.body, ModeOf(e), p, t, s) = 1
    BY <2>1, RmwCycles
  <2>3. \A p \in Byte : \A t, s : Agrees(0, opcode, p, t, s)
    BY <1>3, <1>4, <1>5, <1>7, <2>1, <2>2, UnaddressedAgrees DEF Opening
  <2>4. Sized(0, opcode)
    BY <1>3, <1>6, <1>7, <2>1, UnaddressedSized DEF OperandLength
  <2> QED BY <2>3, <2>4 DEF Timed
<1>8. CASE r \notin {4, 5}
  <2>1. e.addr \in Calls /\ ModeOf(e) = "ea" /\ (e.addr = "EXTENDED" <=> r = 7)
    BY <1>2, <1>8 DEF Addressed, ModeOf, Calls
  <2>2. \A p, t, s : BodyCycles(e.body, "ea", p, t, s) = IF c = 14 THEN 0 ELSE 3
    BY <1>2, <1>8, RmwCycles, JmpCycles
  <2>3. \A p \in Byte : \A t, s : Agrees(0, opcode, p, t, s)
    BY <1>3, <1>4, <1>5, <1>8, <2>1, <2>2, AddressedAgrees DEF Opening
  <2>4. Sized(0, opcode)
    BY <1>3, <1>6, <1>8, <2>1, AddressedSized
  <2> QED BY <2>3, <2>4 DEF Timed
<1> QED BY <1>7, <1>8

LEMMA Row1Fits ==
  ASSUME NEW opcode \in Byte, Row(opcode) = 1, Col(opcode) \notin {0, 1, 3, 4, 5}
  PROVE  Timed(0, opcode) /\ Sized(0, opcode)
<1> DEFINE c == Col(opcode)  e == EntryOf(0, opcode)
<1>1. c \in {2, 6, 7, 8, 9, 10, 11, 12, 13, 14, 15} /\ opcode = 16 + c /\ e = Row1Entry(opcode)
  BY DigitsTyped, ByteIs DEF EntryOf, Page1, Row, Col
<1>2. e.body = CASE c \in {2, 11} -> "NOP" [] c = 6 -> "LBRANCH" [] c = 7 -> "LBSR"
                 [] c = 8 -> "X18" [] c = 9 -> "DAA" [] c = 10 -> "ORCC" [] c = 12 -> "ANDCC"
                 [] c = 13 -> "SEX" [] c = 14 -> "EXG" [] c = 15 -> "TFR"
  BY <1>1 DEF Row1Entry, Entry
<1>3. e.addr \in {"imm", "-"}
  BY DEF EntryOf, Row1Entry, Entry, Page1
<1>4. ~Addressed(e)
  BY <1>3 DEF Addressed, Calls
<1> DEFINE cost(t) == CASE c \in {2, 8, 9, 11, 13} -> 1 [] c \in {10, 12} -> 2
                        [] c = 6 -> IF t THEN 4 ELSE 3 [] c = 7 -> 8 [] c = 14 -> 7 [] c = 15 -> 5
           bytes == CASE c \in {2, 8, 9, 11, 13} -> 0 [] c \in {10, 12, 14, 15} -> 1
                      [] c \in {6, 7} -> 2
<1>5. \A p, t, s : BodyCycles(e.body, ModeOf(e), p, t, s) = cost(t)
  <2>1. c \in {2, 8, 9, 11, 13} => e.body \in {"NOP", "X18", "DAA", "SEX"}
    BY <1>2
  <2>2. c \in {10, 12} => e.body \in {"ORCC", "ANDCC"}
    BY <1>2
  <2>3. /\ c = 6 => e.body = "LBRANCH"
        /\ c = 7 => e.body = "LBSR"
        /\ c = 14 => e.body = "EXG"
        /\ c = 15 => e.body = "TFR"
    BY <1>2
  <2>4. \A m, p, t, s :
          /\ \A l \in {"NOP", "X18", "DAA", "SEX"} : BodyCycles(l, m, p, t, s) = 1
          /\ \A l \in {"ORCC", "ANDCC"} : BodyCycles(l, m, p, t, s) = 2
          /\ BodyCycles("LBRANCH", m, p, t, s) = IF t THEN 4 ELSE 3
          /\ BodyCycles("LBSR", m, p, t, s) = 8
          /\ BodyCycles("EXG", m, p, t, s) = 7
          /\ BodyCycles("TFR", m, p, t, s) = 5
    BY CyclesOf
  <2> HIDE DEF e
  <2> QED BY <1>1, <2>1, <2>2, <2>3, <2>4
<1>6. BodyBytes(e.body, ModeOf(e)) = bytes
  BY <1>1, <1>2, BytesOf
<1>7. \A p : OperandLength(Mode(0, opcode), p) = bytes /\ Mode(0, opcode) # "INDEXED"
  BY <1>1 DEF Mode, OperandLength
<1>8. Special(0, opcode) = "NONE"
  BY <1>1 DEF Special
<1>9. DocumentedCycles(0, opcode) \in {-1, 1 + cost(TRUE)}
  <2>1. CASE c = 8
    <3>1. <<0, opcode>> \in NoTiming
      BY <1>1, <2>1 DEF NoTiming
    <3> QED BY <3>1 DEF DocumentedCycles
  <2>2. CASE c # 8
    <3>1. LowCycles(0, opcode) = 1 + cost(TRUE)
      BY <1>1, <2>2 DEF LowCycles
    <3>2. Row(opcode) < 8
      OBVIOUS
    <3> HIDE DEF cost
    <3> QED BY <3>1, <3>2 DEF DocumentedCycles
  <2> QED BY <2>1, <2>2
<1>10. opcode \in {22, 32} <=> c = 6
  BY <1>1
<1>11. \A t \in BOOLEAN : cost(t) \in 1..8 /\ ((c = 6 => t) => cost(t) = cost(TRUE))
  BY <1>1
<1> HIDE DEF cost, e, c
<1>12. ASSUME NEW p \in Byte, NEW t \in BOOLEAN, NEW s \in Byte, opcode \in {22, 32} => t
       PROVE  Agrees(0, opcode, p, t, s)
  <2>1. cost(t) \in 1..8 /\ cost(t) = cost(TRUE)
    BY <1>10, <1>11, <1>12
  <2>2. 1 + cost(t) \in 2..21 /\ cost(t) \in Int
    <3>1. \A k \in 1..8 : 1 + k \in 2..21 /\ k \in Int
      OBVIOUS
    <3> QED BY <2>1, <3>1, Zenon
  <2>3. Opening(0) = 1
    BY DEF Opening
  <2> QED BY <1>4, <1>5, <1>7, <1>8, <1>9, <2>1, <2>2, <2>3, UnaddressedAgrees DEF e
<1>13. Sized(0, opcode)
  BY <1>4, <1>6, <1>7, UnaddressedSized DEF e
<1> QED BY <1>12, <1>13 DEF Timed

LEMMA Row2Fits ==
  ASSUME NEW opcode \in Byte, Row(opcode) = 2
  PROVE  Timed(0, opcode) /\ Sized(0, opcode)
<1> DEFINE e == EntryOf(0, opcode)
<1>1. e = Entry("-", "-", "BRANCH")
  BY DEF EntryOf, Page1
<1>2. ~Addressed(e) /\ e.body = "BRANCH"
  BY <1>1 DEF Addressed, Calls, Entry
<1>3. \A m, p, t, s : BodyCycles("BRANCH", m, p, t, s) = 2
  BY CyclesOf
<1>4. Mode(0, opcode) = "RELATIVE8"
  BY DEF Mode
<1>5. Special(0, opcode) = "NONE"
  BY ByteIs DEF Special, Row
<1>6. DocumentedCycles(0, opcode) \in {-1, 3}
  BY DEF DocumentedCycles, LowCycles
<1>7. \A p \in Byte : \A t, s : Agrees(0, opcode, p, t, s)
  BY <1>2, <1>3, <1>4, <1>5, <1>6, UnaddressedAgrees DEF Opening
<1>8. BodyBytes("BRANCH", ModeOf(e)) = 1
  BY BytesOf
<1>9. Sized(0, opcode)
  BY <1>2, <1>4, <1>8, UnaddressedSized DEF OperandLength
<1> QED BY <1>7, <1>9 DEF Timed

LEMMA LeaFits ==
  ASSUME NEW opcode \in Byte, Row(opcode) = 3, Col(opcode) \in 0..3
  PROVE  Timed(0, opcode) /\ Sized(0, opcode)
<1> DEFINE c == Col(opcode)  e == EntryOf(0, opcode)
<1>1. c \in {0, 1, 2, 3} /\ opcode = 48 + c /\ e = Row3Entry(opcode)
  BY DigitsTyped, ByteIs DEF EntryOf, Page1, Row, Col
<1>2. e.addr = "INDEXED" /\ e.body \in {"LEA_xy", "LEA_us"}
  BY <1>1 DEF Row3Entry, Entry
<1>3. e.addr \in Calls /\ Mode(0, opcode) = e.addr
  BY <1>1, <1>2 DEF Calls, Mode
<1>4. \A m, p, t, s : \A l \in {"LEA_xy", "LEA_us"} : BodyCycles(l, m, p, t, s) = 1
  BY CyclesOf
<1>5. BodyBytes(e.body, "ea") = 0
  BY <1>2, BytesOf
<1>6. Special(0, opcode) = "NONE"
  BY <1>1 DEF Special
<1>7. DocumentedCycles(0, opcode) \in {-1, 4}
  BY <1>1 DEF DocumentedCycles, LowCycles
<1>8. Opening(0) = 1
  BY DEF Opening
<1> HIDE DEF e, c
<1>9. \A p \in Byte : \A t, s : Agrees(0, opcode, p, t, s)
  BY <1>2, <1>3, <1>4, <1>6, <1>7, <1>8, AddressedAgrees DEF e
<1>10. Sized(0, opcode)
  BY <1>3, <1>5, AddressedSized DEF e
<1> QED BY <1>9, <1>10 DEF Timed

LEMMA PushPullFits ==
  ASSUME NEW opcode \in Byte, Row(opcode) = 3, Col(opcode) \in {4, 5, 6, 7}
  PROVE  Timed(0, opcode) /\ Sized(0, opcode)
<1> DEFINE c == Col(opcode)  e == EntryOf(0, opcode)
<1>1. c \in {4, 5, 6, 7} /\ opcode = 48 + c /\ e = Row3Entry(opcode)
  BY DigitsTyped, ByteIs DEF EntryOf, Page1, Row, Col
<1>2. e.addr = "-" /\ e.body \in {"PSHS", "PULS", "PSHU", "PULU"}
  BY <1>1 DEF Row3Entry, Entry
<1>3. ~Addressed(e) /\ Mode(0, opcode) = "IMMEDIATE8"
  BY <1>1, <1>2 DEF Addressed, Calls, Mode
<1>4. \A m, p, t, s : \A l \in {"PSHS", "PULS", "PSHU", "PULU"} :
        BodyCycles(l, m, p, t, s) = 4 + Offset(p, 256)
  BY CyclesOf
<1>5. BodyBytes(e.body, ModeOf(e)) = 1
  BY <1>2, BytesOf
<1>6. Special(0, opcode) = "PUSH_PULL"
  BY <1>1 DEF Special
<1>7. DocumentedCycles(0, opcode) \in {-1, 5}
  BY <1>1 DEF DocumentedCycles, LowCycles
<1> HIDE DEF e, c
<1>8. ASSUME NEW p \in Byte, NEW t, NEW s PROVE Agrees(0, opcode, p, t, s)
  <2>1. Offset(p, 256) \in 0..12
    BY DEF Offset
  <2>2. CoreCycles(0, opcode, p, t, s) = 1 + 0 + (4 + Offset(p, 256))
    BY <1>2, <1>3, <1>4 DEF CoreCycles, Opening, e
  <2>3. DatasheetCycles(0, opcode, p, t, s) = IF DocumentedCycles(0, opcode) = -1 THEN -1
           ELSE DocumentedCycles(0, opcode) + 0 + Offset(p, 256)
    BY <1>3, <1>6 DEF DatasheetCycles
  <2> QED BY <1>7, <2>1, <2>2, <2>3 DEF Agrees
<1>9. Sized(0, opcode)
  BY <1>3, <1>5, UnaddressedSized DEF OperandLength, e
<1> QED BY <1>8, <1>9 DEF Timed

LEMMA RtiFits == Timed(0, 59) /\ Sized(0, 59)
<1> DEFINE e == EntryOf(0, 59)
<1>1. Row(59) = 3 /\ Col(59) = 11
  BY DEF Row, Col
<1>2. e = Entry("-", "-", "RTI")
  BY <1>1 DEF EntryOf, Page1, Row3Entry
<1>3. e.body = "RTI" /\ ~Addressed(e) /\ Mode(0, 59) = "INHERENT"
  BY <1>1, <1>2 DEF Addressed, Calls, Mode, Entry
<1>4. \A m, p, t, s : BodyCycles("RTI", m, p, t, s) = IF Has(s, 128) THEN 14 ELSE 5
  BY CyclesOf
<1>5. BodyBytes("RTI", ModeOf(e)) = 0
  BY BytesOf
<1>6. Special(0, 59) = "RTI"
  BY DEF Special
<1> HIDE DEF e
<1>7. ASSUME NEW p \in Byte, NEW t, NEW s PROVE Agrees(0, 59, p, t, s)
  <2>1. CoreCycles(0, 59, p, t, s) = 1 + 0 + (IF Has(s, 128) THEN 14 ELSE 5)
    BY <1>3, <1>4 DEF CoreCycles, Opening, e
  <2>2. DatasheetCycles(0, 59, p, t, s) \in {-1, IF Has(s, 128) THEN 15 ELSE 6}
    BY <1>3, <1>6 DEF DatasheetCycles
  <2> QED BY <2>1, <2>2 DEF Agrees
<1>8. Sized(0, 59)
  BY <1>3, <1>5, UnaddressedSized DEF OperandLength, e
<1> QED BY <1>7, <1>8 DEF Timed

LEMMA Row3Fits ==
  ASSUME NEW opcode \in Byte, Row(opcode) = 3, Col(opcode) \in {8, 9, 10, 13, 14, 15}
  PROVE  Timed(0, opcode) /\ Sized(0, opcode)
<1> DEFINE c == Col(opcode)  e == EntryOf(0, opcode)
<1>1. c \in {8, 9, 10, 13, 14, 15} /\ opcode = 48 + c /\ e = Row3Entry(opcode)
  BY DigitsTyped, ByteIs DEF EntryOf, Page1, Row, Col
<1>2. e.body = CASE c = 8 -> "XANDCC" [] c = 9 -> "RTS" [] c = 10 -> "ABX" [] c = 13 -> "MUL"
                 [] c = 14 -> "XRES" [] c = 15 -> "SWI"
  BY <1>1 DEF Row3Entry, Entry
<1>3. e.addr \in {"imm", "-"}
  BY <1>1 DEF Row3Entry, Entry
<1>4. ~Addressed(e)
  BY <1>3 DEF Addressed, Calls
<1> DEFINE cost == CASE c = 8 -> 3 [] c = 9 -> 4 [] c = 10 -> 2 [] c = 13 -> 10
                     [] c \in {14, 15} -> 18
           bytes == IF c = 8 THEN 1 ELSE 0
<1>5. \A p, t, s : BodyCycles(e.body, ModeOf(e), p, t, s) = cost
  <2>1. \A m, p, t, s :
          /\ BodyCycles("XANDCC", m, p, t, s) = 3
          /\ BodyCycles("RTS", m, p, t, s) = 4
          /\ BodyCycles("ABX", m, p, t, s) = 2
          /\ BodyCycles("MUL", m, p, t, s) = 10
    BY CyclesOf
  <2>2. \A m, p, t, s : \A l \in {"XRES", "SWI"} : BodyCycles(l, m, p, t, s) = 18
    BY SoftwareCycles DEF SoftwareLabels
  <2> QED BY <1>1, <1>2, <2>1, <2>2
<1>6. BodyBytes(e.body, ModeOf(e)) = bytes
  <2>1. \A m : BodyBytes("XANDCC", m) = 1
    BY BytesOf
  <2>2. \A m : \A l \in {"RTS", "ABX", "MUL"} : BodyBytes(l, m) = 0
    BY BytesOf
  <2>3. \A m : \A l \in {"XRES", "SWI"} : BodyBytes(l, m) = 0
    BY BytesOf DEF SoftwareLabels
  <2> QED BY <1>1, <1>2, <2>1, <2>2, <2>3
<1>7. \A p : OperandLength(Mode(0, opcode), p) = bytes /\ Mode(0, opcode) # "INDEXED"
  BY <1>1 DEF Mode, OperandLength
<1>8. Special(0, opcode) = "NONE"
  BY <1>1 DEF Special
<1>9. DocumentedCycles(0, opcode) \in {-1, 1 + cost}
  BY <1>1 DEF LowCycles, DocumentedCycles
<1>10. cost \in 2..18 /\ Opening(0) = 1
  BY <1>1 DEF Opening
<1> HIDE DEF cost, e, c
<1>11. 1 + cost \in 2..21 /\ cost \in Int
  BY <1>10
<1>12. ASSUME NEW p \in Byte, NEW t, NEW s PROVE Agrees(0, opcode, p, t, s)
  BY <1>4, <1>5, <1>7, <1>8, <1>9, <1>10, <1>11, UnaddressedAgrees DEF e
<1>13. Sized(0, opcode)
  BY <1>4, <1>6, <1>7, UnaddressedSized DEF e
<1> QED BY <1>12, <1>13 DEF Timed

\* The instructions in the four columns of rows 8 to F.
QuadOffset(opcode) == CASE Row(opcode) % 4 = 0 -> 0
                        [] Row(opcode) % 4 \in {1, 2} -> 2
                        [] Row(opcode) % 4 = 3 -> 3

LEMMA HighRows ==
  ASSUME NEW opcode \in Byte, Row(opcode) >= 8
  PROVE  /\ Row(opcode) % 4 = 0 => Row(opcode) \in {8, 12} /\ QuadAddr(opcode) = "imm"
         /\ Row(opcode) % 4 = 1 => Row(opcode) \in {9, 13} /\ QuadAddr(opcode) = "DIRECT"
         /\ Row(opcode) % 4 = 2 => Row(opcode) \in {10, 14} /\ QuadAddr(opcode) = "INDEXED"
         /\ Row(opcode) % 4 = 3 => Row(opcode) \in {11, 15} /\ QuadAddr(opcode) = "EXTENDED"
         /\ Row(opcode) % 4 \in {0, 1, 2, 3}
<1>1. Row(opcode) \in 0..15
  BY DigitsTyped
<1> QED BY <1>1, QuadAddrTyped

LEMMA HighModes ==
  ASSUME NEW opcode \in Byte, Row(opcode) >= 8, NEW prefix
  PROVE  /\ Row(opcode) % 4 = 0 =>
              Mode(prefix, opcode) = IF opcode = \h8D THEN "RELATIVE8"
                                     ELSE IF Col(opcode) = 15 THEN "XST16_IMMEDIATE"
                                     ELSE IF Col(opcode) \in {3, 12, 14} THEN "IMMEDIATE16"
                                     ELSE "IMMEDIATE8"
         /\ Row(opcode) % 4 # 0 => Mode(prefix, opcode) = QuadAddr(opcode)
<1>1. CASE Row(opcode) % 4 = 0
  BY <1>1, HighRows DEF Mode
<1>2. CASE Row(opcode) % 4 = 1
  BY <1>2, HighRows DEF Mode
<1>3. CASE Row(opcode) % 4 = 2
  BY <1>3, HighRows DEF Mode
<1>4. CASE Row(opcode) % 4 = 3
  BY <1>4, HighRows DEF Mode
<1> QED BY <1>1, <1>2, <1>3, <1>4, HighRows

LEMMA QuadTimed ==
  ASSUME NEW prefix, NEW opcode \in Byte, Row(opcode) >= 8, NEW b \in 1..4,
         LET e == EntryOf(prefix, opcode)
         IN  /\ e.addr = QuadAddr(opcode)
             /\ \A m, p, t, s : BodyCycles(e.body, m, p, t, s) = b,
         Special(prefix, opcode) = "NONE",
         DocumentedCycles(prefix, opcode) \in {-1, Opening(prefix) + b + QuadOffset(opcode)}
  PROVE  Timed(prefix, opcode)
<1> DEFINE e == EntryOf(prefix, opcode)
           o == Opening(prefix)
<1>1. /\ e.addr = QuadAddr(opcode)
      /\ \A m, p, t, s : BodyCycles(e.body, m, p, t, s) = b
      /\ DocumentedCycles(prefix, opcode) \in {-1, o + b + QuadOffset(opcode)}
  OBVIOUS
<1>2. o \in {1, 2}
  BY DEF Opening
<1> HIDE DEF e, o
<1> SUFFICES ASSUME NEW p \in Byte, NEW t, NEW s PROVE Agrees(prefix, opcode, p, t, s)
  BY DEF Timed
<1>3. CASE Row(opcode) % 4 = 0
  <2>1. ~Addressed(e) /\ Mode(prefix, opcode) # "INDEXED" /\ QuadOffset(opcode) = 0
    BY <1>1, <1>3, HighRows, HighModes DEF Addressed, Calls, QuadOffset
  <2>2. o + b \in 2..21 /\ b \in Int /\ o + b + 0 = o + b
    BY <1>2
  <2> QED BY <1>1, <2>1, <2>2, UnaddressedAgrees DEF e, o
<1>4. CASE Row(opcode) % 4 # 0
  <2>1. e.addr \in {"DIRECT", "INDEXED", "EXTENDED"} /\ Mode(prefix, opcode) = e.addr
    BY <1>1, <1>4, HighRows, HighModes
  <2>2. QuadOffset(opcode) = IF e.addr = "EXTENDED" THEN 3 ELSE 2
    BY <1>1, <1>4, HighRows DEF QuadOffset
  <2>3. e.addr \in Calls /\ b \in 0..4
    BY <2>1 DEF Calls
  <2> QED BY <1>1, <2>1, <2>2, <2>3, AddressedAgrees DEF e, o
<1> QED BY <1>3, <1>4

LEMMA QuadSized ==
  ASSUME NEW prefix, NEW opcode \in Byte, Row(opcode) >= 8,
         LET e == EntryOf(prefix, opcode)
         IN  /\ e.addr = QuadAddr(opcode)
             /\ Row(opcode) % 4 # 0 => BodyBytes(e.body, "ea") = 0
             /\ Row(opcode) % 4 = 0 =>
                  /\ opcode # \h8D
                  /\ BodyBytes(e.body, "imm") = IF Col(opcode) \in {3, 12, 14, 15} THEN 2 ELSE 1
  PROVE  Sized(prefix, opcode)
<1> DEFINE e == EntryOf(prefix, opcode)
<1>1. /\ e.addr = QuadAddr(opcode)
      /\ Row(opcode) % 4 # 0 => BodyBytes(e.body, "ea") = 0
      /\ Row(opcode) % 4 = 0 =>
           /\ opcode # \h8D
           /\ BodyBytes(e.body, "imm") = IF Col(opcode) \in {3, 12, 14, 15} THEN 2 ELSE 1
  OBVIOUS
<1> HIDE DEF e
<1>2. CASE Row(opcode) % 4 = 0
  <2>1. ~Addressed(e) /\ ModeOf(e) = "imm"
    BY <1>1, <1>2, HighRows DEF Addressed, Calls, ModeOf
  <2>2. Mode(prefix, opcode) = IF Col(opcode) = 15 THEN "XST16_IMMEDIATE"
                               ELSE IF Col(opcode) \in {3, 12, 14} THEN "IMMEDIATE16"
                               ELSE "IMMEDIATE8"
    BY <1>1, <1>2, HighModes
  <2>3. \A p : OperandLength(Mode(prefix, opcode), p) =
          IF Col(opcode) \in {3, 12, 14, 15} THEN 2 ELSE 1
    BY <2>2 DEF OperandLength
  <2> QED BY <1>1, <1>2, <2>1, <2>2, <2>3, UnaddressedSized DEF e
<1>3. CASE Row(opcode) % 4 # 0
  <2>1. e.addr \in Calls /\ Mode(prefix, opcode) = e.addr
    BY <1>1, <1>3, HighRows, HighModes DEF Calls
  <2> QED BY <1>1, <1>3, <2>1, AddressedSized DEF e
<1> QED BY <1>2, <1>3

LEMMA AccumulatorCycles ==
  \A m, p, t, s :
    /\ \A l \in {"LD16", "ST16", "XST16"} : BodyCycles(l, m, p, t, s) = 2
    /\ \A l \in {"SUB16", "CMP16", "ADD16", "XADD16"} : BodyCycles(l, m, p, t, s) = 3
    /\ BodyCycles("JSR", m, p, t, s) = 4
    /\ BodyCycles("BSR", m, p, t, s) = 6
  BY DEF BodyCycles, RmwOps, Alu8Ops, SoftwareLabels

LEMMA Alu8Cycles ==
  \A l \in Alu8Ops \cup {"ST8", "XST8"} : \A m, p, t, s : BodyCycles(l, m, p, t, s) = 1
  BY DEF BodyCycles, RmwOps, Alu8Ops, SoftwareLabels

LEMMA AccumulatorBytes ==
  /\ \A l \in Alu8Ops \cup {"XST8"} : BodyBytes(l, "imm") = 1
  /\ \A l \in Alu8Ops \cup Alu16Ops \cup {"ST8", "ST16", "JSR"} : BodyBytes(l, "ea") = 0
  /\ \A l \in Alu16Ops \cup {"XST16"} : BodyBytes(l, "imm") = 2
  BY DEF BodyBytes, RmwOps, Alu8Ops, Alu16Ops, SoftwareLabels

LEMMA HighSpecial ==
  \A opcode \in Byte : Row(opcode) >= 8 => \A prefix : Special(prefix, opcode) = "NONE"
  BY ByteIs DEF Special, Row

LEMMA HighDocumented ==
  ASSUME NEW opcode \in Byte, Row(opcode) >= 8, NEW prefix
  PROVE  DocumentedCycles(prefix, opcode) \in {-1, HighCycles(prefix, opcode)}
<1>1. ~(Row(opcode) < 8)
  BY DigitsTyped
<1> QED BY <1>1, Zenon DEF DocumentedCycles

LEMMA Column8Fits ==
  ASSUME NEW opcode \in Byte, Row(opcode) >= 8, Col(opcode) \notin {3, 12, 13, 14, 15}
  PROVE  Timed(0, opcode) /\ Sized(0, opcode)
<1> DEFINE c == Col(opcode)  e == EntryOf(0, opcode)
<1>1. c \in {0, 1, 2, 4, 5, 6, 7, 8, 9, 10, 11} /\ opcode # 141
  BY DigitsTyped DEF Col
<1>2. e = AccumulatorEntry(opcode)
  BY DigitsTyped DEF EntryOf, Page1
<1>3. e.addr = QuadAddr(opcode)
  BY <1>1, <1>2 DEF AccumulatorEntry, Entry
<1>4. e.body \in IF Row(opcode) % 4 = 0 THEN Alu8Ops \cup {"XST8"} ELSE Alu8Ops \cup {"ST8"}
  BY <1>1, <1>2 DEF AccumulatorEntry, Entry, Alu8Ops
<1>5. \A m, p, t, s : BodyCycles(e.body, m, p, t, s) = 1
  <2>1. e.body \in Alu8Ops \cup {"ST8", "XST8"}
    BY <1>4
  <2> HIDE DEF e
  <2> QED BY <2>1, Alu8Cycles, Zenon
<1>6. DocumentedCycles(0, opcode) \in {-1, 1 + 1 + QuadOffset(opcode)}
  <2>1. DocumentedCycles(0, opcode) \in {-1, HighCycles(0, opcode)}
    BY HighDocumented
  <2>2. HighCycles(0, opcode) = <<2, 4, 4, 5>>[1 + (Row(opcode) % 4)]
    BY <1>1 DEF HighCycles
  <2>3. <<2, 4, 4, 5>>[1 + (Row(opcode) % 4)] = 1 + 1 + QuadOffset(opcode)
    BY HighRows DEF QuadOffset
  <2> QED BY <2>1, <2>2, <2>3
<1>7. Opening(0) = 1
  BY DEF Opening
<1>8. Special(0, opcode) = "NONE"
  BY HighSpecial
<1> HIDE DEF e
<1>9. Timed(0, opcode)
  BY <1>3, <1>5, <1>6, <1>7, <1>8, QuadTimed DEF e
<1>10. /\ Row(opcode) % 4 # 0 => BodyBytes(e.body, "ea") = 0
       /\ Row(opcode) % 4 = 0 => BodyBytes(e.body, "imm") = 1
  BY <1>4, AccumulatorBytes
<1>11. Sized(0, opcode)
  BY <1>1, <1>3, <1>10, QuadSized DEF e
<1> QED BY <1>9, <1>11

LEMMA Column16Fits ==
  ASSUME NEW opcode \in Byte, Row(opcode) >= 8, Col(opcode) \in {3, 12, 13, 14, 15},
         Col(opcode) = 13 => Row(opcode) % 4 # 0
  PROVE  Timed(0, opcode) /\ Sized(0, opcode)
<1> DEFINE c == Col(opcode)  r == Row(opcode)  e == EntryOf(0, opcode)
           b == IF c = 3 \/ (c = 12 /\ r < 12) THEN 3 ELSE IF c = 13 /\ r < 12 THEN 4 ELSE 2
<1>1. c \in {3, 12, 13, 14, 15} /\ (r % 4 = 0 => opcode # 141)
  BY DigitsTyped DEF Col
<1>2. e = AccumulatorEntry(opcode)
  BY DigitsTyped DEF EntryOf, Page1
<1>3. e.addr = QuadAddr(opcode)
  BY <1>1, <1>2 DEF AccumulatorEntry, Entry
<1>4. e.body = CASE c = 3 -> IF r < 12 THEN "SUB16" ELSE "ADD16"
                 [] c = 12 -> IF r < 12 THEN "CMP16" ELSE "LD16"
                 [] c = 13 -> IF r < 12 THEN "JSR" ELSE "ST16"
                 [] c = 14 -> "LD16"
                 [] c = 15 -> IF r % 4 = 0 THEN "XST16" ELSE "ST16"
  BY <1>1, <1>2 DEF AccumulatorEntry, Entry, Store16
<1>5. \A m, p, t, s : BodyCycles(e.body, m, p, t, s) = b
  <2>1. /\ b = 3 => e.body \in {"SUB16", "CMP16", "ADD16", "XADD16"}
        /\ b = 4 => e.body = "JSR"
        /\ b = 2 => e.body \in {"LD16", "ST16", "XST16"}
        /\ b \in {2, 3, 4}
    BY <1>1, <1>4
  <2> HIDE DEF b, e
  <2> QED BY <2>1, AccumulatorCycles
<1>6. DocumentedCycles(0, opcode) \in {-1, 1 + b + QuadOffset(opcode)}
  <2>1. DocumentedCycles(0, opcode) \in {-1, HighCycles(0, opcode)}
    BY HighDocumented
  <2>2. HighCycles(0, opcode) = (IF b = 3 THEN <<4, 6, 6, 7>> ELSE IF b = 4 THEN <<7, 7, 7, 8>>
                                 ELSE <<3, 5, 5, 6>>)[1 + (r % 4)]
    <3>1. r >= 12 <=> ~(r < 12)
      BY DigitsTyped
    <3>2. CASE c = 3 \/ (c = 12 /\ r < 12)
      BY <3>1, <3>2 DEF HighCycles
    <3>3. CASE c = 13 /\ r < 12
      BY <3>1, <3>3 DEF HighCycles
    <3>4. CASE c \in {14, 15} \/ (c \in {12, 13} /\ ~(r < 12))
      BY <3>1, <3>4 DEF HighCycles
    <3> QED BY <1>1, <3>2, <3>3, <3>4
  <2>3. /\ <<4, 6, 6, 7>>[1 + (r % 4)] = 1 + 3 + QuadOffset(opcode)
        /\ <<3, 5, 5, 6>>[1 + (r % 4)] = 1 + 2 + QuadOffset(opcode)
        /\ r % 4 # 0 => <<7, 7, 7, 8>>[1 + (r % 4)] = 1 + 4 + QuadOffset(opcode)
    BY HighRows DEF QuadOffset
  <2>4. b = 4 => r % 4 # 0
    OBVIOUS
  <2>5. b \in {2, 3, 4}
    OBVIOUS
  <2> HIDE DEF b
  <2> QED BY <2>1, <2>2, <2>3, <2>4, <2>5
<1>7. Opening(0) = 1 /\ b \in 1..4
  BY DEF Opening
<1>8. Special(0, opcode) = "NONE"
  BY HighSpecial
<1>9. /\ r % 4 # 0 => BodyBytes(e.body, "ea") = 0
      /\ r % 4 = 0 => BodyBytes(e.body, "imm") = 2
  <2>1. r % 4 # 0 => e.body \in Alu16Ops \cup {"JSR", "ST16"}
    BY <1>1, <1>4 DEF Alu16Ops
  <2>2. r % 4 = 0 => e.body \in Alu16Ops \cup {"XST16"}
    BY <1>1, <1>4 DEF Alu16Ops
  <2> HIDE DEF e
  <2> QED BY <2>1, <2>2, AccumulatorBytes
<1>10. r % 4 = 0 => c \in {3, 12, 14, 15}
  BY <1>1
<1> HIDE DEF e, b
<1>11. Timed(0, opcode)
  BY <1>3, <1>5, <1>6, <1>7, <1>8, QuadTimed DEF e
<1>12. Sized(0, opcode)
  BY <1>1, <1>3, <1>9, <1>10, QuadSized DEF e
<1> QED BY <1>11, <1>12

LEMMA BsrFits == Timed(0, 141) /\ Sized(0, 141)
<1> DEFINE e == EntryOf(0, 141)
<1>1. Row(141) = 8 /\ Col(141) = 13
  BY DEF Row, Col
<1>2. e = Entry("-", "-", "BSR")
  BY <1>1 DEF EntryOf, Page1, AccumulatorEntry
<1>3. e.body = "BSR" /\ ~Addressed(e) /\ Mode(0, 141) = "RELATIVE8"
  BY <1>1, <1>2 DEF Addressed, Calls, Mode, Entry
<1>4. \A m, p, t, s : BodyCycles("BSR", m, p, t, s) = 6
  BY AccumulatorCycles
<1>5. BodyBytes("BSR", ModeOf(e)) = 1
  BY BytesOf
<1>6. Special(0, 141) = "NONE"
  BY DEF Special
<1>7. DocumentedCycles(0, 141) \in {-1, 7}
  BY <1>1 DEF DocumentedCycles, HighCycles
<1> HIDE DEF e
<1>8. \A p \in Byte : \A t, s : Agrees(0, 141, p, t, s)
  BY <1>3, <1>4, <1>6, <1>7, UnaddressedAgrees DEF Opening, e
<1>9. Sized(0, 141)
  BY <1>3, <1>5, UnaddressedSized DEF OperandLength, e
<1> QED BY <1>8, <1>9 DEF Timed

LEMMA QuadSets ==
  /\ Quad(131) = {131, 147, 163, 179} /\ Quad(140) = {140, 156, 172, 188}
  /\ Quad(142) = {142, 158, 174, 190} /\ Quad(143) = {143, 159, 175, 191}
  /\ Quad(195) = {195, 211, 227, 243} /\ Quad(206) = {206, 222, 238, 254}
  /\ Quad(207) = {207, 223, 239, 255}
<1>1. ASSUME NEW q \in Int PROVE Quad(q) = {q, q + 16, q + 32, q + 48}
  <2>1. \A i \in 0..3 : i = 0 \/ i = 1 \/ i = 2 \/ i = 3
    OBVIOUS
  <2>2. \A i \in 0..3 : 16 * i \in {0, 16, 32, 48}
    BY <2>1
  <2> QED BY <2>2 DEF Quad
<1> QED BY <1>1

\* The entries of the prefixed pages that have an operand column.
Column(k) == CASE k \in {131, 195} -> 3 [] k = 140 -> 12 [] k \in {142, 206} -> 14
               [] k \in {143, 207} -> 15
QuadFirsts == {131, 140, 142, 143, 195, 206, 207}

LEMMA QuadPlaces ==
  \A k \in QuadFirsts : \A opcode \in Quad(k) :
    /\ opcode \in Byte /\ Col(opcode) = Column(k) /\ Row(opcode) >= 8
    /\ (Row(opcode) >= 12 <=> k \in {195, 206, 207})
    /\ opcode \notin 32..47
<1> DEFINE P(k, opcode) == /\ opcode \in Byte /\ Col(opcode) = Column(k) /\ Row(opcode) >= 8
                          /\ (Row(opcode) >= 12 <=> k \in {195, 206, 207})
                          /\ opcode \notin 32..47
<1>1. \A opcode \in Quad(131) : P(131, opcode)
  BY QuadSets, ByteIs DEF Row, Col, Column
<1>2. \A opcode \in Quad(140) : P(140, opcode)
  BY QuadSets, ByteIs DEF Row, Col, Column
<1>3. \A opcode \in Quad(142) : P(142, opcode)
  BY QuadSets, ByteIs DEF Row, Col, Column
<1>4. \A opcode \in Quad(143) : P(143, opcode)
  BY QuadSets, ByteIs DEF Row, Col, Column
<1>5. \A opcode \in Quad(195) : P(195, opcode)
  BY QuadSets, ByteIs DEF Row, Col, Column
<1>6. \A opcode \in Quad(206) : P(206, opcode)
  BY QuadSets, ByteIs DEF Row, Col, Column
<1>7. \A opcode \in Quad(207) : P(207, opcode)
  BY QuadSets, ByteIs DEF Row, Col, Column
<1> HIDE DEF P
<1>8. \A k \in QuadFirsts : \A opcode \in Quad(k) : P(k, opcode)
  BY <1>1, <1>2, <1>3, <1>4, <1>5, <1>6, <1>7 DEF QuadFirsts
<1> QED BY <1>8 DEF P

LEMMA QuadsApart ==
  ASSUME NEW k \in QuadFirsts, NEW opcode \in Quad(k)
  PROVE  /\ opcode \notin {16, 17} /\ opcode \notin 32..47
         /\ opcode # 62 /\ opcode # 63 /\ opcode # 135 /\ opcode # 199
         /\ \A j \in QuadFirsts \ {k} : opcode \notin Quad(j)
<1>1. Col(opcode) = Column(k) /\ Row(opcode) >= 8 /\ (Row(opcode) >= 12 <=> k \in {195, 206, 207})
      /\ opcode \notin 32..47
  BY QuadPlaces
<1>2. \A j \in QuadFirsts : opcode \in Quad(j) =>
        Col(opcode) = Column(j) /\ (Row(opcode) >= 12 <=> j \in {195, 206, 207})
  BY QuadPlaces
<1>3. Column(k) \in {3, 12, 14, 15}
  BY DEF Column, QuadFirsts
<1>4. Col(135) = 7 /\ Col(199) = 7 /\ Row(16) = 1 /\ Row(17) = 1 /\ Row(62) = 3 /\ Row(63) = 3
  BY DEF Col, Row
<1>5. \A j \in QuadFirsts :
        Column(j) = Column(k) /\ (k \in {195, 206, 207} <=> j \in {195, 206, 207})
        => j = k
  BY DEF Column, QuadFirsts
<1>6. \A j \in QuadFirsts \ {k} : opcode \notin Quad(j)
  BY <1>1, <1>2, <1>5
<1>7. opcode # 135 /\ opcode # 199
  BY <1>1, <1>3, <1>4
<1>8. opcode # 16 /\ opcode # 17 /\ opcode # 62 /\ opcode # 63
  BY <1>1, <1>4
<1> QED BY <1>1, <1>6, <1>7, <1>8

LEMMA Page10Quads ==
  ASSUME NEW opcode
  PROVE  LET e == Page10(opcode)
         IN  /\ opcode \in Quad(131) \cup Quad(140) =>
                  e.addr = QuadAddr(opcode) /\ e.body = "CMP16"
             /\ opcode \in Quad(142) \cup Quad(206) =>
                  e.addr = QuadAddr(opcode) /\ e.body = "LD16"
             /\ opcode \in Quad(143) \cup Quad(207) =>
                  e.addr = QuadAddr(opcode) /\ e.body = Store16(opcode)
             /\ opcode \in Quad(195) => e.addr = QuadAddr(opcode) /\ e.body = "XADD16"
<1> DEFINE e == Page10(opcode)
<1>1. \A k \in QuadFirsts : opcode \in Quad(k) =>
         /\ opcode \notin {16, 17} /\ opcode \notin 32..47
         /\ opcode # 62 /\ opcode # 63 /\ opcode # 135 /\ opcode # 199
         /\ \A j \in QuadFirsts \ {k} : opcode \notin Quad(j)
  BY QuadsApart
<1>2. opcode \in Quad(131) => e = Entry("d", QuadAddr(opcode), "CMP16")
  BY <1>1 DEF Page10, QuadFirsts
<1>3. opcode \in Quad(140) => e = Entry("y", QuadAddr(opcode), "CMP16")
  BY <1>1 DEF Page10, QuadFirsts
<1>4. opcode \in Quad(142) => e = Entry("y", QuadAddr(opcode), "LD16")
  BY <1>1 DEF Page10, QuadFirsts
<1>5. opcode \in Quad(206) => e = Entry("s", QuadAddr(opcode), "LD16")
  BY <1>1 DEF Page10, QuadFirsts
<1>6. opcode \in Quad(143) => e = Entry("y", QuadAddr(opcode), Store16(opcode))
  BY <1>1 DEF Page10, QuadFirsts
<1>7. opcode \in Quad(207) => e = Entry("s", QuadAddr(opcode), Store16(opcode))
  BY <1>1 DEF Page10, QuadFirsts
<1>8. opcode \in Quad(195) => e = Entry("d", QuadAddr(opcode), "XADD16")
  BY <1>1 DEF Page10, QuadFirsts
<1> HIDE DEF e
<1> QED BY <1>2, <1>3, <1>4, <1>5, <1>6, <1>7, <1>8 DEF Entry, e

LEMMA Page11Quads ==
  ASSUME NEW opcode
  PROVE  LET e == Page11(opcode)
         IN  /\ opcode \in Quad(131) \cup Quad(140) =>
                  e.addr = QuadAddr(opcode) /\ e.body = "CMP16"
             /\ opcode \in Quad(195) => e.addr = QuadAddr(opcode) /\ e.body = "XADD16"
<1> DEFINE e == Page11(opcode)
<1>1. \A k \in QuadFirsts : opcode \in Quad(k) =>
         /\ opcode \notin {16, 17}
         /\ opcode # 62 /\ opcode # 63 /\ opcode # 135 /\ opcode # 199
         /\ \A j \in QuadFirsts \ {k} : opcode \notin Quad(j)
  BY QuadsApart
<1>2. ASSUME NEW k \in QuadFirsts, opcode \in Quad(k)
      PROVE  (opcode # 143 /\ opcode # 207) \/ k \in {143, 207}
  BY <1>2, QuadPlaces DEF QuadFirsts, Col, Column
<1>3. opcode \in Quad(131) => e = Entry("u", QuadAddr(opcode), "CMP16")
  BY <1>1, <1>2 DEF Page11, QuadFirsts
<1>4. opcode \in Quad(140) => e = Entry("s", QuadAddr(opcode), "CMP16")
  BY <1>1, <1>2 DEF Page11, QuadFirsts
<1>5. opcode \in Quad(195) => e = Entry("u", QuadAddr(opcode), "XADD16")
  BY <1>1, <1>2 DEF Page11, QuadFirsts
<1> HIDE DEF e
<1> QED BY <1>3, <1>4, <1>5 DEF Entry, e

LEMMA PrefixedFits ==
  ASSUME NEW prefix \in {16, 17}, NEW opcode \in Byte, Row(opcode) >= 8,
         Col(opcode) \in {3, 12, 14, 15},
         LET e == EntryOf(prefix, opcode)
         IN  /\ e.addr = QuadAddr(opcode)
             /\ e.body \in CASE Col(opcode) \in {3, 12} -> {"CMP16", "XADD16"}
                             [] Col(opcode) = 14 -> {"LD16"}
                             [] Col(opcode) = 15 -> {Store16(opcode)}
  PROVE  Timed(prefix, opcode) /\ Sized(prefix, opcode)
<1> DEFINE c == Col(opcode)  r == Row(opcode)  e == EntryOf(prefix, opcode)
           b == IF c \in {3, 12} THEN 3 ELSE 2
<1>1. /\ e.addr = QuadAddr(opcode)
      /\ c \in {3, 12} => e.body \in {"CMP16", "XADD16"}
      /\ c = 14 => e.body = "LD16"
      /\ c = 15 => e.body = IF r % 4 = 0 THEN "XST16" ELSE "ST16"
      /\ c \in {3, 12, 14, 15}
  BY DEF Store16
<1>2. opcode # 141
  BY DEF Col
<1> HIDE DEF e
<1>3. \A m, p, t, s : BodyCycles(e.body, m, p, t, s) = b
  <2>1. /\ b = 3 => e.body \in {"SUB16", "CMP16", "ADD16", "XADD16"}
        /\ b = 2 => e.body \in {"LD16", "ST16", "XST16"}
        /\ b \in {2, 3}
    BY <1>1
  <2> HIDE DEF b
  <2> QED BY <2>1, AccumulatorCycles
<1>4. Opening(prefix) = 2 /\ b \in 1..4
  BY DEF Opening
<1>5. DocumentedCycles(prefix, opcode) \in {-1, 2 + b + QuadOffset(opcode)}
  <2>1. DocumentedCycles(prefix, opcode) \in {-1, HighCycles(prefix, opcode)}
    BY HighDocumented
  <2>2. HighCycles(prefix, opcode) =
          (IF c \in {3, 12} THEN <<5, 7, 7, 8>> ELSE <<4, 6, 6, 7>>)[1 + (r % 4)]
    BY <1>1 DEF HighCycles
  <2>3. /\ <<5, 7, 7, 8>>[1 + (r % 4)] = 2 + 3 + QuadOffset(opcode)
        /\ <<4, 6, 6, 7>>[1 + (r % 4)] = 2 + 2 + QuadOffset(opcode)
    BY HighRows DEF QuadOffset
  <2> QED BY <2>1, <2>2, <2>3
<1>6. Special(prefix, opcode) = "NONE"
  BY HighSpecial
<1>7. /\ r % 4 # 0 => BodyBytes(e.body, "ea") = 0
      /\ r % 4 = 0 => BodyBytes(e.body, "imm") = 2
  <2>1. r % 4 # 0 => e.body \in Alu16Ops \cup {"ST16"}
    BY <1>1 DEF Alu16Ops
  <2>2. r % 4 = 0 => e.body \in Alu16Ops \cup {"XST16"}
    BY <1>1 DEF Alu16Ops
  <2> QED BY <2>1, <2>2, AccumulatorBytes
<1> HIDE DEF b
<1>8. Timed(prefix, opcode)
  BY <1>1, <1>3, <1>4, <1>5, <1>6, QuadTimed DEF e
<1>9. Sized(prefix, opcode)
  BY <1>1, <1>2, <1>7, QuadSized DEF e
<1> QED BY <1>8, <1>9

LEMMA LongBranchFits ==
  ASSUME NEW opcode \in 32..47
  PROVE  Timed(16, opcode) /\ Sized(16, opcode)
<1> DEFINE e == EntryOf(16, opcode)
<1>1. Row(opcode) = 2 /\ ~(Row(opcode) >= 8) /\ Row(opcode) < 8
  BY DEF Row
<1>2. e = Entry("-", "-", "LBRANCH")
  <2>1. opcode \notin {16, 17} /\ opcode # 62 /\ opcode # 63 /\ opcode # 135 /\ opcode # 199
        /\ opcode \in 32..47
    OBVIOUS
  <2>2. \A k \in QuadFirsts : opcode \notin Quad(k)
    BY QuadsApart
  <2> QED BY <2>1, <2>2 DEF EntryOf, Page10, QuadFirsts
<1>3. e.body = "LBRANCH" /\ ~Addressed(e)
  BY <1>2 DEF Addressed, Calls, Entry
<1>4. \A m, p, t, s : BodyCycles("LBRANCH", m, p, t, s) = IF t THEN 4 ELSE 3
  BY CyclesOf
<1>5. BodyBytes("LBRANCH", ModeOf(e)) = 2
  BY BytesOf
<1>6. Mode(16, opcode) = "RELATIVE16"
  BY <1>1 DEF Mode
<1>7. Special(16, opcode) = IF opcode = 32 THEN "NONE" ELSE "LONG_BRANCH"
  BY DEF Special
<1>8. DocumentedCycles(16, opcode) \in {-1, IF opcode = 32 THEN 6 ELSE 5}
  BY <1>1 DEF DocumentedCycles, LowCycles
<1> HIDE DEF e
<1>9. ASSUME NEW p \in Byte, NEW t \in BOOLEAN, NEW s, opcode \in {22, 32} => t
      PROVE  Agrees(16, opcode, p, t, s)
  <2>1. CoreCycles(16, opcode, p, t, s) = 2 + 0 + (IF t THEN 4 ELSE 3)
    BY <1>3, <1>4 DEF CoreCycles, Opening, e
  <2> DEFINE z == DocumentedCycles(16, opcode)
  <2>2. DatasheetCycles(16, opcode, p, t, s) =
          IF z = -1 THEN -1 ELSE IF opcode = 32 THEN z + 0 ELSE z + 0 + (IF t THEN 1 ELSE 0)
    BY <1>6, <1>7 DEF DatasheetCycles
  <2> HIDE DEF z
  <2>3. z \in {-1, IF opcode = 32 THEN 6 ELSE 5}
    BY <1>8 DEF z
  <2> QED BY <1>9, <2>1, <2>2, <2>3 DEF Agrees
<1>10. Sized(16, opcode)
  BY <1>3, <1>5, <1>6, UnaddressedSized DEF OperandLength, e
<1> QED BY <1>9, <1>10 DEF Timed

\* The software interrupts of the prefixed pages.
LEMMA PrefixedSwiFits ==
  ASSUME NEW prefix \in {16, 17}, NEW opcode \in {62, 63}
  PROVE  Timed(prefix, opcode) /\ Sized(prefix, opcode)
<1> DEFINE e == EntryOf(prefix, opcode)
<1>1. Row(opcode) = 3 /\ Row(opcode) < 8 /\ Col(opcode) \in {14, 15}
  BY DEF Row, Col
<1>2. e.addr = "-" /\ e.body \in SoftwareLabels
  <2>1. \A k \in QuadFirsts : opcode \notin Quad(k)
    BY QuadsApart
  <2>2. CASE prefix = 16
    BY <2>1, <2>2 DEF EntryOf, Page10, Entry, SoftwareLabels, QuadFirsts
  <2>3. CASE prefix = 17
    BY <2>1, <2>3 DEF EntryOf, Page11, Entry, SoftwareLabels, QuadFirsts
  <2> QED BY <2>2, <2>3
<1>3. ~Addressed(e)
  BY <1>2 DEF Addressed, Calls
<1>4. \A m, p, t, s : BodyCycles(e.body, m, p, t, s) = 18
  BY <1>2, SoftwareCycles
<1>5. BodyBytes(e.body, ModeOf(e)) = 0
  BY <1>2, BytesOf
<1>6. Mode(prefix, opcode) = "INHERENT"
  BY <1>1 DEF Mode
<1>7. Special(prefix, opcode) = "NONE"
  BY DEF Special
<1>8. DocumentedCycles(prefix, opcode) \in {-1, 20} /\ Opening(prefix) = 2
  BY <1>1 DEF DocumentedCycles, LowCycles, Opening
<1> HIDE DEF e
<1>9. ASSUME NEW p \in Byte, NEW t, NEW s PROVE Agrees(prefix, opcode, p, t, s)
  <2>1. 2 + 18 \in 2..21 /\ 18 \in Int /\ 2 + 18 = 20
    OBVIOUS
  <2> QED BY <1>3, <1>4, <1>6, <1>7, <1>8, <2>1, UnaddressedAgrees DEF e
<1>10. Sized(prefix, opcode)
  BY <1>3, <1>5, <1>6, UnaddressedSized DEF OperandLength, e
<1> QED BY <1>9, <1>10 DEF Timed

\* The undocumented immediate stores of the prefixed pages.
LEMMA PrefixedStoreFits ==
  ASSUME NEW prefix \in {16, 17}, NEW opcode \in {135, 199, 143, 207}
  PROVE  Timed(prefix, opcode) /\ Sized(prefix, opcode)
<1> DEFINE e == EntryOf(prefix, opcode)
           b == IF opcode \in {135, 199} THEN 1 ELSE 2
<1>1. /\ Row(opcode) \in {8, 12} /\ Row(opcode) % 4 = 0
      /\ Col(opcode) = IF opcode \in {135, 199} THEN 7 ELSE 15
  BY DEF Row, Col
<1>2. e.addr = "imm" /\ e.body = IF opcode \in {135, 199} THEN "XST8" ELSE "XST16"
  <2>1. QuadAddr(opcode) = "imm" /\ Store16(opcode) = "XST16"
    BY <1>1 DEF QuadAddr, Store16
  <2> QED BY <2>1, QuadSets DEF EntryOf, Page10, Page11, Entry
<1>3. ~Addressed(e) /\ ModeOf(e) = "imm"
  BY <1>2 DEF Addressed, Calls, ModeOf
<1>4. \A m, p, t, s : BodyCycles(e.body, m, p, t, s) = b
  <2>1. \A m, p, t, s : BodyCycles("XST8", m, p, t, s) = 1 /\ BodyCycles("XST16", m, p, t, s) = 2
    BY Alu8Cycles, AccumulatorCycles
  <2> QED BY <1>2, <2>1
<1>5. BodyBytes(e.body, ModeOf(e)) = b
  BY <1>2, <1>3, AccumulatorBytes
<1>6. Mode(prefix, opcode) = IF opcode \in {135, 199} THEN "IMMEDIATE8" ELSE "XST16_IMMEDIATE"
  BY <1>1 DEF Mode
<1>7. Special(prefix, opcode) = "NONE"
  BY DEF Special
<1>8. DocumentedCycles(prefix, opcode) = -1 /\ Opening(prefix) = 2
  BY DEF DocumentedCycles, NoTiming, Opening
<1>9. b \in {1, 2} /\ 2 + b \in 2..21 /\ b \in Int
  OBVIOUS
<1>10. \A p : OperandLength(Mode(prefix, opcode), p) = b /\ Mode(prefix, opcode) # "INDEXED"
  BY <1>6 DEF OperandLength
<1> HIDE DEF e, b
<1>11. ASSUME NEW p \in Byte, NEW t, NEW s PROVE Agrees(prefix, opcode, p, t, s)
  BY <1>3, <1>4, <1>7, <1>8, <1>9, <1>10, UnaddressedAgrees DEF e
<1>12. Sized(prefix, opcode)
  BY <1>3, <1>5, <1>10, UnaddressedSized DEF e
<1> QED BY <1>11, <1>12 DEF Timed

\* The keys of the opcode table, page by page.
LEMMA Keys ==
  ASSUME NEW prefix, NEW opcode, <<prefix, opcode>> \in Listed
  PROVE  \/ prefix = 0 /\ opcode \in Byte \ {16, 17, 19, 20, 21, 60, 205}
         \/ /\ prefix = 16
            /\ opcode \in 32..47 \cup {62, 63, 135, 199, 143, 207}
                 \/ \E k \in QuadFirsts : opcode \in Quad(k)
         \/ /\ prefix = 17
            /\ opcode \in {62, 63, 135, 199, 143, 207}
                 \/ \E k \in {131, 140, 195} : opcode \in Quad(k)
<1>1. CASE <<prefix, opcode>> \in ({0} \X (Byte \ {16, 17})) \ Skipped
  <2>1. prefix = 0 /\ opcode \in Byte \ {16, 17} /\ <<prefix, opcode>> \notin Skipped
    BY <1>1
  <2>2. ASSUME opcode \in {19, 20, 21, 60, 205} PROVE <<0, opcode>> \in Skipped
    BY <2>2 DEF Skipped
  <2> QED BY <2>1, <2>2
<1>2. CASE prefix = 16
  <2>1. \/ opcode \in 32..47 \cup {62, 63, 135, 199, 143, 207}
        \/ opcode \in Quad(131) \/ opcode \in Quad(140) \/ opcode \in Quad(142)
        \/ opcode \in Quad(195) \/ opcode \in Quad(206) \/ opcode \in Quad(143)
        \/ opcode \in Quad(207)
    BY <1>2 DEF Listed
  <2> QED BY <1>2, <2>1 DEF QuadFirsts
<1>3. CASE prefix = 17
  <2>1. \/ opcode \in {62, 63, 135, 199, 143, 207}
        \/ opcode \in Quad(131) \/ opcode \in Quad(140) \/ opcode \in Quad(195)
    BY <1>3 DEF Listed
  <2> QED BY <1>3, <2>1
<1>4. \/ <<prefix, opcode>> \in ({0} \X (Byte \ {16, 17})) \ Skipped
      \/ prefix = 16 \/ prefix = 17
  BY DEF Listed
<1> QED BY <1>1, <1>2, <1>3, <1>4

LEMMA Page1Fits ==
  ASSUME NEW opcode \in Byte \ {16, 17, 19, 20, 21, 60, 205}
  PROVE  Timed(0, opcode) /\ Sized(0, opcode)
<1>1. opcode \in Byte /\ Row(opcode) \in 0..15 /\ Col(opcode) \in 0..15
      /\ opcode = 16 * Row(opcode) + Col(opcode)
  BY DigitsTyped, ByteIs DEF Row, Col
<1>2. CASE Row(opcode) \in {0, 4, 5, 6, 7}
  BY <1>1, <1>2, RmwFits
<1>3. CASE Row(opcode) = 1
  <2>1. Col(opcode) \notin {0, 1, 3, 4, 5}
    BY <1>1, <1>3
  <2> QED BY <1>1, <1>3, <2>1, Row1Fits
<1>4. CASE Row(opcode) = 2
  BY <1>1, <1>4, Row2Fits
<1>5. CASE Row(opcode) = 3
  <2>1. Col(opcode) # 12
    BY <1>1, <1>5
  <2>2. CASE Col(opcode) \in 0..3
    BY <1>1, <1>5, <2>2, LeaFits
  <2>3. CASE Col(opcode) \in {4, 5, 6, 7}
    BY <1>1, <1>5, <2>3, PushPullFits
  <2>4. CASE Col(opcode) = 11
    <3>1. opcode = 59
      BY <1>1, <1>5, <2>4
    <3> QED BY <3>1, RtiFits
  <2>5. CASE Col(opcode) \in {8, 9, 10, 13, 14, 15}
    BY <1>1, <1>5, <2>5, Row3Fits
  <2> QED BY <1>1, <2>1, <2>2, <2>3, <2>4, <2>5
<1>6. CASE Row(opcode) >= 8
  <2>1. CASE Col(opcode) \notin {3, 12, 13, 14, 15}
    BY <1>1, <1>6, <2>1, Column8Fits
  <2>2. CASE Col(opcode) \in {3, 12, 13, 14, 15} /\ (Col(opcode) = 13 => Row(opcode) % 4 # 0)
    BY <1>1, <1>6, <2>2, Column16Fits
  <2>3. CASE Col(opcode) = 13 /\ Row(opcode) % 4 = 0
    <3>1. opcode = 141
      <4>1. Row(opcode) = 8 \/ Row(opcode) = 12
        BY <1>1, <1>6, <2>3
      <4> QED BY <1>1, <2>3, <4>1
    <3> QED BY <3>1, BsrFits
  <2> QED BY <2>1, <2>2, <2>3
<1> QED BY <1>1, <1>2, <1>3, <1>4, <1>5, <1>6

LEMMA QuadFits ==
  ASSUME NEW prefix \in {16, 17}, NEW k \in QuadFirsts, prefix = 17 => k \in {131, 140, 195},
         NEW opcode \in Quad(k)
  PROVE  Timed(prefix, opcode) /\ Sized(prefix, opcode)
<1> DEFINE e == EntryOf(prefix, opcode)
<1>1. opcode \in Byte /\ Col(opcode) = Column(k) /\ Row(opcode) >= 8
  BY QuadPlaces
<1>2. Col(opcode) \in {3, 12, 14, 15}
  BY <1>1 DEF Column, QuadFirsts
<1>3. e.addr = QuadAddr(opcode)
      /\ e.body \in CASE Col(opcode) \in {3, 12} -> {"CMP16", "XADD16"}
                      [] Col(opcode) = 14 -> {"LD16"}
                      [] Col(opcode) = 15 -> {Store16(opcode)}
  <2>1. CASE prefix = 16
    <3>1. e = Page10(opcode)
      BY <2>1 DEF EntryOf
    <3> HIDE DEF e
    <3>2. CASE k \in {131, 140}
      <4>1. opcode \in Quad(131) \cup Quad(140) /\ Col(opcode) \in {3, 12}
        BY <1>1, <3>2 DEF Column
      <4> QED BY <3>1, <4>1, Page10Quads
    <3>3. CASE k \in {142, 206}
      <4>1. opcode \in Quad(142) \cup Quad(206) /\ Col(opcode) = 14
        BY <1>1, <3>3 DEF Column
      <4> QED BY <3>1, <4>1, Page10Quads
    <3>4. CASE k \in {143, 207}
      <4>1. opcode \in Quad(143) \cup Quad(207) /\ Col(opcode) = 15
        BY <1>1, <3>4 DEF Column
      <4> QED BY <3>1, <4>1, Page10Quads
    <3>5. CASE k = 195
      <4>1. opcode \in Quad(195) /\ Col(opcode) = 3
        BY <1>1, <3>5 DEF Column
      <4> QED BY <3>1, <4>1, Page10Quads
    <3> QED BY <3>2, <3>3, <3>4, <3>5, ZenonT(40) DEF QuadFirsts
  <2>2. CASE prefix = 17
    <3>1. e = Page11(opcode)
      BY <2>2 DEF EntryOf
    <3> HIDE DEF e
    <3>2. CASE k \in {131, 140}
      <4>1. opcode \in Quad(131) \cup Quad(140) /\ Col(opcode) \in {3, 12}
        BY <1>1, <3>2 DEF Column
      <4> QED BY <3>1, <4>1, Page11Quads
    <3>3. CASE k = 195
      <4>1. opcode \in Quad(195) /\ Col(opcode) = 3
        BY <1>1, <3>3 DEF Column
      <4> QED BY <3>1, <4>1, Page11Quads
    <3> QED BY <2>2, <3>2, <3>3
  <2> QED BY <2>1, <2>2
<1> HIDE DEF e
<1> QED BY <1>1, <1>2, <1>3, PrefixedFits DEF e

(***************************************************************************)
(* For every key of the opcode table, every operand byte, branch condition *)
(* and stacked byte, the dispatch tables and the labels behind them take   *)
(* the cycles of the datasheet and step over the bytes of the mode.        *)
(***************************************************************************)
LEMMA ListedFits ==
  ASSUME NEW prefix, NEW opcode, <<prefix, opcode>> \in Listed
  PROVE  Timed(prefix, opcode) /\ Sized(prefix, opcode)
<1>1. CASE prefix = 0 /\ opcode \in Byte \ {16, 17, 19, 20, 21, 60, 205}
  BY <1>1, Page1Fits
<1>2. CASE prefix = 16 /\ opcode \in 32..47
  BY <1>2, LongBranchFits
<1>3. CASE prefix \in {16, 17} /\ opcode \in {62, 63}
  BY <1>3, PrefixedSwiFits
<1>4. CASE prefix \in {16, 17} /\ opcode \in {135, 199, 143, 207}
  BY <1>4, PrefixedStoreFits
<1>5. CASE prefix = 16 /\ \E k \in QuadFirsts : opcode \in Quad(k)
  BY <1>5, QuadFits
<1>6. CASE prefix = 17 /\ \E k \in {131, 140, 195} : opcode \in Quad(k)
  BY <1>6, QuadFits DEF QuadFirsts
<1> QED BY <1>1, <1>2, <1>3, <1>4, <1>5, <1>6, Keys

LEMMA CountOne ==
  ASSUME NEW S, NEW T, NEW x, x \notin T, IsFiniteSet(S \cap T)
  PROVE  /\ IsFiniteSet(S \cap (T \cup {x}))
         /\ Cardinality(S \cap (T \cup {x})) = Cardinality(S \cap T) + (IF x \in S THEN 1 ELSE 0)
<1>1. CASE x \in S
  <2>1. S \cap (T \cup {x}) = (S \cap T) \cup {x} /\ x \notin S \cap T
    BY <1>1
  <2> QED BY <1>1, <2>1, FS_AddElement
<1>2. CASE x \notin S
  <2> DEFINE n == Cardinality(S \cap T)
  <2>1. S \cap (T \cup {x}) = S \cap T
    BY <1>2
  <2>2. n \in Nat
    BY FS_CardinalityType
  <2>3. IsFiniteSet(S \cap (T \cup {x})) /\ Cardinality(S \cap (T \cup {x})) = n
    BY <2>1, Zenon
  <2> HIDE DEF n
  <2>4. n = n + (IF x \in S THEN 1 ELSE 0)
    BY <1>2, <2>2
  <2> QED BY <2>3, <2>4, Zenon DEF n
<1> QED BY <1>1, <1>2

Four(a, b, c, d) == {a, b, c, d}

LEMMA CountFour ==
  ASSUME NEW a, NEW b, NEW c, NEW d, a # b, a # c, a # d, b # c, b # d, c # d,
         NEW S, S \subseteq Four(a, b, c, d)
  PROVE  Cardinality(S) = (((IF a \in S THEN 1 ELSE 0) + (IF b \in S THEN 1 ELSE 0))
                             + (IF c \in S THEN 1 ELSE 0)) + (IF d \in S THEN 1 ELSE 0)
<1>1. S \cap {} = {} /\ IsFiniteSet(S \cap {}) /\ Cardinality(S \cap {}) = 0
  BY FS_EmptySet
<1>2. /\ IsFiniteSet(S \cap {a}) /\ Cardinality(S \cap {a}) = IF a \in S THEN 1 ELSE 0
  <2>1. CASE a \in S
    <3>1. S \cap {a} = {a}
      BY <2>1
    <3> QED BY <2>1, <3>1, FS_Singleton
  <2>2. CASE a \notin S
    <3>1. S \cap {a} = {}
      BY <2>2
    <3> QED BY <2>2, <3>1, FS_EmptySet
  <2> QED BY <2>1, <2>2
<1>3. /\ IsFiniteSet(S \cap {a, b})
      /\ Cardinality(S \cap {a, b}) = (IF a \in S THEN 1 ELSE 0) + (IF b \in S THEN 1 ELSE 0)
  <2>1. {a} \cup {b} = {a, b} /\ b \notin {a}
    OBVIOUS
  <2>2. /\ IsFiniteSet(S \cap ({a} \cup {b}))
        /\ Cardinality(S \cap ({a} \cup {b})) = Cardinality(S \cap {a}) + (IF b \in S THEN 1 ELSE 0)
    BY <1>2, <2>1, CountOne
  <2> QED BY <1>2, <2>1, <2>2
<1>4. /\ IsFiniteSet(S \cap {a, b, c})
      /\ Cardinality(S \cap {a, b, c}) = ((IF a \in S THEN 1 ELSE 0) + (IF b \in S THEN 1 ELSE 0))
                                          + (IF c \in S THEN 1 ELSE 0)
  <2>1. {a, b} \cup {c} = {a, b, c} /\ c \notin {a, b}
    OBVIOUS
  <2>2. /\ IsFiniteSet(S \cap ({a, b} \cup {c}))
        /\ Cardinality(S \cap ({a, b} \cup {c})) =
             Cardinality(S \cap {a, b}) + (IF c \in S THEN 1 ELSE 0)
    BY <1>3, <2>1, CountOne
  <2> QED BY <1>3, <2>1, <2>2
<1>5. {a, b, c} \cup {d} = {a, b, c, d} /\ d \notin {a, b, c}
  OBVIOUS
<1>6. Cardinality(S \cap ({a, b, c} \cup {d})) =
        Cardinality(S \cap {a, b, c}) + (IF d \in S THEN 1 ELSE 0)
  BY <1>4, <1>5, CountOne
<1>7. S \cap {a, b, c, d} = S
  BY DEF Four
<1> QED BY <1>4, <1>5, <1>6, <1>7

\* The datasheet's count of the bytes of a mask is the core's.
LEMMA PushPullIsOffset == \A mask : PushPullBytes(mask) = Offset(mask, 256)
<1> SUFFICES ASSUME NEW mask PROVE PushPullBytes(mask) = Offset(mask, 256)
  OBVIOUS
<1> DEFINE lo == {m \in {1, 2, 4, 8} : Has(mask, m)}
           hi == {m \in {16, 32, 64, 128} : Has(mask, m)}
           n(m) == IF Has(mask, m) THEN 1 ELSE 0
<1>1. Cardinality(lo) = ((n(1) + n(2)) + n(4)) + n(8)
  <2>1. lo \subseteq Four(1, 2, 4, 8) /\ \A m \in {1, 2, 4, 8} : m \in lo <=> Has(mask, m)
    BY DEF Four
  <2>2. 1 # 2 /\ 1 # 4 /\ 1 # 8 /\ 2 # 4 /\ 2 # 8 /\ 4 # 8
    OBVIOUS
  <2> HIDE DEF lo
  <2>3. Cardinality(lo) = (((IF 1 \in lo THEN 1 ELSE 0) + (IF 2 \in lo THEN 1 ELSE 0))
                             + (IF 4 \in lo THEN 1 ELSE 0)) + (IF 8 \in lo THEN 1 ELSE 0)
    BY <2>2, <2>1, CountFour
  <2> QED BY <2>1, <2>3
<1>2. Cardinality(hi) = ((n(16) + n(32)) + n(64)) + n(128)
  <2>1. hi \subseteq Four(16, 32, 64, 128) /\ \A m \in {16, 32, 64, 128} : m \in hi <=> Has(mask, m)
    BY DEF Four
  <2>2. 16 # 32 /\ 16 # 64 /\ 16 # 128 /\ 32 # 64 /\ 32 # 128 /\ 64 # 128
    OBVIOUS
  <2> HIDE DEF hi
  <2>3. Cardinality(hi) = (((IF 16 \in hi THEN 1 ELSE 0) + (IF 32 \in hi THEN 1 ELSE 0))
                             + (IF 64 \in hi THEN 1 ELSE 0)) + (IF 128 \in hi THEN 1 ELSE 0)
    BY <2>2, <2>1, CountFour
  <2> QED BY <2>1, <2>3
<1>3. PushPullBytes(mask) = Cardinality(lo) + 2 * Cardinality(hi)
  BY DEF PushPullBytes
<1> HIDE DEF lo, hi
<1>4. Offset(mask, 256) = (((n(1) + n(2)) + n(4)) + n(8)) + 2 * (((n(16) + n(32)) + n(64)) + n(128))
  BY DEF Offset
<1> QED BY <1>1, <1>2, <1>3, <1>4

\* The flags of a condition in the byte that is stacked.
LEMMA FlagBits ==
  \A f : /\ (Has(CCByte(f), 1) <=> "C" \in f) /\ (Has(CCByte(f), 2) <=> "V" \in f)
         /\ (Has(CCByte(f), 4) <=> "Z" \in f) /\ (Has(CCByte(f), 8) <=> "N" \in f)
<1> SUFFICES ASSUME NEW f
    PROVE  /\ (Has(CCByte(f), 1) <=> "C" \in f) /\ (Has(CCByte(f), 2) <=> "V" \in f)
           /\ (Has(CCByte(f), 4) <=> "Z" \in f) /\ (Has(CCByte(f), 8) <=> "N" \in f)
  OBVIOUS
<1>1. PICK c \in {0, 1}, v \in {0, 1}, z \in {0, 1}, n \in {0, 1}, r \in Int :
        /\ CCByte(f) = ((c + 2 * v) + 4 * z) + (8 * n + 16 * r)
        /\ (c = 1 <=> "C" \in f) /\ (v = 1 <=> "V" \in f)
        /\ (z = 1 <=> "Z" \in f) /\ (n = 1 <=> "N" \in f)
  <2> DEFINE b(g) == IF g \in f THEN 1 ELSE 0
             r == b("I") + 2 * b("H") + 4 * b("F") + 8 * b("E")
  <2>1. CCByte(f) = ((b("C") + 2 * b("V")) + 4 * b("Z")) + (8 * b("N") + 16 * r)
    BY DEF CCByte, CCMask
  <2>2. \A g : b(g) \in {0, 1} /\ (b(g) = 1 <=> g \in f)
    OBVIOUS
  <2>3. r \in Int
    OBVIOUS
  <2> HIDE DEF b, r
  <2> QED BY <2>1, <2>2, <2>3
<1>2. Bit(CCByte(f), 1) = c
  BY <1>1 DEF Bit
<1>3. Bit(CCByte(f), 2) = v
  <2>1. CCByte(f) \div 2 = (v + 2 * z) + (4 * n + 8 * r)
    BY <1>1
  <2> QED BY <2>1, <1>1 DEF Bit
<1>4. Bit(CCByte(f), 4) = z
  <2>1. CCByte(f) \div 4 = z + (2 * n + 4 * r)
    BY <1>1
  <2> QED BY <2>1, <1>1 DEF Bit
<1>5. Bit(CCByte(f), 8) = n
  <2>1. CCByte(f) \div 8 = n + 2 * r
    BY <1>1
  <2> QED BY <2>1, <1>1 DEF Bit
<1> QED BY <1>1, <1>2, <1>3, <1>4, <1>5 DEF Has

\* The branch conditions of the table are those of the core.
LEMMA ConditionsAgree ==
  ASSUME NEW opcode \in Byte, NEW f
  PROVE  BranchCondition(opcode, CCByte(f)) <=> BranchCond(Col(opcode), f)
<1> DEFINE d == Col(opcode)
           carry == "C" \in f  overflow == "V" \in f  zero == "Z" \in f  negative == "N" \in f
<1>1. d \in 0..15
  BY DigitsTyped
<1>2. /\ Has(CCByte(f), 1) = carry /\ Has(CCByte(f), 2) = overflow
      /\ Has(CCByte(f), 4) = zero /\ Has(CCByte(f), 8) = negative
  BY FlagBits DEF Has
<1>3. BranchCondition(opcode, CCByte(f)) <=>
        CASE d = 0 -> TRUE
          [] d = 1 -> FALSE
          [] d = 2 -> ~(carry \/ zero)
          [] d = 3 -> carry \/ zero
          [] d = 4 -> ~carry
          [] d = 5 -> carry
          [] d = 6 -> ~zero
          [] d = 7 -> zero
          [] d = 8 -> ~overflow
          [] d = 9 -> overflow
          [] d = 10 -> ~negative
          [] d = 11 -> negative
          [] d = 12 -> negative = overflow
          [] d = 13 -> negative # overflow
          [] d = 14 -> negative = overflow /\ ~zero
          [] d = 15 -> ~(negative = overflow /\ ~zero)
  BY <1>2, Zenon DEF BranchCondition
<1> HIDE DEF d
<1>4. BranchCond(0, f)
  <2>1. 2 * (0 \div 2) = 0 /\ ~(0 = 2) /\ ~(0 = 4) /\ ~(0 = 6) /\ ~(0 = 8) /\ ~(0 = 10)
        /\ ~(0 = 12) /\ ~(0 = 14) /\ ~(1 = 0)
    OBVIOUS
  <2> QED BY <2>1, Zenon DEF BranchCond
<1>5. ~BranchCond(1, f)
  <2>1. 2 * (1 \div 2) = 0 /\ ~(0 = 2) /\ ~(0 = 4) /\ ~(0 = 6) /\ ~(0 = 8) /\ ~(0 = 10)
        /\ ~(0 = 12) /\ ~(0 = 14) /\ ~(1 = 0)
    OBVIOUS
  <2> QED BY <2>1, Zenon DEF BranchCond
<1>6. BranchCond(2, f) <=> (~(carry \/ zero))
  BY DEF BranchCond, CondHi
<1>7. BranchCond(3, f) <=> (carry \/ zero)
  BY DEF BranchCond, CondHi
<1>8. BranchCond(4, f) <=> (~carry)
  BY DEF BranchCond, CondCc
<1>9. BranchCond(5, f) <=> (carry)
  BY DEF BranchCond, CondCc
<1>10. BranchCond(6, f) <=> (~zero)
  BY DEF BranchCond, CondNe
<1>11. BranchCond(7, f) <=> (zero)
  BY DEF BranchCond, CondNe
<1>12. BranchCond(8, f) <=> (~overflow)
  BY DEF BranchCond, CondVc
<1>13. BranchCond(9, f) <=> (overflow)
  BY DEF BranchCond, CondVc
<1>14. BranchCond(10, f) <=> (~negative)
  BY DEF BranchCond, CondPl
<1>15. BranchCond(11, f) <=> (negative)
  BY DEF BranchCond, CondPl
<1>16. BranchCond(12, f) <=> (negative = overflow)
  BY DEF BranchCond, CondGe
<1>17. BranchCond(13, f) <=> (negative # overflow)
  BY DEF BranchCond, CondGe
<1>18. BranchCond(14, f) <=> (negative = overflow /\ ~zero)
  BY DEF BranchCond, CondGt, CondGe
<1>19. BranchCond(15, f) <=> (~(negative = overflow /\ ~zero))
  BY DEF BranchCond, CondGt, CondGe
<1> HIDE DEF carry, overflow, zero, negative
<1>20. CASE d = 0
  BY <1>3, <1>4, <1>20 DEF d
<1>21. CASE d = 1
  BY <1>3, <1>5, <1>21 DEF d
<1>22. CASE d = 2
  BY <1>3, <1>6, <1>22 DEF d
<1>23. CASE d = 3
  BY <1>3, <1>7, <1>23 DEF d
<1>24. CASE d = 4
  BY <1>3, <1>8, <1>24 DEF d
<1>25. CASE d = 5
  BY <1>3, <1>9, <1>25 DEF d
<1>26. CASE d = 6
  BY <1>3, <1>10, <1>26 DEF d
<1>27. CASE d = 7
  BY <1>3, <1>11, <1>27 DEF d
<1>28. CASE d = 8
  BY <1>3, <1>12, <1>28 DEF d
<1>29. CASE d = 9
  BY <1>3, <1>13, <1>29 DEF d
<1>30. CASE d = 10
  BY <1>3, <1>14, <1>30 DEF d
<1>31. CASE d = 11
  BY <1>3, <1>15, <1>31 DEF d
<1>32. CASE d = 12
  BY <1>3, <1>16, <1>32 DEF d
<1>33. CASE d = 13
  BY <1>3, <1>17, <1>33 DEF d
<1>34. CASE d = 14
  BY <1>3, <1>18, <1>34 DEF d
<1>35. CASE d = 15
  BY <1>3, <1>19, <1>35 DEF d
<1> QED BY <1>1, <1>20, <1>21, <1>22, <1>23, <1>24, <1>25, <1>26, <1>27, <1>28,
             <1>29, <1>30, <1>31, <1>32, <1>33, <1>34, <1>35

-----------------------------------------------------------------------------
(***************************************************************************)
(* Which keys have the labels that do more than go on behind themselves.   *)
(***************************************************************************)
Usual == RmwOps \cup Alu8Ops \cup Alu16Ops
           \cup {"XNC8", "TST8", "ST8", "XST8", "ST16", "LEA_xy", "LEA_us", "NOP", "X18",
                 "DAA", "ORCC", "ANDCC", "SEX", "ABX", "MUL", "PSHS", "PSHU"}

Placed(prefix, opcode, b) ==
  \/ b \in Usual
  \/ b = "XST16" /\ Row(opcode) \in {8, 12} /\ Col(opcode) = 15
  \/ b = "BRANCH" /\ Row(opcode) = 2
  \/ b = "LBRANCH" /\ ((prefix = 0 /\ opcode = 22) \/ (prefix = 16 /\ Row(opcode) = 2))
  \/ b \in {"SWI2", "SWI3", "XSWI2", "XFIRQ"} /\ prefix # 0 /\ opcode \in {62, 63}
  \/ /\ prefix = 0
     /\ \/ b = "XANDCC" /\ opcode = 56
        \/ b = "JMP" /\ opcode \in {14, 110, 126}
        \/ b = "RTS" /\ opcode = 57
        \/ b = "RTI" /\ opcode = 59
        \/ b = "BSR" /\ opcode = 141
        \/ b = "LBSR" /\ opcode = 23
        \/ b = "JSR" /\ opcode \in {157, 173, 189}
        \/ b \in {"SWI", "XRES"} /\ opcode \in {62, 63}
        \/ b \in {"PULS", "PULU"} /\ opcode \in {53, 55}
        \/ b = "EXG" /\ opcode = 30
        \/ b = "TFR" /\ opcode = 31

LEMMA Page1Placed ==
  ASSUME NEW opcode \in Byte \ {16, 17, 19, 20, 21, 60, 205}
  PROVE  Placed(0, opcode, Page1(opcode).body)
<1> DEFINE r == Row(opcode)  c == Col(opcode)  e == Page1(opcode)
<1>1. opcode \in Byte /\ r \in 0..15 /\ c \in 0..15 /\ opcode = 16 * r + c
  BY DigitsTyped, ByteIs DEF Row, Col
<1>2. CASE r \in {0, 4, 5, 6, 7}
  <2>1. e = RmwEntry(opcode)
    BY <1>2 DEF Page1
  <2>2. e.body \in IF c = 14 /\ r \notin {4, 5} THEN {"JMP"} ELSE RmwOps \cup {"XNC8", "TST8"}
    BY <1>1, <2>1 DEF RmwEntry, Entry, RmwOps
  <2>3. c = 14 /\ r \notin {4, 5} => opcode \in {14, 110, 126}
    BY <1>1, <1>2
  <2> QED BY <2>2, <2>3 DEF Placed, Usual, e
<1>3. CASE r = 1
  <2>1. e = Row1Entry(opcode)
    BY <1>3 DEF Page1
  <2>2. c \in {2, 6, 7, 8, 9, 10, 11, 12, 13, 14, 15} /\ opcode = 16 + c
    BY <1>1, <1>3
  <2>3. e.body = CASE c \in {2, 11} -> "NOP" [] c = 6 -> "LBRANCH" [] c = 7 -> "LBSR"
                   [] c = 8 -> "X18" [] c = 9 -> "DAA" [] c = 10 -> "ORCC" [] c = 12 -> "ANDCC"
                   [] c = 13 -> "SEX" [] c = 14 -> "EXG" [] c = 15 -> "TFR"
    BY <2>1, <2>2 DEF Row1Entry, Entry
  <2> HIDE DEF e, c
  <2> QED BY <2>2, <2>3 DEF Placed, Usual, e
<1>4. CASE r = 2
  <2>1. e.body = "BRANCH"
    BY <1>4 DEF Page1, Entry
  <2> QED BY <1>4, <2>1 DEF Placed
<1>5. CASE r = 3
  <2>1. e = Row3Entry(opcode)
    BY <1>5 DEF Page1
  <2>2. c \in {0, 1, 2, 3, 4, 5, 6, 7, 8, 9, 10, 11, 13, 14, 15} /\ opcode = 48 + c
    BY <1>1, <1>5
  <2>3. e.body = CASE c \in {0, 1} -> "LEA_xy" [] c \in {2, 3} -> "LEA_us" [] c = 4 -> "PSHS"
                   [] c = 5 -> "PULS" [] c = 6 -> "PSHU" [] c = 7 -> "PULU" [] c = 8 -> "XANDCC"
                   [] c = 9 -> "RTS" [] c = 10 -> "ABX" [] c = 11 -> "RTI" [] c = 13 -> "MUL"
                   [] c = 14 -> "XRES" [] c = 15 -> "SWI"
    BY <2>1, <2>2 DEF Row3Entry, Entry
  <2> HIDE DEF e, c
  <2> QED BY <2>2, <2>3 DEF Placed, Usual, e
<1>6. CASE r >= 8
  <2>1. e = AccumulatorEntry(opcode)
    BY <1>1, <1>6 DEF Page1
  <2>2. CASE c \notin {3, 12, 13, 14, 15}
    <3>1. c \in {0, 1, 2, 4, 5, 6, 7, 8, 9, 10, 11}
      BY <1>1, <2>2
    <3>2. e.body \in Alu8Ops \cup {"ST8", "XST8"}
      BY <2>1, <3>1 DEF AccumulatorEntry, Entry, Alu8Ops
    <3> HIDE DEF e
    <3> QED BY <3>2 DEF Placed, Usual, e
  <2>3. CASE c \in {3, 12, 14}
    <3>1. e.body \in Alu16Ops
      BY <2>1, <2>3 DEF AccumulatorEntry, Entry, Alu16Ops
    <3> HIDE DEF e
    <3> QED BY <3>1 DEF Placed, Usual, e
  <2>4. CASE c = 15
    <3>1. e.body = IF r % 4 = 0 THEN "XST16" ELSE "ST16"
      BY <2>1, <2>4 DEF AccumulatorEntry, Entry, Store16
    <3>2. r % 4 = 0 => r \in {8, 12}
      BY <1>1, <1>6
    <3> HIDE DEF e
    <3> QED BY <2>4, <3>1, <3>2 DEF Placed, Usual, e
  <2>5. CASE c = 13
    <3>1. e.body = IF r % 4 = 0 THEN IF r < 12 THEN "BSR" ELSE "FREERUN"
                   ELSE IF r < 12 THEN "JSR" ELSE "ST16"
      BY <2>1, <2>5 DEF AccumulatorEntry, Entry
    <3>2. /\ r % 4 = 0 => r = 8 /\ opcode = 141
          /\ r % 4 # 0 /\ r < 12 => opcode \in {157, 173, 189}
      <4>1. r \in {8, 9, 10, 11, 12, 13, 14, 15}
        BY <1>1, <1>6
      <4> QED BY <1>1, <2>5, <4>1
    <3> HIDE DEF e
    <3> QED BY <3>1, <3>2 DEF Placed, Usual, e
  <2> QED BY <1>1, <2>2, <2>3, <2>4, <2>5
<1> QED BY <1>1, <1>2, <1>3, <1>4, <1>5, <1>6

LEMMA PrefixedPlaced ==
  ASSUME NEW prefix \in {16, 17}, NEW opcode, <<prefix, opcode>> \in Listed
  PROVE  Placed(prefix, opcode, EntryOf(prefix, opcode).body)
<1> DEFINE e == EntryOf(prefix, opcode)
<1>1. CASE prefix = 16 /\ opcode \in 32..47
  <2>1. \A k \in QuadFirsts : opcode \notin Quad(k)
    BY <1>1, QuadsApart
  <2>2. e.body = "LBRANCH"
    BY <1>1, <2>1 DEF EntryOf, Page10, QuadFirsts, Entry
  <2>3. Row(opcode) = 2
    BY <1>1 DEF Row
  <2> QED BY <1>1, <2>2, <2>3 DEF Placed, e
<1>2. CASE opcode \in {62, 63}
  <2>1. \A k \in QuadFirsts : opcode \notin Quad(k)
    BY <1>2, QuadsApart
  <2>2. e.body \in {"SWI2", "SWI3", "XSWI2", "XFIRQ"}
    <3>1. CASE prefix = 16
      BY <1>2, <2>1, <3>1 DEF EntryOf, Page10, QuadFirsts, Entry
    <3>2. CASE prefix = 17
      BY <1>2, <2>1, <3>2 DEF EntryOf, Page11, QuadFirsts, Entry
    <3> QED BY <3>1, <3>2
  <2> QED BY <1>2, <2>2 DEF Placed, e
<1>3. CASE opcode \in {135, 199, 143, 207}
  <2>1. Row(opcode) \in {8, 12} /\ Row(opcode) % 4 = 0
        /\ Col(opcode) = IF opcode \in {135, 199} THEN 7 ELSE 15
    BY <1>3 DEF Row, Col
  <2>2. e.body = IF opcode \in {135, 199} THEN "XST8" ELSE "XST16"
    <3>1. QuadAddr(opcode) = "imm" /\ Store16(opcode) = "XST16"
      BY <2>1 DEF QuadAddr, Store16
    <3> QED BY <1>3, <3>1, QuadSets DEF EntryOf, Page10, Page11, Entry
  <2> QED BY <1>3, <2>1, <2>2 DEF Placed, Usual, e
<1>4. ASSUME NEW k \in QuadFirsts, prefix = 17 => k \in {131, 140, 195}, opcode \in Quad(k)
      PROVE  Placed(prefix, opcode, e.body)
  <2>1. opcode \in Byte /\ Col(opcode) = Column(k) /\ Row(opcode) >= 8
    BY <1>4, QuadPlaces
  <2>2. CASE prefix = 17
    <3>1. e = Page11(opcode) /\ opcode \in Quad(131) \cup Quad(140) \cup Quad(195)
      BY <1>4, <2>2 DEF EntryOf
    <3>2. e.body \in {"CMP16", "XADD16"}
      BY <3>1, Page11Quads
    <3> QED BY <3>2 DEF Placed, Usual, Alu16Ops, e
  <2>3. CASE prefix = 16
    <3>1. e = Page10(opcode)
      BY <2>3 DEF EntryOf
    <3> HIDE DEF e
    <3>2. CASE k \in {131, 140, 142, 195, 206}
      <4>1. e.body \in Alu16Ops
        BY <1>4, <3>1, <3>2, Page10Quads DEF Alu16Ops
      <4> QED BY <4>1 DEF Placed, Usual, e
    <3>3. CASE k \in {143, 207}
      <4>1. e.body = IF Row(opcode) % 4 = 0 THEN "XST16" ELSE "ST16"
        BY <1>4, <3>1, <3>3, Page10Quads DEF Store16
      <4>2. Col(opcode) = 15 /\ (Row(opcode) % 4 = 0 => Row(opcode) \in {8, 12})
        BY <2>1, <3>3, HighRows DEF Column
      <4> QED BY <4>1, <4>2 DEF Placed, Usual, e
    <3> QED BY <3>2, <3>3 DEF QuadFirsts
  <2> QED BY <2>2, <2>3
<1> HIDE DEF e
<1> QED BY <1>1, <1>2, <1>3, <1>4, Keys DEF QuadFirsts, e

LEMMA ListedPlaced ==
  ASSUME NEW prefix, NEW opcode, <<prefix, opcode>> \in Listed
  PROVE  Placed(prefix, opcode, EntryOf(prefix, opcode).body)
<1>1. CASE prefix = 0 /\ opcode \in Byte \ {16, 17, 19, 20, 21, 60, 205}
  BY <1>1, Page1Placed DEF EntryOf
<1>2. CASE prefix \in {16, 17}
  BY <1>2, PrefixedPlaced
<1> QED BY <1>1, <1>2, Keys

-----------------------------------------------------------------------------
(***************************************************************************)
(* The state machine of a test.                                            *)
(***************************************************************************)
\* Where the second call of execute_one() can be.
Second == WithOperand \cup AfterPush
            \cup {"SYNC_WAIT", "GOTO_SUBROUTINE", "INTERRUPT_VECTOR", "idle"}

Verdicts == {"running", "ok", "did not terminate", "free run", "cycle range",
             "first access", "second access", "datasheet", "cycle list length"}

CallsOK ==
  /\ calls \in {0, 1, 2}
  /\ calls = 0 => at = "idle" /\ stack = <<>>
  /\ calls = 2 => at \in Second /\ stack = <<>>

IInv == CoreInv /\ CallsOK /\ verdict \in Verdicts

-----------------------------------------------------------------------------
LEMMA ListedTyped == \A p, op : <<p, op>> \in Listed => p \in Byte /\ op \in Byte
<1> SUFFICES ASSUME NEW p, NEW op, <<p, op>> \in Listed PROVE p \in Byte /\ op \in Byte
  OBVIOUS
<1>1. p \in Pages
  BY DEF Listed, Pages
<1>2. \/ op \in Byte \/ op \in \h20..\h2F
      \/ op \in {\h3E, \h3F, \h87, \h8F, \hC7, \hCF}
      \/ \E q \in {\h83, \h8C, \h8E, \hC3, \hCE, \h8F, \hCF} : op \in Quad(q)
  BY DEF Listed
<1> QED BY <1>1, <1>2, ByteIs DEF Pages, Quad

LEMMA OneOrTwo == \A n \in {1, 2} : \A k \in 1..n : k \in {1, 2}
  OBVIOUS

LEMMA LoadedTyped == \A t \in Tests : MemOK(Loaded(t))
<1> SUFFICES ASSUME NEW t \in Tests PROVE MemOK(Loaded(t))
  OBVIOUS
<1> DEFINE code == Code(t)
           pc == t.reg["pc"]
           span == {ToWord(pc + k - 1) : k \in DOMAIN code}
<1>1. /\ t.prefix \in Byte /\ t.opcode \in Byte /\ pc \in Word
      /\ DOMAIN t.ram \subseteq Word /\ \A a \in DOMAIN t.ram : t.ram[a] \in Byte
  BY TestsAssumption, ListedTyped DEF Registers, Reg16
<1>2. code \in Seq(Byte) /\ Len(code) \in {1, 2}
  <2>1. CASE t.prefix = \h00
    BY <1>1, <2>1 DEF Code
  <2>2. CASE t.prefix # \h00
    BY <1>1, <2>2 DEF Code
  <2> QED BY <2>1, <2>2
<1>3. DOMAIN Loaded(t) = DOMAIN t.ram \cup span
  BY DEF Loaded
<1>4. \A a \in DOMAIN Loaded(t) :
        Loaded(t)[a] = IF a \in span THEN code[1 + ToWord(a - pc)] ELSE t.ram[a]
  BY DEF Loaded
<1> HIDE DEF code, pc
<1>5. DOMAIN code = 1..Len(code)
  BY <1>2
<1>6. span \subseteq Word
  BY <1>1, <1>2, <1>5, ToWordTyped, WordIs
<1>7. ASSUME NEW a \in span PROVE code[1 + ToWord(a - pc)] \in Byte
  <2>1. PICK k \in 1..Len(code) : a = ToWord(pc + k - 1)
    BY <1>5, <1>7
  <2>2. k \in {1, 2} /\ pc \in Int /\ 0 <= pc /\ pc <= 65535
    <3>1. k \in {1, 2}
      BY <1>2, OneOrTwo
    <3> QED BY <1>1, <3>1, WordIs
  <2>3. ToWord(a - pc) = k - 1
    <3>1. a = pc + k - 1 \/ a = pc + k - 1 - 65536
      BY <2>1, <2>2 DEF ToWord
    <3>2. a - pc = k - 1 \/ a - pc = k - 1 - 65536
      BY <2>2, <3>1
    <3>3. (k - 1) % 65536 = k - 1 /\ (k - 1 - 65536) % 65536 = k - 1
      BY <2>2
    <3> QED BY <3>2, <3>3 DEF ToWord
  <2> QED BY <1>2, <2>1, <2>2, <2>3
<1> HIDE DEF span
<1> QED BY <1>1, <1>3, <1>4, <1>6, <1>7 DEF MemOK

LEMMA GenInitOK == GenInit => IInv
<1> SUFFICES ASSUME GenInit PROVE IInv
  OBVIOUS
<1>1. /\ test \in Tests /\ reg = test.reg /\ cc = test.cc /\ lds = FALSE /\ line = {}
      /\ mem = Loaded(test) /\ bus = <<>> /\ icount = InitialIcount /\ ea = 0
      /\ mode = "imm" /\ regop = "none" /\ temp = 0 /\ cond = FALSE /\ freeRun = FALSE
      /\ at = "idle" /\ stack = <<>> /\ calls = 0 /\ verdict = "running"
  BY DEF GenInit
<1>2. RegOK(reg) /\ cc \in SUBSET Flags
  BY <1>1, TestsAssumption DEF RegOK
<1>3. MemOK(mem)
  BY <1>1, LoadedTyped
<1>4. ea \in Word /\ temp \in Byte /\ icount \in Int
  BY <1>1, ByteIs, WordIs DEF InitialIcount
<1>5. DataOK
  <2>1. lds \in BOOLEAN /\ cond \in BOOLEAN /\ freeRun \in BOOLEAN /\ line \in SUBSET Lines
    BY <1>1
  <2>2. bus \in Seq(AccessType)
    BY <1>1
  <2> QED BY <1>2, <1>3, <1>4, <2>1, <2>2 DEF DataOK
<1>6. StackDiscipline /\ OperandsLatched /\ Waiting
  BY <1>1 DEF StackDiscipline, OperandsLatched, Waiting, Calls, RmwOps, Alu8Ops, Alu16Ops
<1>7. ControlOK
  BY <1>1, <1>6 DEF ControlOK
<1>8. CallsOK /\ verdict \in Verdicts
  BY <1>1 DEF CallsOK, Verdicts
<1> QED BY <1>5, <1>7, <1>8 DEF CoreInv, IInv

-----------------------------------------------------------------------------
LEMMA NotIdle == Instruction => at # "idle"
  BY DEF Instruction, MAIN, DISPATCH01, DISPATCH10, DISPATCH11, DIRECT, EXTENDED, INDEXED,
         ReadModifyWrite, RmwOps, XNC8, TST8, JMP, Accumulate8, Alu8Ops, Accumulate16,
         Alu16Ops, ST8, ST16, XST8, XST16, LEA_xy, LEA_us, NOP, DAA, SEX, ABX, MUL, ORCC,
         ANDCC, XANDCC, X18, FREERUN, EXG, TFR, BRANCH, LBRANCH, BSR, LBSR, JSR,
         GOTO_SUBROUTINE, PUSH_REGISTERS, PULL_REGISTERS, PSHS, PSHU, Push, PULS, PULU,
         Pull, RTS, RTI, SharedSoftwareInterrupt, SoftwareInterrupt,
         SoftwareInterrupts, DocumentedSwi, SWI_PUSHED,
         PUSHED, INTERRUPT_VECTOR

\* Every label of the second call ends the instruction, or jumps to one that does.
LEMMA SecondStays ==
  ASSUME at \in Second, stack = <<>>, Instruction
  PROVE  at' \in Second /\ stack' = <<>>
<1>1. at \in WithOperand \cup {"SWI_PUSHED", "PUSHED", "CWAI_WAIT", "SYNC_WAIT",
                             "NMI_PUSHED", "FIRQ_PUSHED", "IRQ_PUSHED",
                             "GOTO_SUBROUTINE", "INTERRUPT_VECTOR"}
  BY NotIdle DEF Second, AfterPush
<1>2. ~(\/ MAIN \/ DISPATCH01 \/ DISPATCH10 \/ DISPATCH11 \/ DIRECT \/ EXTENDED \/ INDEXED
        \/ XST8 \/ XST16 \/ NOP \/ DAA \/ SEX \/ ABX \/ MUL \/ ORCC \/ ANDCC \/ XANDCC
        \/ X18 \/ FREERUN \/ EXG \/ TFR)
  BY <1>1
     DEF WithOperand, RmwOps, Alu8Ops, Alu16Ops, MAIN, DISPATCH01, DISPATCH10, DISPATCH11,
         DIRECT, EXTENDED, INDEXED, XST8, XST16, NOP, DAA, SEX, ABX, MUL, ORCC, ANDCC,
         XANDCC, X18, FREERUN, EXG, TFR
<1>3. ~(\/ BRANCH \/ LBRANCH \/ BSR \/ LBSR \/ PUSH_REGISTERS \/ PULL_REGISTERS
        \/ PSHS \/ PSHU \/ PULS \/ PULU \/ RTS \/ RTI \/ SharedSoftwareInterrupt
        \/ SoftwareInterrupt)
  BY <1>1
     DEF WithOperand, RmwOps, Alu8Ops, Alu16Ops, BRANCH, LBRANCH, BSR, LBSR,
         PUSH_REGISTERS, PULL_REGISTERS, PSHS, PSHU, Push, PULS, PULU, Pull, RTS, RTI,
         SharedSoftwareInterrupt, SoftwareInterrupt,
         SoftwareInterrupts, DocumentedSwi
<1>4. \/ ReadModifyWrite \/ XNC8 \/ TST8 \/ JMP \/ Accumulate8 \/ Accumulate16
      \/ ST8 \/ ST16 \/ LEA_xy \/ LEA_us \/ GOTO_SUBROUTINE \/ INTERRUPT_VECTOR
      \/ JSR \/ SWI_PUSHED \/ PUSHED
  BY <1>2, <1>3 DEF Instruction
<1>5. \E l \in {"idle", "COM8", "NEG8", "GOTO_SUBROUTINE", "INTERRUPT_VECTOR"} : Goto(l)
  <2>1. \/ Return \/ Goto("COM8") \/ Goto("NEG8")
        \/ Goto("GOTO_SUBROUTINE") \/ Goto("INTERRUPT_VECTOR")
    BY <1>4
       DEF ReadModifyWrite, XNC8, TST8, JMP, Accumulate8, Accumulate16, ST8, ST16, LEA_xy,
           LEA_us, GOTO_SUBROUTINE, INTERRUPT_VECTOR, JSR, SWI_PUSHED, PUSHED
  <2> QED BY <2>1 DEF Return
<1> QED BY <1>5 DEF Goto, Second, WithOperand, RmwOps

LEMMA ExecuteOK == IInv /\ Execute => IInv'
<1> SUFFICES ASSUME IInv, Execute PROVE IInv'
  OBVIOUS
<1>1. /\ calls = 0 \/ stack # <<>>
      /\ ExecuteOne /\ calls' = calls + 1 /\ verdict' = verdict
  BY DEF Execute
<1>2. CoreInv'
  BY <1>1, ExecuteOneOK DEF IInv
<1>3. CASE calls = 0
  BY <1>1, <1>2, <1>3 DEF IInv, CallsOK
<1>4. CASE calls # 0
  <2>1. calls = 1 /\ stack # <<>>
    BY <1>1, <1>4 DEF IInv, CallsOK
  <2>2. PICK l \in WithOperand \cup AfterPush \cup {"SYNC_WAIT"} : stack = <<l>>
    BY <2>1 DEF IInv, CoreInv, ControlOK, StackDiscipline
  <2>3. at' = l /\ stack' = <<>>
    BY <1>1, <2>2 DEF ExecuteOne
  <2>4. calls' = 2 /\ at' \in Second
    BY <1>1, <2>1, <2>3 DEF Second
  <2> QED BY <1>1, <1>2, <2>3, <2>4 DEF IInv, CallsOK
<1> QED BY <1>3, <1>4

LEMMA StepOK == IInv /\ Step => IInv'
<1> SUFFICES ASSUME IInv, Step PROVE IInv'
  OBVIOUS
<1>1. Instruction /\ calls' = calls /\ verdict' = verdict
  BY DEF Step, genVars
<1>2. CoreInv'
  BY <1>1, InstructionOK DEF IInv
<1>3. calls # 0
  BY <1>1, NotIdle DEF IInv, CallsOK
<1>4. calls = 2 => at' \in Second /\ stack' = <<>>
  BY <1>1, SecondStays DEF IInv, CallsOK
<1> QED BY <1>1, <1>2, <1>3, <1>4 DEF IInv, CallsOK

LEMMA Unchanged == IInv /\ UNCHANGED <<coreVars, calls, verdict>> => IInv'
<1> SUFFICES ASSUME IInv, UNCHANGED <<coreVars, calls, verdict>> PROVE IInv'
  OBVIOUS
<1>1. DataOK'
  BY DEF IInv, CoreInv, DataOK, MemOK, RegOK, coreVars, latches
<1>2. ControlOK'
  BY DEF IInv, CoreInv, ControlOK, StackDiscipline, OperandsLatched, Waiting,
         RegisterLatched, coreVars, latches
<1>3. CallsOK' /\ verdict' \in Verdicts
  BY DEF IInv, CallsOK, coreVars
<1> QED BY <1>1, <1>2, <1>3 DEF IInv, CoreInv

LEMMA FinishOK == IInv /\ Finish => IInv'
<1> SUFFICES ASSUME IInv, Finish PROVE IInv'
  OBVIOUS
<1>1. verdict' \in Verdicts
  BY DEF Finish, Verdict, Verdicts
<1>2. DataOK'
  BY DEF Finish, IInv, CoreInv, DataOK, MemOK, RegOK, coreVars, latches
<1>3. ControlOK'
  BY DEF Finish, IInv, CoreInv, ControlOK, StackDiscipline, OperandsLatched, Waiting,
         RegisterLatched, coreVars, latches
<1>4. CallsOK'
  BY DEF Finish, IInv, CallsOK, coreVars
<1> QED BY <1>1, <1>2, <1>3, <1>4 DEF IInv, CoreInv

LEMMA NextOK == IInv /\ [Next]_vars => IInv'
<1> SUFFICES ASSUME IInv, [Next]_vars PROVE IInv'
  OBVIOUS
<1>1. CASE Next
  BY <1>1, ExecuteOK, StepOK, FinishOK DEF Next
<1>2. CASE UNCHANGED vars
  BY <1>2, Unchanged DEF vars, genVars
<1> QED BY <1>1, <1>2

LEMMA Inductive == Spec => []IInv
  BY GenInitOK, NextOK, PTL DEF Spec

-----------------------------------------------------------------------------
(***************************************************************************)
(* Every register, flag, latch and logged access of the core stays within  *)
(* its width, and every label that is reached is one of the core's.        *)
(***************************************************************************)
THEOREM TypeCorrect == Spec => []TypeOK
<1>1. IInv => TypeOK
  <2>1. IInv => CoreTypeOK
    BY CoreInvImplies DEF IInv
  <2>2. IInv => calls \in 0..(MaxCalls + 1)
    BY DEF IInv, CallsOK, MaxCalls
  <2> QED BY <2>1, <2>2 DEF IInv, TypeOK, Verdicts
<1> QED BY <1>1, Inductive, PTL

(***************************************************************************)
(* push_state() never meets a full state stack, and the label that it      *)
(* saved is one that the label running now was called for.                 *)
(***************************************************************************)
THEOREM StackNeverOverflows == Spec => []StackDiscipline
<1>1. IInv => StackDiscipline
  BY CoreInvImplies DEF IInv
<1> QED BY <1>1, Inductive, PTL

(***************************************************************************)
(* The asserts and fatal errors behind m_regop and m_addressing_mode are   *)
(* out of reach, also where the operand was latched a call earlier.        *)
(***************************************************************************)
THEOREM LatchesAreFresh == Spec => []OperandsLatched
<1>1. IInv => OperandsLatched
  BY CoreInvImplies DEF IInv
<1> QED BY <1>1, Inductive, PTL

(***************************************************************************)
(* The loop of generate_test ends after two calls of execute_one() at the  *)
(* latest, on every state of every instruction it is given.                *)
(***************************************************************************)
THEOREM TwoCallsSuffice == Spec => []AtMostTwoCalls
<1>1. IInv => AtMostTwoCalls
  BY DEF IInv, CallsOK, AtMostTwoCalls
<1> QED BY <1>1, Inductive, PTL

-----------------------------------------------------------------------------
(***************************************************************************)
(* The invariant of a test.  Until the first label behind the dispatch has *)
(* run, the machine is the one that was set up but for what was fetched;   *)
(* from then on the code has been fetched, and what was counted and what   *)
(* is still ahead make up the cycles of the instruction.                   *)
(***************************************************************************)
E == EntryOf(test.prefix, test.opcode)

Head1 == Opening(test.prefix)

Taken == test.opcode = \h16 \/ (Row(test.opcode) = 2 /\ BranchCond(Col(test.opcode), test.cc))

TestCycles ==
  CoreCycles(test.prefix, test.opcode, OperandByte, Taken, Pristine(test.reg["s"]))

CodeFetches == IF E.body = "XST16" THEN InstructionLength - 1 ELSE InstructionLength

\* The idle cycle of XANDCC, in front of access k.
Lost(k) == IF E.body = "XANDCC" /\ k > 1 THEN 1 ELSE 0

\* The first n accesses fetch the first n bytes of the code, and no others do.
Log(n) ==
  /\ n \in 0..Len(bus)
  /\ \A k \in 1..Len(bus) :
       /\ k <= n => /\ bus[k].role \in Fetches /\ ~bus[k].write
                    /\ bus[k].address = StartPC(k - 1)
                    /\ bus[k].data = Pristine(StartPC(k - 1))
       /\ k > n => bus[k].role \notin Fetches
       /\ bus[k].icount = InitialIcount - k - Lost(k)

\* With the first n bytes of the code fetched and nothing else done.
Opened(n) ==
  /\ reg = [test.reg EXCEPT !["pc"] = StartPC(n)]
  /\ mem = Loaded(test) /\ Len(bus) = n

AtStart == /\ at \in {"idle", "MAIN", "DISPATCH01"} /\ (at = "idle" <=> calls = 0)
           /\ Opened(0) /\ stack = <<>> /\ cc = test.cc /\ icount = InitialIcount

AtPage == /\ test.prefix # \h00
          /\ at = (IF test.prefix = \h10 THEN "DISPATCH10" ELSE "DISPATCH11")
          /\ Opened(1) /\ stack = <<>> /\ cc = test.cc /\ Log(1) /\ icount = InitialIcount - 1

\* The opcode is dispatched.
AtCode ==
  /\ IF Addressed(E) THEN at = E.addr /\ stack = <<E.body>> ELSE at = E.body /\ stack = <<>>
  /\ Opened(Head1) /\ Log(Head1) /\ icount = InitialIcount - Head1
  /\ E.addr \notin Calls \cup {"-"} => mode = E.addr
  /\ E.body = "LBRANCH" => cond = Taken

\* XANDCC has had its idle cycle.
AtMask ==
  /\ E.body = "XANDCC" /\ at = "ANDCC" /\ stack = <<>>
  /\ Opened(1) /\ Log(1) /\ icount = InitialIcount - 2

\* The labels that e.body can lead to within its instruction.
Late(body) ==
  CASE body = "XNC8" -> {"COM8", "NEG8"}
    [] body \in {"BSR", "LBSR", "JSR"} -> {"GOTO_SUBROUTINE"}
    [] body \in {"PSHS", "PSHU"} -> {"PUSH_REGISTERS"}
    [] body \in {"PULS", "PULU", "RTS", "RTI"} -> {"PULL_REGISTERS"}
    [] body \in SoftwareLabels ->
         {"SOFTWARE_INTERRUPT", "SWI_PUSHED", "PUSHED", "INTERRUPT_VECTOR"}
    [] OTHER -> {}

Path ==
  \/ Addressed(E) /\ mode = "ea" /\ at = "idle" /\ stack = <<E.body>>
  \/ Addressed(E) /\ mode = "ea" /\ at = E.body /\ stack = <<>>
  \/ at \in Late(E.body) /\ stack = <<>>
  \/ /\ E.body \in SoftwareLabels /\ stack \in {<<"SWI_PUSHED">>, <<"PUSHED">>}
     /\ at = "idle" \/ (at = "PUSH_REGISTERS" /\ regop = "s" /\ temp = EntireState)
  \/ at = "idle" /\ stack = <<>>

Busy == at # "idle" \/ stack # <<>>

\* A software interrupt has pushed the registers.
Saved == E.body \in SoftwareLabels
           /\ at \in {"SWI_PUSHED", "PUSHED", "INTERRUPT_VECTOR", "idle"}

\* The instructions that go on behind themselves.
Straight ==
  /\ E.body \notin {"BRANCH", "LBRANCH", "JMP", "RTS", "RTI", "BSR", "LBSR", "JSR"}
                     \cup SoftwareLabels
  /\ E.body \in {"PULS", "PULU"} => ~Has(OperandByte, \h80)
  /\ E.body = "EXG" => 5 \notin {Row(OperandByte), Col(OperandByte)}
  /\ E.body = "TFR" => Col(OperandByte) # 5

Behind1 == StartPC(InstructionLength)

Landed ==
  /\ E.body \in {"BSR", "LBSR", "JSR"} => WordAt(reg["s"]) = Behind1
  /\ Straight => reg["pc"] = Behind1

Onward ==
  /\ calls # 0 /\ Path
  /\ icount + TestCycles = InitialIcount + Ahead + WaitingCycles
  /\ Log(CodeFetches)
  /\ icount = InitialIcount - Len(bus) - Lost(2)
  /\ E.body \in {"PULS", "PULU"} /\ at = "PULL_REGISTERS" => temp = OperandByte
  /\ Saved => WordAt(reg["s"] + 10) = Behind1
  /\ IF Busy THEN reg["pc"] = Behind1 ELSE Landed

Calm == line = {} /\ freeRun = FALSE

TestInv == test \in Tests /\ Calm /\ (AtStart \/ AtPage \/ AtCode \/ AtMask \/ Onward)

-----------------------------------------------------------------------------
LEMMA InstructionTyped == test \in Tests => test.prefix \in Pages /\ test.opcode \in Byte
<1> SUFFICES ASSUME test \in Tests PROVE test.prefix \in Pages /\ test.opcode \in Byte
  OBVIOUS
<1>1. <<test.prefix, test.opcode>> \in Listed
  BY TestsAssumption
<1>2. test.prefix \in Pages
  BY <1>1 DEF Listed, Pages
<1>3. test.opcode \in Byte
  BY <1>1, ListedTyped
<1> QED BY <1>2, <1>3

LEMMA StartTyped == test \in Tests => RegOK(test.reg) /\ test.cc \in SUBSET Flags
  BY TestsAssumption DEF RegOK

LEMMA StartPCTyped == test \in Tests => test.reg["pc"] \in Int
<1>1. test \in Tests => test.reg \in [Registers -> Word]
  BY StartTyped, Zenon DEF RegOK
<1>2. "pc" \in Registers
  BY DEF Registers, Reg16
<1>3. test \in Tests => test.reg["pc"] \in Word
  BY <1>1, <1>2, Zenon
<1>4. \A v : v \in Word => v \in Int
  BY WordIs
<1> QED BY <1>3, <1>4, Zenon

LEMMA PristineTyped ==
  ASSUME test \in Tests
  PROVE  /\ \A i \in Int : StartPC(i) \in Word
         /\ \A a \in Word : Pristine(a) \in Byte
         /\ OperandByte \in Byte
<1>1. test.reg["pc"] \in Int
  BY StartPCTyped, Zenon
<1>2. ASSUME NEW i \in Int PROVE StartPC(i) \in Word
  <2>1. test.reg["pc"] + i \in Int
    BY <1>1
  <2> QED BY <2>1, ToWordTyped DEF StartPC
<1>3. ASSUME NEW a \in Word PROVE Pristine(a) \in Byte
  <2>1. MemOK(Loaded(test))
    BY LoadedTyped
  <2> QED BY <2>1, BackgroundAssumption DEF Pristine, MemOK
<1>4. OperandByte \in Byte
  <2>1. PrefixLength(test) + 1 \in Int
    BY DEF PrefixLength
  <2> QED BY <1>2, <1>3, <2>1 DEF OperandByte
<1> QED BY <1>2, <1>3, <1>4

LEMMA PeekPristine ==
  ASSUME mem = Loaded(test)
  PROVE  \A a : Peek(a) = Pristine(a)
  BY DEF Peek, Pristine

LEMMA StepsAlong ==
  ASSUME test \in Tests, NEW n \in Int, NEW k \in Int, reg["pc"] = StartPC(n)
  PROVE  PC(k) = StartPC(n + k)
<1>1. test.reg["pc"] \in Int
  BY StartPCTyped, Zenon
<1>2. (((test.reg["pc"] + n) % 65536) + k) % 65536 = (test.reg["pc"] + (n + k)) % 65536
  BY <1>1
<1> QED BY <1>2 DEF PC, StartPC, ToWord

\* Where the machine is while only code was fetched.
LEMMA OpenedAt ==
  ASSUME test \in Tests, NEW n \in Int, Opened(n)
  PROVE  /\ reg["pc"] = StartPC(n) /\ \A r \in Registers \ {"pc"} : reg[r] = test.reg[r]
         /\ \A k \in Int : PC(k) = StartPC(n + k)
         /\ \A a : Peek(a) = Pristine(a)
<1>1. "pc" \in Registers /\ DOMAIN test.reg = Registers
  <2>1. test.reg \in [Registers -> Word]
    BY StartTyped DEF RegOK
  <2> QED BY <2>1 DEF Registers, Reg16
<1>2. reg = [test.reg EXCEPT !["pc"] = StartPC(n)] /\ mem = Loaded(test)
  BY DEF Opened
<1>3. reg["pc"] = StartPC(n) /\ \A r \in Registers \ {"pc"} : reg[r] = test.reg[r]
  BY <1>1, <1>2
<1> QED BY <1>2, <1>3, StepsAlong, PeekPristine

(***************************************************************************)
(* The log grows by the step of a label that fetches only while it is      *)
(* contiguous.                                                             *)
(***************************************************************************)
LEMMA MovesTyped ==
  ASSUME DataOK, NEW m, NEW f, Moves(m, f)
  PROVE  /\ m \in Nat /\ f \in 0..m
         /\ Len(bus) \in Nat /\ Len(bus') = Len(bus) + m /\ icount' = icount - m
         /\ \A k \in 1..Len(bus) : bus'[k] = bus[k]
         /\ \A k \in 1..m :
              LET x == bus'[Len(bus) + k]
              IN  /\ x.icount = icount - k
                  /\ k > f => x.role \notin Fetches
                  /\ k <= f => /\ x.role \in Fetches /\ ~x.write
                               /\ x.address = PC(k - 1) /\ x.data = Peek(PC(k - 1))
<1>1. PICK p, q, r, w : /\ p \in Nat /\ q \in Nat /\ m = p + q
                        /\ Reads(r, p, f) /\ Writes(w, q) /\ Bus(r \o w)
  BY DEF Moves
<1> DEFINE s == r \o w
           a == [k \in DOMAIN s |-> [write |-> s[k].write, address |-> s[k].address,
                                     data |-> s[k].data, role |-> s[k].role,
                                     icount |-> icount - k]]
<1>2. r \in Seq(ReadAccess) /\ Len(r) = p /\ f \in 0..p /\ w \in Seq(WriteAccess) /\ Len(w) = q
  BY <1>1 DEF Reads, Writes
<1>3. s \in Seq(ReadAccess \cup WriteAccess) /\ Len(s) = m
  BY <1>1, <1>2
<1>4. bus' = bus \o a /\ icount' = icount - Len(s)
  BY <1>1 DEF Bus
<1>5. bus \in Seq(AccessType) /\ icount \in Int
  BY DEF DataOK
<1>6. \A k \in 1..p : s[k] = r[k]
  BY <1>2
<1>7. \A k \in 1..q : s[p + k] = w[k]
  BY <1>2
<1> HIDE DEF s
<1>8. DOMAIN s = 1..m
  BY <1>3
<1>9. a \in Seq({a[k] : k \in 1..m}) /\ Len(a) = m
  BY <1>1, <1>8
<1>10. /\ \A k \in 1..m : /\ a[k].write = s[k].write /\ a[k].address = s[k].address
                          /\ a[k].data = s[k].data /\ a[k].role = s[k].role
                          /\ a[k].icount = icount - k
  BY <1>8
<1> HIDE DEF a
<1>11. Len(bus) \in Nat /\ Len(bus') = Len(bus) + m
  <2>1. Len(bus \o a) = Len(bus) + Len(a)
    BY <1>5, <1>9
  <2> QED BY <1>4, <1>5, <1>9, <2>1
<1>12. \A k \in 1..Len(bus) : bus'[k] = bus[k]
  BY <1>4, <1>5, <1>9
<1>13. \A k \in 1..m : bus'[Len(bus) + k] = a[k]
  BY <1>4, <1>5, <1>9
<1>14. ASSUME NEW k \in 1..m
       PROVE  /\ a[k].icount = icount - k
              /\ k > f => a[k].role \notin Fetches
              /\ k <= f => /\ a[k].role \in Fetches /\ ~a[k].write
                           /\ a[k].address = PC(k - 1) /\ a[k].data = Peek(PC(k - 1))
  <2>1. CASE k <= p
    <3>1. k \in 1..p /\ s[k] = r[k]
      BY <1>1, <1>6, <2>1
    <3>2. /\ r[k].data = Peek(r[k].address)
          /\ k > f => r[k].role \notin Fetches
          /\ k <= f => r[k].role \in Fetches /\ r[k].address = PC(k - 1)
      BY <1>1, <3>1 DEF Reads
    <3>3. r[k] \in ReadAccess
      BY <1>2, <3>1
    <3>4. r[k].write = FALSE
      BY <3>3 DEF ReadAccess
    <3> QED BY <1>10, <3>1, <3>2, <3>4
  <2>2. CASE k > p
    <3>1. PICK j \in 1..q : k = p + j
      <4>1. k - p \in 1..q /\ k = p + (k - p)
        BY <1>1, <2>2
      <4> QED BY <4>1
    <3>2. s[k] = w[j] /\ w[j] \in WriteAccess
      BY <1>2, <1>7, <3>1
    <3>3. w[j].role = "data"
      BY <3>2 DEF WriteAccess
    <3>4. ~(k <= f)
      BY <1>1, <1>2, <2>2
    <3> QED BY <1>10, <3>2, <3>3, <3>4 DEF Fetches
  <2> QED BY <1>1, <2>1, <2>2
<1>15. m \in Nat /\ f \in 0..m
  BY <1>1, <1>2
<1>16. icount' = icount - m
  BY <1>3, <1>4
<1> QED BY <1>11, <1>12, <1>13, <1>14, <1>15, <1>16

\* The code is in memory where the test starts.
LEMMA LoadedCode ==
  ASSUME test \in Tests
  PROVE  /\ Pristine(StartPC(0)) = IF test.prefix = \h00 THEN test.opcode ELSE test.prefix
         /\ test.prefix # \h00 => Pristine(StartPC(1)) = test.opcode
<1> DEFINE code == Code(test)
           pc == test.reg["pc"]
           span == {ToWord(pc + k - 1) : k \in DOMAIN code}
<1>1. DOMAIN Loaded(test) = DOMAIN test.ram \cup span
  BY DEF Loaded
<1>2. \A a \in span : Loaded(test)[a] = code[1 + ToWord(a - pc)]
  BY <1>1 DEF Loaded
<1>3. \A a \in span : Pristine(a) = code[1 + ToWord(a - pc)]
  BY <1>1, <1>2, Zenon DEF Pristine
<1>4. pc \in Int /\ 0 <= pc /\ pc <= 65535
  <2>1. test \in Tests => test.reg \in [Registers -> Word]
    BY StartTyped, Zenon DEF RegOK
  <2>2. "pc" \in Registers
    BY DEF Registers, Reg16
  <2>3. pc \in Word
    BY <2>1, <2>2, Zenon
  <2> HIDE DEF pc
  <2> QED BY <2>3, WordIs
<1>5. code = IF test.prefix = \h00 THEN <<test.opcode>> ELSE <<test.prefix, test.opcode>>
  BY DEF Code
<1> HIDE DEF code, pc
<1>6. \A i \in {0, 1} : ToWord(ToWord(pc + i) - pc) = i
  <2> SUFFICES ASSUME NEW i \in {0, 1} PROVE ToWord(ToWord(pc + i) - pc) = i
    OBVIOUS
  <2>1. ToWord(pc + i) = pc + i \/ ToWord(pc + i) = pc + i - 65536
    BY <1>4 DEF ToWord
  <2>2. ToWord(pc + i) - pc = i \/ ToWord(pc + i) - pc = i - 65536
    BY <1>4, <2>1
  <2>3. ToWord(i) = i /\ ToWord(i - 65536) = i
    BY DEF ToWord
  <2> QED BY <2>2, <2>3
<1>7. StartPC(0) = ToWord(pc + 1 - 1) /\ StartPC(1) = ToWord(pc + 2 - 1)
  BY <1>4 DEF StartPC, pc
<1>8. 1 \in DOMAIN code /\ (test.prefix # \h00 => 2 \in DOMAIN code)
  BY <1>5
<1>9. StartPC(0) \in span /\ (test.prefix # \h00 => StartPC(1) \in span)
  BY <1>7, <1>8
<1> HIDE DEF span
<1>10. ToWord(StartPC(0) - pc) = 0 /\ ToWord(StartPC(1) - pc) = 1
  BY <1>4, <1>6, <1>7
<1>11. /\ Pristine(StartPC(0)) = code[1]
       /\ test.prefix # \h00 => Pristine(StartPC(1)) = code[2]
  BY <1>3, <1>9, <1>10
<1> QED BY <1>5, <1>11

\* The arguments of a test stay.
LEMMA TestKeeps ==
  ASSUME test' = test
  PROVE  /\ E' = E /\ Head1' = Head1 /\ TestCycles' = TestCycles /\ Taken' = Taken
         /\ OperandByte' = OperandByte /\ InstructionLength' = InstructionLength
         /\ CodeFetches' = CodeFetches /\ Behind1' = Behind1 /\ (Straight' <=> Straight)
         /\ \A k : Lost(k)' = Lost(k) /\ StartPC(k)' = StartPC(k) /\ Pristine(k)' = Pristine(k)
         /\ Loaded(test)' = Loaded(test)
<1>1. E' = E /\ Head1' = Head1 /\ Taken' = Taken
  BY DEF E, Head1, Taken
<1>2. /\ \A k : StartPC(k)' = StartPC(k) /\ Pristine(k)' = Pristine(k)
      /\ Loaded(test)' = Loaded(test)
  BY DEF StartPC, Pristine, Loaded
<1>3. OperandByte' = OperandByte
  BY <1>2 DEF OperandByte
<1>4. InstructionLength' = InstructionLength
  BY <1>3 DEF InstructionLength, TestMode
<1>5. CodeFetches' = CodeFetches /\ \A k : Lost(k)' = Lost(k)
  BY <1>1, <1>4 DEF CodeFetches, Lost
<1>6. TestCycles' = TestCycles
  BY <1>1, <1>2, <1>3 DEF TestCycles
<1>7. Behind1' = Behind1
  BY <1>2, <1>4 DEF Behind1
<1>8. Straight' <=> Straight
  BY <1>1, <1>3 DEF Straight
<1> QED BY <1>1, <1>2, <1>3, <1>4, <1>5, <1>6, <1>7, <1>8

(***************************************************************************)
(* The log grows by the step of a label: what it fetches while the log has *)
(* only fetches is the code, and what it does not fetch is behind them.    *)
(***************************************************************************)
LEMMA LogGrows ==
  ASSUME test \in Tests, DataOK, test' = test, NEW n \in Nat, Log(n),
         NEW m, NEW f, Moves(m, f),
         f # 0 => Len(bus) = n /\ reg["pc"] = StartPC(n) /\ mem = Loaded(test),
         NEW c \in Int, icount = InitialIcount - Len(bus) - c,
         \A k \in Nat : (k > Len(bus) /\ k <= Len(bus) + m) => Lost(k) = c
  PROVE  Log(n + f)' /\ (icount = InitialIcount - Len(bus) - c)'
<1> DEFINE z == Len(bus)
<1>1. /\ m \in Nat /\ f \in 0..m
      /\ z \in Nat /\ Len(bus') = z + m /\ icount' = icount - m
      /\ \A k \in 1..z : bus'[k] = bus[k]
  BY MovesTyped
<1>2. \A k \in 1..m :
        /\ bus'[z + k].icount = icount - k
        /\ k > f => bus'[z + k].role \notin Fetches
        /\ k <= f => /\ bus'[z + k].role \in Fetches /\ ~bus'[z + k].write
                     /\ bus'[z + k].address = PC(k - 1) /\ bus'[z + k].data = Peek(PC(k - 1))
  BY MovesTyped
<1>3. n \in 0..z
  BY DEF Log
<1>4. \A k \in 1..z :
        /\ k <= n => /\ bus[k].role \in Fetches /\ ~bus[k].write
                     /\ bus[k].address = StartPC(k - 1)
                     /\ bus[k].data = Pristine(StartPC(k - 1))
        /\ k > n => bus[k].role \notin Fetches
        /\ bus[k].icount = InitialIcount - k - Lost(k)
  BY DEF Log
<1>5. icount = InitialIcount - z - c
  OBVIOUS
<1>6. /\ f # 0 => z = n
      /\ \A k \in Nat : (k > z /\ k <= z + m) => Lost(k) = c
  OBVIOUS
<1>7. f # 0 => \A j \in Int : PC(j) = StartPC(n + j) /\ Peek(PC(j)) = Pristine(StartPC(n + j))
  <2> SUFFICES ASSUME f # 0, NEW j \in Int
      PROVE  PC(j) = StartPC(n + j) /\ Peek(PC(j)) = Pristine(StartPC(n + j))
    OBVIOUS
  <2>1. reg["pc"] = StartPC(n) /\ mem = Loaded(test) /\ n \in Int
    OBVIOUS
  <2>2. PC(j) = StartPC(n + j)
    BY <2>1, StepsAlong
  <2>3. Peek(PC(j)) = Pristine(PC(j))
    BY <2>1, PeekPristine, Zenon
  <2> QED BY <2>2, <2>3, Zenon
<1>8. /\ \A k : Lost(k)' = Lost(k) /\ StartPC(k)' = StartPC(k) /\ Pristine(k)' = Pristine(k)
  BY TestKeeps
<1>9. InitialIcount \in Int
  BY DEF InitialIcount
<1> HIDE DEF z
<1>10. ASSUME NEW k \in 1..(z + m)
       PROVE  /\ k <= n + f => /\ bus'[k].role \in Fetches /\ ~bus'[k].write
                               /\ bus'[k].address = StartPC(k - 1)
                               /\ bus'[k].data = Pristine(StartPC(k - 1))
              /\ k > n + f => bus'[k].role \notin Fetches
              /\ bus'[k].icount = InitialIcount - k - Lost(k)
  <2>1. CASE k <= z
    <3>1. k \in 1..z /\ bus'[k] = bus[k]
      BY <1>1, <2>1
    <3>2. k <= n + f <=> k <= n
      BY <1>1, <1>3, <1>6, <2>1
    <3>3. /\ k <= n + f => /\ bus[k].role \in Fetches /\ ~bus[k].write
                     /\ bus[k].address = StartPC(k - 1)
                     /\ bus[k].data = Pristine(StartPC(k - 1))
      BY <1>4, <3>1, <3>2
    <3>4. k > n + f => bus[k].role \notin Fetches
      <4>1. k > n + f => k > n
        BY <1>1
      <4> QED BY <1>4, <3>1, <4>1
    <3>5. bus[k].icount = InitialIcount - k - Lost(k)
      BY <1>4, <3>1
    <3> QED BY <3>1, <3>3, <3>4, <3>5
  <2>2. CASE k > z
    <3>1. PICK j \in 1..m : k = z + j
      <4>1. k - z \in 1..m /\ k = z + (k - z)
        BY <1>1, <2>2
      <4> QED BY <4>1
    <3>2. k <= n + f <=> j <= f
      BY <1>1, <1>3, <1>6, <3>1
    <3>3. k > n + f <=> j > f
      BY <1>1, <3>1, <3>2
    <3>4. j <= f => PC(j - 1) = StartPC(k - 1) /\ Peek(PC(j - 1)) = Pristine(StartPC(k - 1))
      <4>1. j <= f => f # 0 /\ j - 1 \in Int /\ z = n
        BY <1>1, <1>6
      <4>2. j <= f => PC(j - 1) = StartPC(n + (j - 1))
                      /\ Peek(PC(j - 1)) = Pristine(StartPC(n + (j - 1)))
        BY <1>7, <4>1
      <4>3. j <= f => n + (j - 1) = k - 1
        BY <1>1, <3>1, <4>1
      <4> QED BY <4>2, <4>3
    <3>5. bus'[k].icount = icount - j
      BY <1>2, <3>1
    <3>6. Lost(k) = c
      BY <1>1, <1>6, <2>2
    <3>7. icount - j = InitialIcount - k - Lost(k)
      BY <1>1, <1>5, <1>9, <3>1, <3>6, SMTT(30)
    <3>8. k <= n + f => /\ bus'[k].role \in Fetches /\ ~bus'[k].write
                        /\ bus'[k].address = StartPC(k - 1)
                        /\ bus'[k].data = Pristine(StartPC(k - 1))
      BY <1>2, <3>1, <3>2, <3>4
    <3>9. k > n + f => bus'[k].role \notin Fetches
      BY <1>2, <3>1, <3>3
    <3> QED BY <3>5, <3>7, <3>8, <3>9
  <2> QED BY <1>1, <2>1, <2>2
<1>11. n + f \in 0..Len(bus')
  BY <1>1, <1>3, <1>6
<1>12. Log(n + f)'
  <2>1. \A k \in 1..Len(bus') :
          /\ k <= n + f => /\ bus'[k].role \in Fetches /\ ~bus'[k].write
                           /\ bus'[k].address = StartPC(k - 1)'
                           /\ bus'[k].data = Pristine(StartPC(k - 1))'
          /\ k > n + f => bus'[k].role \notin Fetches
          /\ bus'[k].icount = InitialIcount - k - Lost(k)'
    <3> SUFFICES ASSUME NEW k \in 1..Len(bus')
        PROVE  /\ k <= n + f => /\ bus'[k].role \in Fetches /\ ~bus'[k].write
                                /\ bus'[k].address = StartPC(k - 1)'
                                /\ bus'[k].data = Pristine(StartPC(k - 1))'
               /\ k > n + f => bus'[k].role \notin Fetches
               /\ bus'[k].icount = InitialIcount - k - Lost(k)'
      OBVIOUS
    <3>1. k \in 1..(z + m)
      BY <1>1
    <3>2. StartPC(k - 1)' = StartPC(k - 1) /\ Lost(k)' = Lost(k)
      BY <1>8
    <3>3. Pristine(StartPC(k - 1))' = Pristine(StartPC(k - 1))
      BY <1>8 DEF Pristine, Loaded, StartPC
    <3> QED BY <1>10, <3>1, <3>2, <3>3
  <2> QED BY <1>11, <2>1 DEF Log, Fetches
<1>13. icount' = InitialIcount - Len(bus') - c
  BY <1>1, <1>5, <1>9
<1> QED BY <1>12, <1>13 DEF InitialIcount

-----------------------------------------------------------------------------
(***************************************************************************)
(* A test is of a key of the opcode table, so that what the tables say of  *)
(* the keys holds of it.                                                   *)
(***************************************************************************)
LEMMA TestEntry ==
  ASSUME test \in Tests
  PROVE  /\ <<test.prefix, test.opcode>> \in Listed
         /\ EntryOK(E) /\ Placed(test.prefix, test.opcode, E.body)
         /\ Timed(test.prefix, test.opcode) /\ Sized(test.prefix, test.opcode)
<1>1. <<test.prefix, test.opcode>> \in Listed
  BY TestsAssumption
<1>2. test.prefix \in {0, 16, 17} /\ test.opcode \in Byte
  BY InstructionTyped DEF Pages
<1>3. EntryOK(E)
  <2>1. CASE test.prefix = 0
    BY <1>2, <2>1, Page1OK DEF E, EntryOf
  <2>2. CASE test.prefix = 16
    BY <1>2, <2>2, Page10OK DEF E, EntryOf
  <2>3. CASE test.prefix = 17
    BY <1>2, <2>3, Page11OK DEF E, EntryOf
  <2> QED BY <1>2, <2>1, <2>2, <2>3
<1>4. Placed(test.prefix, test.opcode, E.body)
  BY <1>1, ListedPlaced DEF E
<1>5. Timed(test.prefix, test.opcode) /\ Sized(test.prefix, test.opcode)
  BY <1>1, ListedFits
<1> QED BY <1>1, <1>3, <1>4, <1>5

\* expected_cycles is the datasheet's count for the state of the test.
LEMMA ExpectedIs ==
  ASSUME test \in Tests
  PROVE  Expected = DatasheetCycles(test.prefix, test.opcode, OperandByte, Taken,
                                    Pristine(test.reg["s"]))
<1> DEFINE p == test.prefix  o == test.opcode  s == Pristine(test.reg["s"])
           base == DocumentedCycles(p, o)
           extra == IF Mode(p, o) = "INDEXED" THEN IndexedExtraCycles(OperandByte) ELSE 0
           special == Special(p, o)
<1>1. o \in Byte
  BY InstructionTyped
<1>2. special = "LONG_BRANCH" => (Taken <=> BranchCondition(o, CCByte(test.cc)))
  <2> SUFFICES ASSUME special = "LONG_BRANCH"
               PROVE  Taken <=> BranchCondition(o, CCByte(test.cc))
    OBVIOUS
  <2>1. p = 16 /\ o \in 33..47
    BY DEF Special
  <2>2. Row(o) = 2 /\ o # 22
    BY <2>1 DEF Row
  <2>3. BranchCondition(o, CCByte(test.cc)) <=> BranchCond(Col(o), test.cc)
    BY <1>1, ConditionsAgree
  <2> QED BY <2>2, <2>3 DEF Taken
<1>3. PushPullBytes(OperandByte) = Offset(OperandByte, 256)
  BY PushPullIsOffset
<1>4. Expected =
        IF base = -1 \/ extra = -1 THEN -1
        ELSE CASE special = "NONE" -> base + extra
               [] special = "LONG_BRANCH" ->
                    base + extra + (IF BranchCondition(o, CCByte(test.cc)) THEN 1 ELSE 0)
               [] special = "PUSH_PULL" -> base + extra + PushPullBytes(OperandByte)
               [] special = "RTI" -> IF Has(s, 128) THEN 15 ELSE 6
  BY DEF Expected, ExpectedCycles
<1>5. DatasheetCycles(p, o, OperandByte, Taken, s) =
        IF base = -1 \/ extra = -1 THEN -1
        ELSE CASE special = "NONE" -> base + extra
               [] special = "LONG_BRANCH" -> base + extra + (IF Taken THEN 1 ELSE 0)
               [] special = "PUSH_PULL" -> base + extra + Offset(OperandByte, 256)
               [] special = "RTI" -> IF Has(s, 128) THEN 15 ELSE 6
  BY DEF DatasheetCycles
<1>6. special \in {"NONE", "LONG_BRANCH", "PUSH_PULL", "RTI"}
  BY DEF Special
<1> HIDE DEF base, extra, special, p, o, s
<1>7. CASE special = "LONG_BRANCH"
  BY <1>2, <1>4, <1>5, <1>7 DEF p, o, s
<1>8. CASE special # "LONG_BRANCH"
  BY <1>3, <1>4, <1>5, <1>6, <1>8 DEF p, o, s
<1> QED BY <1>7, <1>8

\* The cycles of a test are within the generator's range and the datasheet's.
LEMMA TestAgrees ==
  ASSUME test \in Tests
  PROVE  TestCycles \in 2..21 /\ (Expected = -1 \/ Expected = TestCycles)
<1>1. OperandByte \in Byte
  BY PristineTyped
<1>2. Pristine(test.reg["s"]) \in Byte
  <2>1. test.reg \in [Registers -> Word] /\ "s" \in Registers
    BY StartTyped DEF RegOK, Registers, Reg16
  <2> QED BY <2>1, PristineTyped
<1>3. Taken \in BOOLEAN /\ (test.opcode \in {22, 32} => Taken)
  <2>1. Row(32) = 2 /\ Col(32) = 0
    BY DEF Row, Col
  <2>2. BranchCond(0, test.cc)
    <3>1. 2 * (0 \div 2) = 0 /\ ~(0 = 2) /\ ~(0 = 4) /\ ~(0 = 6) /\ ~(0 = 8) /\ ~(0 = 10)
          /\ ~(0 = 12) /\ ~(0 = 14)
      OBVIOUS
    <3> QED BY <3>1, Zenon DEF BranchCond
  <2> QED BY <2>1, <2>2 DEF Taken
<1>4. Agrees(test.prefix, test.opcode, OperandByte, Taken, Pristine(test.reg["s"]))
  BY <1>1, <1>2, <1>3, TestEntry DEF Timed
<1> QED BY <1>4, ExpectedIs DEF Agrees, TestCycles

\* The length of the table is what the core steps over.
LEMMA TestLength ==
  ASSUME test \in Tests
  PROVE  /\ InstructionLength = CoreBytes(test.prefix, test.opcode, OperandByte)
         /\ Head1 \in {1, 2} /\ Head1 = PrefixLength(test) + 1
<1>1. CoreBytes(test.prefix, test.opcode, OperandByte)
        = Head1 + OperandLength(TestMode, OperandByte)
  BY TestEntry, PristineTyped DEF Sized, Head1, TestMode
<1>2. Head1 \in {1, 2} /\ Head1 = PrefixLength(test) + 1
  BY DEF Head1, Opening, PrefixLength
<1> QED BY <1>1, <1>2 DEF InstructionLength

LEMMA ImmediateStore ==
  ASSUME test \in Tests
  PROVE  TestMode = "XST16_IMMEDIATE" <=> E.body = "XST16"
<1> DEFINE p == test.prefix  o == test.opcode  r == Row(o)  c == Col(o)
<1>1. o \in Byte /\ r \in 0..15 /\ c \in 0..15 /\ o = 16 * r + c /\ <<p, o>> \in Listed
  BY TestEntry, InstructionTyped, DigitsTyped, ByteIs DEF Row, Col
<1>2. TestMode = "XST16_IMMEDIATE" <=> r \in {8, 12} /\ c = 15
  <2>1. TestMode = Mode(p, o)
    BY DEF TestMode
  <2>2. r \in {8, 12} /\ c = 15 => o # 141
    BY <1>1
  <2>3. r \in {8, 12} /\ c = 15 => Mode(p, o) = "XST16_IMMEDIATE"
    BY <2>2 DEF Mode
  <2>4. Mode(p, o) = "XST16_IMMEDIATE" => r \in {8, 12} /\ c = 15
    BY <1>1 DEF Mode
  <2> QED BY <2>1, <2>3, <2>4
<1>3. E.body = "XST16" => r \in {8, 12} /\ c = 15
  BY TestEntry DEF Placed, Usual, RmwOps, Alu8Ops, Alu16Ops
<1>4. r \in {8, 12} /\ c = 15 => E.body = "XST16"
  <2> SUFFICES ASSUME r \in {8, 12}, c = 15 PROVE E.body = "XST16"
    OBVIOUS
  <2>1. o \in {143, 207} /\ Store16(o) = "XST16"
    BY <1>1 DEF Store16
  <2>2. p \in {0, 16, 17}
    BY InstructionTyped DEF Pages
  <2>3. CASE p = 0
    <3>1. E = AccumulatorEntry(o)
      BY <2>1, <2>3 DEF E, EntryOf, Page1
    <3> QED BY <2>1, <3>1 DEF AccumulatorEntry, Entry
  <2>4. CASE p = 16
    <3>1. o \in Quad(143) \cup Quad(207)
      BY <2>1, QuadSets
    <3> QED BY <2>1, <2>4, <3>1, Page10Quads DEF E, EntryOf
  <2>5. CASE p = 17
    BY <2>1, <2>5, QuadSets DEF E, EntryOf, Page11, Entry
  <2> QED BY <2>2, <2>3, <2>4, <2>5
<1> QED BY <1>2, <1>3, <1>4

LEMMA IdleIsMasked ==
  ASSUME test \in Tests
  PROVE  On1({56}) <=> E.body = "XANDCC"
<1>1. E.body = "XANDCC" => On1({56})
  BY TestEntry DEF Placed, Usual, RmwOps, Alu8Ops, Alu16Ops, On1
<1>2. On1({56}) => E.body = "XANDCC"
  <2>1. Row(56) = 3 /\ Col(56) = 8
    BY DEF Row, Col
  <2>2. On1({56}) => E = Row3Entry(56)
    BY <2>1 DEF On1, E, EntryOf, Page1
  <2> QED BY <2>1, <2>2 DEF Row3Entry, Entry
<1> QED BY <1>1, <1>2

LEMMA CallBodies ==
  ASSUME test \in Tests, IsCall
  PROVE  E.body \in {"BSR", "LBSR", "JSR"}
<1> DEFINE o == test.opcode
<1>1. Quad(141) = {141, 157, 173, 189}
  <2>1. \A i \in 0..3 : i = 0 \/ i = 1 \/ i = 2 \/ i = 3
    OBVIOUS
  <2>2. \A i \in 0..3 : 16 * i \in {0, 16, 32, 48}
    BY <2>1
  <2> QED BY <2>2 DEF Quad
<1>2. test.prefix = 0 /\ o \in {141, 23, 157, 173, 189}
  BY <1>1 DEF IsCall, On1
<1>3. CASE o = 23
  <2>1. Row(23) = 1 /\ Col(23) = 7
    BY DEF Row, Col
  <2>2. E = Row1Entry(23)
    BY <1>2, <1>3, <2>1 DEF E, EntryOf, Page1
  <2> QED BY <2>1, <2>2 DEF Row1Entry, Entry
<1>4. CASE o \in {141, 157, 173, 189}
  <2>1. Row(o) \in {8, 9, 10, 11} /\ Col(o) = 13
    BY <1>4 DEF Row, Col
  <2>2. E = AccumulatorEntry(o)
    BY <1>2, <2>1 DEF E, EntryOf, Page1
  <2>3. E.body \in {"BSR", "JSR"}
    BY <2>1, <2>2 DEF AccumulatorEntry, Entry
  <2> QED BY <2>3
<1> QED BY <1>2, <1>3, <1>4

LEMMA SoftwareBodies ==
  ASSUME test \in Tests, IsSoftwareInterrupt
  PROVE  E.body \in SoftwareLabels
<1> DEFINE o == test.opcode
<1>1. o \in {62, 63} /\ test.prefix \in {0, 16, 17}
  BY InstructionTyped DEF IsSoftwareInterrupt, On1, Pages
<1>2. \A k \in QuadFirsts : o \notin Quad(k)
  BY <1>1, QuadsApart
<1>3. Row(o) = 3 /\ Col(o) \in {14, 15}
  BY <1>1 DEF Row, Col
<1>4. CASE test.prefix = 0
  <2>1. E = Row3Entry(o)
    BY <1>3, <1>4 DEF E, EntryOf, Page1
  <2> QED BY <1>3, <2>1 DEF Row3Entry, Entry, SoftwareLabels
<1>5. CASE test.prefix = 16
  BY <1>1, <1>2, <1>5 DEF E, EntryOf, Page10, QuadFirsts, Entry, SoftwareLabels
<1>6. CASE test.prefix = 17
  BY <1>1, <1>2, <1>6 DEF E, EntryOf, Page11, QuadFirsts, Entry, SoftwareLabels
<1> QED BY <1>1, <1>4, <1>5, <1>6

\* What is no call, no interrupt and no jump goes on behind itself.
LEMMA StraightOr ==
  ASSUME test \in Tests, ~IsCall, ~IsSoftwareInterrupt, ~MayJump
  PROVE  Straight
<1> DEFINE p == test.prefix  o == test.opcode  b == E.body
<1>1. Placed(p, o, b)
  BY TestEntry
<1>2. /\ ~(p = 0 /\ o \in {141, 23, 157, 173, 189})
  <2>1. 157 \in Quad(141) /\ 173 \in Quad(141) /\ 189 \in Quad(141)
    <3>1. 1 \in 0..3 /\ 2 \in 0..3 /\ 3 \in 0..3
          /\ 157 = 141 + 16 * 1 /\ 173 = 141 + 16 * 2 /\ 189 = 141 + 16 * 3
      OBVIOUS
    <3> QED BY <3>1, ZenonT(40) DEF Quad
  <2> QED BY <2>1 DEF IsCall, On1
<1>3. ~(p = 0 /\ o = 62) /\ o # 63 /\ ~(p # 0 /\ o = 62)
  BY DEF IsSoftwareInterrupt, On1
<1>4. /\ Row(o) # 2 /\ ~(p = 0 /\ o \in {22, 14, 110, 126, 57, 59})
      /\ (p = 0 /\ o \in {53, 55}) => ~Has(OperandByte, 128)
      /\ (p = 0 /\ o = 30) => 5 \notin {Row(OperandByte), Col(OperandByte)}
      /\ (p = 0 /\ o = 31) => Col(OperandByte) # 5
  BY DEF MayJump, On1
<1> HIDE DEF p, o, b
<1>5. \/ b \in Usual \/ b = "XST16" \/ b = "XANDCC"
      \/ b \in {"PULS", "PULU"} /\ p = 0 /\ o \in {53, 55}
      \/ b = "EXG" /\ p = 0 /\ o = 30
      \/ b = "TFR" /\ p = 0 /\ o = 31
  BY <1>1, <1>2, <1>3, <1>4 DEF Placed
<1>6. b \notin {"BRANCH", "LBRANCH", "JMP", "RTS", "RTI", "BSR", "LBSR", "JSR"} \cup SoftwareLabels
  BY <1>5 DEF Usual, RmwOps, Alu8Ops, Alu16Ops, SoftwareLabels
<1>7. b \in {"PULS", "PULU"} => ~Has(OperandByte, 128)
  BY <1>4, <1>5 DEF Usual, RmwOps, Alu8Ops, Alu16Ops
<1>8. b = "EXG" => 5 \notin {Row(OperandByte), Col(OperandByte)}
  BY <1>4, <1>5 DEF Usual, RmwOps, Alu8Ops, Alu16Ops
<1>9. b = "TFR" => Col(OperandByte) # 5
  BY <1>4, <1>5 DEF Usual, RmwOps, Alu8Ops, Alu16Ops
<1> QED BY <1>6, <1>7, <1>8, <1>9 DEF Straight, b

-----------------------------------------------------------------------------
(***************************************************************************)
(* Where each label leads.                                                 *)
(***************************************************************************)
Leading == {"XNC8", "BSR", "LBSR", "JSR", "PSHS", "PSHU", "PULS", "PULU", "RTS", "RTI",
            "SWI_PUSHED", "PUSHED"} \cup SoftwareLabels

Opened01 == {"MAIN", "DISPATCH01", "DISPATCH10", "DISPATCH11", "XANDCC", "FREERUN"}

Ends ==
  \/ ReadModifyWrite \/ TST8 \/ JMP \/ Accumulate8 \/ Accumulate16 \/ ST8 \/ ST16
  \/ XST8 \/ XST16 \/ LEA_xy \/ LEA_us \/ NOP \/ DAA \/ SEX \/ ABX \/ MUL \/ ORCC
  \/ ANDCC \/ X18 \/ EXG \/ TFR \/ BRANCH \/ LBRANCH \/ GOTO_SUBROUTINE
  \/ PUSH_REGISTERS \/ PULL_REGISTERS \/ INTERRUPT_VECTOR

Addresses == DIRECT \/ EXTENDED \/ INDEXED

Leads ==
  \/ XNC8 \/ BSR \/ LBSR \/ JSR \/ PSHS \/ PSHU \/ PULS \/ PULU \/ RTS \/ RTI
  \/ SharedSoftwareInterrupt \/ SoftwareInterrupt \/ SWI_PUSHED \/ PUSHED

Opens == MAIN \/ DISPATCH01 \/ DISPATCH10 \/ DISPATCH11 \/ XANDCC \/ FREERUN

LEMMA ThreeKinds ==
  Instruction => Ends \/ Addresses \/ Leads \/ Opens
  BY DEF Instruction, Ends, Addresses, Leads, Opens

LEMMA EndsReturn ==
  Ends => /\ Return /\ UNCHANGED <<line, freeRun>>
          /\ at \notin Leading \cup Calls \cup Opened01
<1>1. Ends => Return /\ UNCHANGED <<line, freeRun>>
  BY DEF Ends, ReadModifyWrite, TST8, JMP, Accumulate8, Accumulate16, ST8, ST16, XST8, XST16,
         LEA_xy, LEA_us, NOP, DAA, SEX, ABX, MUL, ORCC, ANDCC, X18, EXG, TFR, BRANCH,
         LBRANCH, GOTO_SUBROUTINE, PUSH_REGISTERS, PULL_REGISTERS, INTERRUPT_VECTOR
<1>2. Ends => at \in RmwOps \cup Alu8Ops \cup Alu16Ops
                \cup {"TST8", "JMP", "ST8", "ST16", "XST8", "XST16", "LEA_xy", "LEA_us", "NOP",
                      "DAA", "SEX", "ABX", "MUL", "ORCC", "ANDCC", "X18", "EXG", "TFR", "BRANCH",
                      "LBRANCH", "GOTO_SUBROUTINE", "PUSH_REGISTERS", "PULL_REGISTERS",
                      "INTERRUPT_VECTOR"}
  BY DEF Ends, ReadModifyWrite, TST8, JMP, Accumulate8, Accumulate16, ST8, ST16, XST8, XST16,
         LEA_xy, LEA_us, NOP, DAA, SEX, ABX, MUL, ORCC, ANDCC, X18, EXG, TFR, BRANCH,
         LBRANCH, GOTO_SUBROUTINE, PUSH_REGISTERS, PULL_REGISTERS, INTERRUPT_VECTOR
<1>3. Ends => at \notin Leading \cup Calls \cup Opened01
  BY <1>2 DEF Leading, Calls, Opened01, RmwOps, Alu8Ops, Alu16Ops, SoftwareLabels
<1> QED BY <1>1, <1>3

LEMMA AddressesReturn ==
  Addresses => Return /\ UNCHANGED <<line, freeRun>> /\ at \in Calls /\ mode' = "ea"
  BY DEF Addresses, DIRECT, EXTENDED, INDEXED, Calls

LEMMA LeadsTo ==
  Leads =>
    /\ UNCHANGED <<line, freeRun>> /\ at \in Leading
    /\ at = "XNC8" => at' \in {"COM8", "NEG8"} /\ stack' = stack
    /\ at \in {"BSR", "LBSR", "JSR"} => Goto("GOTO_SUBROUTINE")
    /\ at \in {"PSHS", "PSHU"} => Goto("PUSH_REGISTERS")
    /\ at \in {"PULS", "PULU"} => Goto("PULL_REGISTERS") /\ temp' = Peek(PC(0))
    /\ at \in {"RTS", "RTI"} => Goto("PULL_REGISTERS")
    /\ at \in {"SWI2", "SWI3"} => Goto("SOFTWARE_INTERRUPT")
    /\ at \in {"SWI_PUSHED", "PUSHED"} => Goto("INTERRUPT_VECTOR") /\ UNCHANGED <<reg, mem>>
    /\ at \in SoftwareLabels \ {"SWI2", "SWI3"} =>
         /\ at' = "PUSH_REGISTERS" /\ regop' = "s" /\ temp' = EntireState
         /\ stack' = <<IF at = "SWI" THEN "SWI_PUSHED" ELSE "PUSHED">> \o stack
<1> SUFFICES ASSUME Leads
    PROVE /\ UNCHANGED <<line, freeRun>> /\ at \in Leading
          /\ at = "XNC8" => at' \in {"COM8", "NEG8"} /\ stack' = stack
          /\ at \in {"BSR", "LBSR", "JSR"} => Goto("GOTO_SUBROUTINE")
          /\ at \in {"PSHS", "PSHU"} => Goto("PUSH_REGISTERS")
          /\ at \in {"PULS", "PULU"} => Goto("PULL_REGISTERS") /\ temp' = Peek(PC(0))
          /\ at \in {"RTS", "RTI"} => Goto("PULL_REGISTERS")
          /\ at \in {"SWI2", "SWI3"} => Goto("SOFTWARE_INTERRUPT")
          /\ at \in {"SWI_PUSHED", "PUSHED"} => Goto("INTERRUPT_VECTOR") /\ UNCHANGED <<reg, mem>>
          /\ at \in SoftwareLabels \ {"SWI2", "SWI3"} =>
               /\ at' = "PUSH_REGISTERS" /\ regop' = "s" /\ temp' = EntireState
               /\ stack' = <<IF at = "SWI" THEN "SWI_PUSHED" ELSE "PUSHED">> \o stack
  OBVIOUS
<1>1. CASE XNC8 \/ BSR \/ LBSR \/ JSR
  BY <1>1 DEF XNC8, BSR, LBSR, JSR, Goto, Leading, SoftwareLabels
<1>2. CASE PSHS \/ PSHU \/ PULS \/ PULU \/ RTS \/ RTI
  BY <1>2 DEF PSHS, PSHU, PULS, PULU, Push, Pull, RTS, RTI, Goto, Leading, SoftwareLabels
<1>3. CASE SharedSoftwareInterrupt \/ SWI_PUSHED \/ PUSHED
  BY <1>3 DEF SharedSoftwareInterrupt, SWI_PUSHED, PUSHED, Goto, Leading, SoftwareLabels
<1>4. CASE SoftwareInterrupt
  BY <1>4 DEF SoftwareInterrupt, SoftwareInterrupts, Call, Leading, SoftwareLabels
<1> QED BY <1>1, <1>2, <1>3, <1>4 DEF Leads

LEMMA OpensAt ==
  Opens => /\ at \in Opened01
           /\ at = "XANDCC" => XANDCC
           /\ at = "MAIN" => MAIN
           /\ at = "DISPATCH01" => DISPATCH01
           /\ at = "DISPATCH10" => DISPATCH10
           /\ at = "DISPATCH11" => DISPATCH11
<1>1. /\ MAIN => at = "MAIN"
      /\ DISPATCH01 => at = "DISPATCH01"
      /\ DISPATCH10 => at = "DISPATCH10"
      /\ DISPATCH11 => at = "DISPATCH11"
      /\ XANDCC => at = "XANDCC"
      /\ FREERUN => at = "FREERUN"
  BY DEF MAIN, DISPATCH01, DISPATCH10, DISPATCH11, XANDCC, FREERUN
<1> QED BY <1>1 DEF Opened01, Opens

\* Which code a label is, by its name.
LEMMA LabelCode ==
  ASSUME Instruction
  PROVE  /\ at = "XANDCC" => XANDCC
         /\ at = "MAIN" => MAIN
         /\ at = "DISPATCH01" => DISPATCH01
         /\ at = "DISPATCH10" => DISPATCH10
         /\ at = "DISPATCH11" => DISPATCH11
         /\ at \notin Opened01 => ~Opens /\ (Ends \/ Addresses \/ Leads)
<1>1. at \in Opened01 => ~Ends /\ ~Addresses /\ ~Leads
  BY EndsReturn, AddressesReturn, LeadsTo DEF Opened01, Calls, Leading, SoftwareLabels
<1>2. at \in {"XANDCC", "MAIN", "DISPATCH01", "DISPATCH10", "DISPATCH11"} => at \in Opened01
  BY DEF Opened01
<1> QED BY <1>1, <1>2, ThreeKinds, OpensAt

-----------------------------------------------------------------------------
(***************************************************************************)
(* The labels that the opcode of a test is dispatched to, and what they    *)
(* take behind an addressing label.                                        *)
(***************************************************************************)
Bodies == Usual \cup {"XST16", "BRANCH", "LBRANCH", "SWI2", "SWI3", "XSWI2", "XFIRQ", "XANDCC",
                      "JMP", "RTS", "RTI", "BSR", "LBSR", "JSR", "SWI", "XRES", "PULS", "PULU",
                      "EXG", "TFR"}

LEMMA TestBodies ==
  ASSUME test \in Tests
  PROVE  /\ E.body \in Bodies
         /\ Addressed(E) <=> E.addr \in Calls
         /\ Addressed(E) => E.body \in WithOperand
         /\ E.body = "XANDCC" => test.prefix = 0 /\ ~Addressed(E)
         /\ E.body = "LBRANCH" =>
              \/ test.prefix = 0 /\ test.opcode = 22
              \/ test.prefix = 16 /\ Row(test.opcode) = 2
<1>1. Placed(test.prefix, test.opcode, E.body) /\ EntryOK(E)
  BY TestEntry
<1>2. E.body \in Bodies
  BY <1>1 DEF Placed, Bodies
<1>3. Addressed(E) => E.body \in WithOperand
  BY <1>1 DEF EntryOK, Addressed, Calls
<1>4. "XANDCC" \notin WithOperand /\ "XANDCC" \notin Usual /\ "LBRANCH" \notin Usual
  BY DEF WithOperand, Usual, RmwOps, Alu8Ops, Alu16Ops
<1>5. E.body = "XANDCC" => test.prefix = 0 /\ ~Addressed(E)
  BY <1>1, <1>3, <1>4 DEF Placed
<1>6. E.body = "LBRANCH" =>
              \/ test.prefix = 0 /\ test.opcode = 22
              \/ test.prefix = 16 /\ Row(test.opcode) = 2
  BY <1>1, <1>4 DEF Placed
<1> QED BY <1>2, <1>3, <1>5, <1>6 DEF Addressed

\* An instruction behind an addressing label takes what its name says.
LEMMA OperandCycles ==
  \A l \in WithOperand \cup {"SWI_PUSHED", "PUSHED"} : \A k, t, s :
    BodyCycles(l, "ea", k, t, s) = BodyCycles(l, "ea", 0, FALSE, 0)
<1> SUFFICES ASSUME NEW l \in WithOperand \cup {"SWI_PUSHED", "PUSHED"}, NEW k, NEW t, NEW s
             PROVE  BodyCycles(l, "ea", k, t, s) = BodyCycles(l, "ea", 0, FALSE, 0)
  OBVIOUS
<1>1. l \notin {"LBRANCH", "PSHS", "PSHU", "PULS", "PULU", "RTI"}
  BY DEF WithOperand, RmwOps, Alu8Ops, Alu16Ops, SoftwareLabels
<1> QED BY <1>1 DEF BodyCycles, RmwOps, Alu8Ops, Alu16Ops, WithOperand, SoftwareLabels

LEMMA OperandBytes ==
  \A l \in WithOperand \cup {"SWI_PUSHED", "PUSHED"} : BodyBytes(l, "ea") = 0 /\ l # "XST16"
<1> SUFFICES ASSUME NEW l \in WithOperand \cup {"SWI_PUSHED", "PUSHED"}
             PROVE  BodyBytes(l, "ea") = 0 /\ l # "XST16"
  OBVIOUS
<1>1. l # "XST16"
  BY DEF WithOperand, RmwOps, Alu8Ops, Alu16Ops
<1>2. l \in RmwOps \cup Alu8Ops \cup Alu16Ops => BodyBytes(l, "ea") = 0
  BY BytesOf
<1>3. l \in {"XNC8", "TST8", "JMP", "JSR", "ST8", "ST16", "LEA_xy", "LEA_us", "SWI_PUSHED",
             "PUSHED"} => BodyBytes(l, "ea") = 0
  BY BytesOf
<1> QED BY <1>1, <1>2, <1>3 DEF WithOperand

-----------------------------------------------------------------------------
(***************************************************************************)
(* The steps up to the dispatch of the opcode.                             *)
(***************************************************************************)
LEMMA StartsLogged ==
  ASSUME Len(bus) = 0
  PROVE  Log(0)
<1>1. \A k \in 1..0 : FALSE
  OBVIOUS
<1>2. 0 \in 0..Len(bus) /\ 1..Len(bus) = 1..0
  OBVIOUS
<1> QED BY <1>1, <1>2 DEF Log

LEMMA FetchOpens ==
  ASSUME test \in Tests, DataOK, NEW label, FetchAndDispatch(label), test' = test,
         NEW n \in {0, 1}, Opened(n), Log(n), icount = InitialIcount - n,
         E.body = "XANDCC" => n = 0
  PROVE  /\ Opened(n + 1)' /\ Log(n + 1)' /\ (icount = InitialIcount - (n + 1))'
         /\ Peek(PC(0)) = Pristine(StartPC(n)) /\ UNCHANGED <<cc, line, freeRun>>
<1>1. /\ Bus(<<Rd(PC(0), "opcode")>>) /\ reg' = At(PC(1)) /\ mem' = mem
      /\ UNCHANGED <<cc, line, freeRun>>
  BY DEF FetchAndDispatch
<1>2. Moves(1, 1)
  BY <1>1, ReadOpcode, ReadsMove
<1>3. /\ reg["pc"] = StartPC(n) /\ PC(0) = StartPC(n) /\ PC(1) = StartPC(n + 1)
      /\ Peek(PC(0)) = Pristine(StartPC(n))
  <2>1. n \in Int /\ n + 0 = n
    OBVIOUS
  <2>2. /\ reg["pc"] = StartPC(n) /\ \A k \in Int : PC(k) = StartPC(n + k)
        /\ \A a : Peek(a) = Pristine(a)
    BY <2>1, OpenedAt
  <2>3. PC(0) = StartPC(n + 0) /\ PC(1) = StartPC(n + 1)
    BY <2>2
  <2> QED BY <2>1, <2>2, <2>3
<1>4. mem = Loaded(test) /\ Len(bus) = n /\ reg = [test.reg EXCEPT !["pc"] = StartPC(n)]
  BY DEF Opened
<1>5. /\ \A k : StartPC(k)' = StartPC(k)
      /\ Loaded(test)' = Loaded(test)
  BY TestKeeps
<1>6. Opened(n + 1)'
  <2>1. "pc" \in DOMAIN test.reg
    BY StartTyped DEF RegOK, Registers, Reg16
  <2>2. reg' = [test.reg EXCEPT !["pc"] = StartPC(n + 1)]
    BY <1>1, <1>3, <1>4, <2>1 DEF At
  <2>3. Len(bus') = n + 1
    BY <1>2, <1>4, MovesTyped
  <2>4. StartPC(n + 1)' = StartPC(n + 1) /\ mem' = Loaded(test)'
    BY <1>1, <1>4, <1>5
  <2> QED BY <2>2, <2>3, <2>4 DEF Opened
<1>7. Log(n + 1)' /\ (icount = InitialIcount - Len(bus) - 0)'
  <2>1. \A k \in Nat : (k > Len(bus) /\ k <= Len(bus) + 1) => Lost(k) = 0
    BY <1>4 DEF Lost
  <2>2. icount = InitialIcount - Len(bus) - 0 /\ 0 \in Int /\ n \in Nat
    BY <1>4 DEF InitialIcount
  <2>3. 1 # 0 => Len(bus) = n /\ reg["pc"] = StartPC(n) /\ mem = Loaded(test)
    BY <1>3, <1>4
  <2> QED BY <1>2, <2>1, <2>2, <2>3, LogGrows
<1>8. icount' = InitialIcount - (n + 1)
  BY <1>6, <1>7 DEF Opened, InitialIcount
<1> QED BY <1>1, <1>3, <1>6, <1>7, <1>8 DEF InitialIcount

\* What the dispatch of the opcode of the test leaves.
LEMMA OpcodeDispatched ==
  ASSUME test \in Tests, CoreInv, freeRun = FALSE, stack = <<>>, cc = test.cc, test' = test,
         NEW label, FetchAndDispatch(label), Peek(PC(0)) = test.opcode,
         label = CASE test.prefix = 0 -> "DISPATCH01" [] test.prefix = 16 -> "DISPATCH10"
                   [] test.prefix = 17 -> "DISPATCH11"
  PROVE  /\ IF Addressed(E) THEN at' = E.addr /\ stack' = <<E.body>>
            ELSE at' = E.body /\ stack' = <<>>
         /\ E.addr \notin Calls \cup {"-"} => mode' = E.addr
         /\ E.body = "LBRANCH" => cond' = Taken
<1>1. test.prefix \in {0, 16, 17}
  BY InstructionTyped DEF Pages
<1>2. /\ IF E.addr \in Calls THEN Call(E.addr, E.body) ELSE Goto(E.body)
      /\ mode' = IF E.addr \in Calls \cup {"-"} THEN mode ELSE E.addr
      /\ cond' = NewCond(label, test.opcode)
  <2>1. CASE test.prefix = 0
    <3>1. label = "DISPATCH01" /\ E = Page1(Peek(PC(0)))
      BY <2>1 DEF E, EntryOf
    <3> QED BY <3>1 DEF FetchAndDispatch
  <2>2. CASE test.prefix = 16
    <3>1. label = "DISPATCH10" /\ E = Page10(Peek(PC(0)))
      BY <2>2 DEF E, EntryOf
    <3> QED BY <3>1 DEF FetchAndDispatch
  <2>3. CASE test.prefix = 17
    <3>1. label = "DISPATCH11" /\ E = Page11(Peek(PC(0)))
      BY <2>3 DEF E, EntryOf
    <3> QED BY <3>1 DEF FetchAndDispatch
  <2> QED BY <1>1, <2>1, <2>2, <2>3
<1>3. <<E.body>> \o <<>> = <<E.body>>
  <2>1. <<E.body>> \in Seq({E.body})
    OBVIOUS
  <2> QED BY <2>1
<1>4. IF Addressed(E) THEN at' = E.addr /\ stack' = <<E.body>>
      ELSE at' = E.body /\ stack' = <<>>
  BY <1>2, <1>3 DEF Addressed, Call, Goto
<1>5. E.body = "LBRANCH" => cond' = Taken
  <2> SUFFICES ASSUME E.body = "LBRANCH" PROVE cond' = Taken
    OBVIOUS
  <2>1. Row(22) = 1
    BY DEF Row
  <2>2. CASE test.prefix = 0 /\ test.opcode = 22
    <3>1. cond' = TRUE
      BY <1>2, <2>1, <2>2 DEF NewCond
    <3>2. Taken = TRUE
      BY <2>2 DEF Taken
    <3> QED BY <3>1, <3>2
  <2>3. CASE test.prefix = 16 /\ Row(test.opcode) = 2
    <3>1. label # "DISPATCH11" /\ test.opcode # 22
      BY <2>1, <2>3
    <3>2. cond' = BranchCond(Col(test.opcode), cc)
      BY <1>2, <2>3, <3>1 DEF NewCond
    <3>3. BranchCond(Col(test.opcode), cc) \in BOOLEAN
      <4>1. cond \in BOOLEAN
        BY DEF CoreInv, DataOK
      <4>2. NewCond(label, test.opcode) \in BOOLEAN
        BY <4>1, NewCondTyped
      <4> QED BY <1>2, <3>2, <4>2
    <3>4. Taken <=> BranchCond(Col(test.opcode), cc)
      BY <2>3, <3>1 DEF Taken
    <3> QED BY <3>2, <3>3, <3>4 DEF Taken
  <2> QED BY <2>2, <2>3, TestBodies
<1> QED BY <1>2, <1>4, <1>5

LEMMA StartStays ==
  ASSUME UNCHANGED <<reg, mem, bus, test>>
  PROVE  \A n : Opened(n) => Opened(n)'
<1>1. \A k : StartPC(k)' = StartPC(k)
  BY TestKeeps
<1>2. Loaded(test)' = Loaded(test)
  BY TestKeeps
<1> QED BY <1>1, <1>2 DEF Opened

LEMMA ExecuteStarts ==
  ASSUME IInv, test \in Tests, Calm, AtStart, Execute
  PROVE  TestInv'
<1>1. /\ ExecuteOne /\ calls' = calls + 1 /\ test' = test
  BY DEF Execute
<1>2. /\ at = "idle" /\ UNCHANGED <<reg, cc, line, mem, bus, icount, freeRun>>
  BY <1>1 DEF ExecuteOne
<1>3. calls = 0 /\ stack = <<>> /\ Opened(0) /\ cc = test.cc /\ icount = InitialIcount
  BY <1>2 DEF AtStart
<1>4. at' = "MAIN" /\ stack' = <<>> /\ calls' = 1
  BY <1>1, <1>3 DEF ExecuteOne
<1>5. Opened(0)'
  BY <1>1, <1>2, <1>3, StartStays
<1>6. InitialIcount' = InitialIcount
  BY DEF InitialIcount
<1>7. AtStart'
  BY <1>1, <1>2, <1>3, <1>4, <1>5, <1>6 DEF AtStart
<1>8. Calm'
  BY <1>2 DEF Calm
<1> QED BY <1>1, <1>7, <1>8 DEF TestInv

LEMMA MainStarts ==
  ASSUME IInv, test \in Tests, Calm, AtStart, Step, at = "MAIN"
  PROVE  TestInv'
<1>1. Instruction /\ test' = test /\ calls' = calls
  BY DEF Step, genVars
<1>2. MAIN
  BY <1>1, LabelCode
<1>3. line = {}
  BY DEF Calm
<1>4. PendingInterrupt = "none"
  BY <1>3 DEF PendingInterrupt
<1>5. /\ at' = "DISPATCH01" /\ stack' = stack
      /\ UNCHANGED <<reg, cc, line, mem, bus, icount, freeRun>>
  BY <1>2, <1>4 DEF MAIN, Goto
<1>6. calls # 0 /\ stack = <<>> /\ Opened(0) /\ cc = test.cc /\ icount = InitialIcount
  BY DEF AtStart
<1>7. Opened(0)'
  BY <1>1, <1>5, <1>6, StartStays
<1>8. AtStart'
  BY <1>1, <1>5, <1>6, <1>7 DEF AtStart, InitialIcount
<1>9. Calm'
  BY <1>5 DEF Calm
<1> QED BY <1>1, <1>8, <1>9 DEF TestInv

LEMMA FirstDispatch ==
  ASSUME IInv, test \in Tests, Calm, AtStart, Step, at = "DISPATCH01"
  PROVE  TestInv'
<1>1. Instruction /\ test' = test
  BY DEF Step, genVars
<1>2. FetchAndDispatch("DISPATCH01")
  BY <1>1, LabelCode DEF DISPATCH01
<1>3. stack = <<>> /\ Opened(0) /\ cc = test.cc /\ icount = InitialIcount /\ freeRun = FALSE
  BY DEF AtStart, Calm
<1>4. Log(0)
  BY <1>3, StartsLogged DEF Opened
<1>5. DataOK /\ CoreInv
  BY DEF IInv, CoreInv
<1>6. /\ Opened(0 + 1)' /\ Log(0 + 1)' /\ (icount = InitialIcount - (0 + 1))'
      /\ Peek(PC(0)) = Pristine(StartPC(0)) /\ UNCHANGED <<cc, line, freeRun>>
  <2>1. icount = InitialIcount - 0 /\ 0 \in {0, 1}
    BY <1>3 DEF InitialIcount
  <2> QED BY <1>1, <1>2, <1>3, <1>4, <1>5, <2>1, FetchOpens
<1>7. Calm'
  BY <1>6 DEF Calm
<1>8. test.prefix \in {0, 16, 17} /\ test'.prefix = test.prefix /\ test'.cc = test.cc
  BY <1>1, InstructionTyped DEF Pages
<1>9. CASE test.prefix = 0
  <2>1. Peek(PC(0)) = test.opcode
    BY <1>6, <1>9, LoadedCode
  <2>2. /\ IF Addressed(E) THEN at' = E.addr /\ stack' = <<E.body>>
           ELSE at' = E.body /\ stack' = <<>>
        /\ E.addr \notin Calls \cup {"-"} => mode' = E.addr
        /\ E.body = "LBRANCH" => cond' = Taken
    <3>1. "DISPATCH01" = CASE test.prefix = 0 -> "DISPATCH01" [] test.prefix = 16 -> "DISPATCH10"
                   [] test.prefix = 17 -> "DISPATCH11"
      BY <1>9
    <3> QED BY <1>1, <1>2, <1>3, <1>5, <2>1, <3>1, OpcodeDispatched
  <2>3. Head1 = 1
    BY <1>9 DEF Head1, Opening
  <2>4. E' = E /\ Head1' = Head1 /\ (Taken' = Taken)
    BY <1>1, TestKeeps
  <2>5. Opened(Head1)' /\ Log(Head1)' /\ icount' = InitialIcount - Head1
    BY <1>6, <2>3, <2>4 DEF InitialIcount
  <2>6. AtCode'
    BY <2>2, <2>4, <2>5 DEF AtCode, Addressed, InitialIcount
  <2> QED BY <1>1, <1>7, <2>6 DEF TestInv
<1>10. CASE test.prefix # 0
  <2>1. Peek(PC(0)) = test.prefix
    BY <1>6, <1>10, LoadedCode
  <2>2. Page1(16) = Entry("-", "-", "DISPATCH10") /\ Page1(17) = Entry("-", "-", "DISPATCH11")
    <3>1. Row(16) = 1 /\ Row(17) = 1 /\ Col(16) = 0 /\ Col(17) = 1
      BY DEF Row, Col
    <3> QED BY <3>1 DEF Page1, Row1Entry
  <2>3. /\ at' = IF test.prefix = 16 THEN "DISPATCH10" ELSE "DISPATCH11"
        /\ stack' = stack
    <3>1. CASE test.prefix = 16
      <4>1. Page1(Peek(PC(0))).addr = "-" /\ Page1(Peek(PC(0))).body = "DISPATCH10"
        BY <2>1, <2>2, <3>1 DEF Entry
      <4> QED BY <1>2, <1>3, <3>1, <4>1 DEF FetchAndDispatch, Calls, Goto
    <3>2. CASE test.prefix = 17
      <4>1. Page1(Peek(PC(0))).addr = "-" /\ Page1(Peek(PC(0))).body = "DISPATCH11"
        BY <2>1, <2>2, <3>2 DEF Entry
      <4> QED BY <1>2, <1>3, <3>2, <4>1 DEF FetchAndDispatch, Calls, Goto
    <3> QED BY <1>8, <1>10, <3>1, <3>2
  <2>4. AtPage'
    BY <1>3, <1>6, <1>8, <1>10, <2>3 DEF AtPage, InitialIcount
  <2> QED BY <1>1, <1>7, <2>4 DEF TestInv
<1> QED BY <1>9, <1>10

LEMMA SecondDispatch ==
  ASSUME IInv, test \in Tests, Calm, AtPage, Step
  PROVE  TestInv'
<1>1. Instruction /\ test' = test
  BY DEF Step, genVars
<1> DEFINE label == IF test.prefix = 16 THEN "DISPATCH10" ELSE "DISPATCH11"
<1>2. /\ test.prefix # 0 /\ at = label /\ Opened(1) /\ stack = <<>> /\ cc = test.cc
      /\ Log(1) /\ icount = InitialIcount - 1 /\ freeRun = FALSE
  BY DEF AtPage, Calm
<1>3. FetchAndDispatch(label)
  BY <1>1, <1>2, LabelCode DEF DISPATCH10, DISPATCH11
<1>4. DataOK /\ CoreInv
  BY DEF IInv, CoreInv
<1>5. test.prefix \in {16, 17}
  BY <1>2, InstructionTyped DEF Pages
<1>6. label = CASE test.prefix = 0 -> "DISPATCH01" [] test.prefix = 16 -> "DISPATCH10"
                [] test.prefix = 17 -> "DISPATCH11"
  BY <1>5
<1> HIDE DEF label
<1>7. /\ Opened(1 + 1)' /\ Log(1 + 1)' /\ (icount = InitialIcount - (1 + 1))'
      /\ Peek(PC(0)) = Pristine(StartPC(1)) /\ UNCHANGED <<cc, line, freeRun>>
  <2>1. E.body = "XANDCC" => 1 = 0
    BY <1>2, TestBodies
  <2> QED BY <1>1, <1>2, <1>3, <1>4, <2>1, FetchOpens
<1>8. Calm'
  BY <1>7 DEF Calm
<1>9. Peek(PC(0)) = test.opcode
  BY <1>2, <1>7, LoadedCode
<1>10. /\ IF Addressed(E) THEN at' = E.addr /\ stack' = <<E.body>>
          ELSE at' = E.body /\ stack' = <<>>
       /\ E.addr \notin Calls \cup {"-"} => mode' = E.addr
       /\ E.body = "LBRANCH" => cond' = Taken
  BY <1>1, <1>2, <1>3, <1>4, <1>6, <1>9, OpcodeDispatched
<1>11. Head1 = 2
  BY <1>5 DEF Head1, Opening
<1>12. E' = E /\ Head1' = Head1 /\ (Taken' = Taken)
  BY <1>1, TestKeeps
<1>13. Opened(Head1)' /\ Log(Head1)' /\ icount' = InitialIcount - Head1
  BY <1>7, <1>11, <1>12 DEF InitialIcount
<1>14. AtCode'
  BY <1>10, <1>12, <1>13 DEF AtCode, Addressed, InitialIcount
<1> QED BY <1>1, <1>8, <1>14 DEF TestInv

-----------------------------------------------------------------------------
(***************************************************************************)
(* Where the opcode is dispatched, the cycles of the test are the ones     *)
(* counted and the ones ahead, and so are the bytes.                       *)
(***************************************************************************)
LEMMA CyclesWhatever ==
  ASSUME NEW l \in Bodies, NEW m, NEW k, NEW t, NEW s
  PROVE  /\ l # "LBRANCH" => \A u : BodyCycles(l, m, k, t, s) = BodyCycles(l, m, k, u, s)
         /\ l \notin RmwOps \cup {"XNC8", "TST8"} =>
              \A n : BodyCycles(l, m, k, t, s) = BodyCycles(l, n, k, t, s)
         /\ l \notin Alu8Ops \cup Alu16Ops => \A n : BodyBytes(l, m) = BodyBytes(l, n)
<1>1. ASSUME l # "LBRANCH", NEW u PROVE BodyCycles(l, m, k, t, s) = BodyCycles(l, m, k, u, s)
  BY <1>1 DEF BodyCycles, Bodies, Usual, RmwOps, Alu8Ops, Alu16Ops, SoftwareLabels
<1>2. ASSUME l \notin RmwOps \cup {"XNC8", "TST8"}, NEW n
      PROVE  BodyCycles(l, m, k, t, s) = BodyCycles(l, n, k, t, s)
  BY <1>2 DEF BodyCycles, Bodies, Usual, RmwOps, Alu8Ops, Alu16Ops, SoftwareLabels
<1>3. ASSUME l \notin Alu8Ops \cup Alu16Ops, NEW n PROVE BodyBytes(l, m) = BodyBytes(l, n)
  BY <1>3 DEF BodyBytes
<1> QED BY <1>1, <1>2, <1>3

LEMMA LabelCycles ==
  \A l \in Bodies \cup WithOperand \cup {"GOTO_SUBROUTINE", "SOFTWARE_INTERRUPT", "SWI_PUSHED",
                                         "PUSHED", "INTERRUPT_VECTOR"} :
    \A m, k, t, s : BodyCycles(l, m, k, t, s) \in Nat
<1> SUFFICES ASSUME NEW l \in Bodies \cup WithOperand \cup {"GOTO_SUBROUTINE",
                      "SOFTWARE_INTERRUPT", "SWI_PUSHED", "PUSHED", "INTERRUPT_VECTOR"},
                    NEW m, NEW k, NEW t, NEW s
             PROVE  BodyCycles(l, m, k, t, s) \in Nat
  OBVIOUS
<1>1. Offset(k, 256) \in Nat
  BY OffsetIsNat
<1> QED BY <1>1 DEF BodyCycles, Bodies, WithOperand, Usual, RmwOps, Alu8Ops, Alu16Ops,
                    SoftwareLabels

LEMMA BytesTyped == \A l, m : BodyBytes(l, m) \in {0, 1, 2}
  BY DEF BodyBytes

LEMMA CountsTyped ==
  ASSUME test \in Tests
  PROVE  /\ TestCycles \in Int /\ Head1 \in {1, 2} /\ InstructionLength \in Nat
         /\ InstructionLength = Head1
              + (IF Addressed(E) THEN AddressBytes(E.addr, OperandByte) ELSE 0)
              + BodyBytes(E.body, ModeOf(E))
         /\ Addressed(E) => AddressBytes(E.addr, OperandByte) \in Nat
<1>1. TestCycles \in Int /\ Head1 \in {1, 2}
  BY TestAgrees, TestLength
<1>2. InstructionLength = Head1
              + (IF Addressed(E) THEN AddressBytes(E.addr, OperandByte) ELSE 0)
              + BodyBytes(E.body, ModeOf(E))
  BY TestLength DEF CoreBytes, E, Head1
<1>3. Addressed(E) => AddressBytes(E.addr, OperandByte) \in Nat
  <2>1. Col(OperandByte) \in 0..15
    BY PristineTyped, DigitsTyped
  <2>2. IndexedArgs(Col(OperandByte)) \in Nat
    BY <2>1, IndexedCountsTyped
  <2> QED BY <2>2 DEF Addressed, Calls, AddressBytes
<1>4. BodyBytes(E.body, ModeOf(E)) \in {0, 1, 2}
  BY BytesTyped
<1> QED BY <1>1, <1>2, <1>3, <1>4

LEMMA CodeAhead ==
  ASSUME CoreInv, test \in Tests, AtCode
  PROVE  /\ TestCycles = Head1 + Ahead + WaitingCycles
         /\ CodeFetches = Head1 + FetchesAhead
         /\ InstructionLength = Head1 + BytesAhead
         /\ \A k \in Int : PC(k) = StartPC(Head1 + k)
         /\ \A a : Peek(a) = Pristine(a)
         /\ reg["pc"] = StartPC(Head1) /\ Peek(PC(0)) = OperandByte
<1> DEFINE s == Pristine(test.reg["s"])
<1>1. /\ Head1 \in {1, 2} /\ Head1 = PrefixLength(test) + 1
      /\ InstructionLength = Head1
              + (IF Addressed(E) THEN AddressBytes(E.addr, OperandByte) ELSE 0)
              + BodyBytes(E.body, ModeOf(E))
  BY CountsTyped, TestLength
<1>2. TestCycles = Head1 + (IF Addressed(E) THEN AddressCycles(E.addr, OperandByte) ELSE 0)
        + BodyCycles(E.body, ModeOf(E), OperandByte, Taken, s)
  BY DEF TestCycles, CoreCycles, E, Head1
<1>3. Opened(Head1)
  BY DEF AtCode
<1>4. /\ reg["pc"] = StartPC(Head1) /\ reg["s"] = test.reg["s"]
      /\ \A k \in Int : PC(k) = StartPC(Head1 + k)
      /\ \A a : Peek(a) = Pristine(a)
  <2>1. "s" \in Registers \ {"pc"} /\ Head1 \in Int
    BY <1>1 DEF Registers, Reg16
  <2> QED BY <1>3, <2>1, OpenedAt
<1>5. Peek(PC(0)) = OperandByte
  <2>1. PC(0) = StartPC(Head1 + 0) /\ Head1 + 0 = Head1
    BY <1>1, <1>4
  <2>2. OperandByte = Pristine(StartPC(Head1))
    BY <1>1 DEF OperandByte
  <2> QED BY <1>4, <2>1, <2>2
<1>6. /\ E.body \in Bodies /\ (Addressed(E) => E.body \in WithOperand)
      /\ EntryOK(E)
  BY TestBodies, TestEntry
<1> HIDE DEF s
<1>7. CASE Addressed(E)
  <2>1. at = E.addr /\ at \in Calls /\ stack = <<E.body>> /\ ModeOf(E) = "ea" /\ at # "XST16"
    BY <1>7 DEF AtCode, Addressed, ModeOf, Calls
  <2>2. Ahead = AddressCycles(at, OperandByte) /\ BytesAhead = AddressBytes(at, OperandByte)
        /\ FetchesAhead = BytesAhead
    BY <1>5, <2>1 DEF Ahead, BytesAhead, FetchesAhead, Calls
  <2>3. WaitingCycles = BodyCycles(E.body, "ea", 0, FALSE, 0)
    <3>1. stack # <<>> /\ Head(stack) = E.body
      BY <2>1
    <3> QED BY <3>1 DEF WaitingCycles
  <2>4. BodyCycles(E.body, "ea", OperandByte, Taken, s) = WaitingCycles
    BY <1>6, <1>7, <2>3, OperandCycles
  <2>5. BodyBytes(E.body, "ea") = 0 /\ E.body # "XST16"
    BY <1>6, <1>7, OperandBytes
  <2>6. AddressBytes(at, OperandByte) \in Nat
    BY <1>7, <2>1, CountsTyped
  <2>7. TestCycles = Head1 + Ahead + WaitingCycles
    BY <1>2, <1>7, <2>1, <2>2, <2>4
  <2>8. InstructionLength = Head1 + BytesAhead
    BY <1>1, <1>7, <2>1, <2>2, <2>5, <2>6
  <2>9. CodeFetches = Head1 + FetchesAhead
    BY <2>2, <2>5, <2>8 DEF CodeFetches
  <2> QED BY <1>4, <1>5, <2>7, <2>8, <2>9
<1>8. CASE ~Addressed(E)
  <2>1. at = E.body /\ stack = <<>>
    BY <1>8 DEF AtCode
  <2>2. at \notin Calls \cup {"PUSH_REGISTERS", "PULL_REGISTERS", "idle"}
    BY <1>6, <2>1 DEF Bodies, Usual, RmwOps, Alu8Ops, Alu16Ops, Calls
  <2>3. /\ Ahead = BodyCycles(at, mode, OperandByte, cond, s)
        /\ BytesAhead = BodyBytes(at, mode)
        /\ FetchesAhead = IF at = "XST16" THEN 1 ELSE BytesAhead
    BY <1>4, <1>5, <2>2, AheadOf DEF FetchesAhead, s
  <2>4. WaitingCycles = 0
    BY <2>1 DEF WaitingCycles
  <2>5. BodyCycles(at, mode, OperandByte, cond, s) = BodyCycles(at, mode, OperandByte, Taken, s)
    <3>1. CASE at = "LBRANCH"
      BY <2>1, <3>1 DEF AtCode
    <3>2. CASE at # "LBRANCH"
      BY <1>6, <2>1, <3>2, CyclesWhatever
    <3> QED BY <3>1, <3>2
  <2>6. /\ BodyCycles(at, mode, OperandByte, Taken, s)
             = BodyCycles(at, ModeOf(E), OperandByte, Taken, s)
        /\ BodyBytes(at, mode) = BodyBytes(at, ModeOf(E))
    <3>1. CASE E.addr # "-"
      <4>1. mode = ModeOf(E)
        BY <1>8, <3>1 DEF AtCode, ModeOf, Addressed
      <4> QED BY <4>1
    <3>2. CASE E.addr = "-"
      <4>1. at \in Inherent
        BY <1>6, <2>1, <3>2 DEF EntryOK, Calls
      <4>2. at \notin RmwOps \cup {"XNC8", "TST8"} /\ at \notin Alu8Ops \cup Alu16Ops
        BY <4>1 DEF Inherent, RmwOps, Alu8Ops, Alu16Ops
      <4> QED BY <1>6, <2>1, <4>2, CyclesWhatever
    <3> QED BY <3>1, <3>2
  <2>7. TestCycles = Head1 + Ahead + WaitingCycles
    <3>1. Head1 \in Int /\ TestCycles \in Int
      BY CountsTyped
    <3>2. TestCycles = Head1 + 0 + Ahead
      BY <1>2, <1>8, <2>1, <2>3, <2>5, <2>6
    <3>3. BodyCycles(E.body, mode, OperandByte, cond, s) \in Nat
      BY <1>6, LabelCycles
    <3>4. Ahead \in Int
      BY <2>1, <2>3, <3>3
    <3> QED BY <2>4, <3>1, <3>2, <3>4
  <2>8. InstructionLength = Head1 + BytesAhead
    BY <1>1, <1>8, <2>1, <2>3, <2>6, BytesTyped
  <2>9. CodeFetches = Head1 + FetchesAhead
    <3>1. at = "XST16" => BytesAhead = 2
      BY <2>3, BytesOf
    <3> QED BY <1>1, <2>1, <2>3, <2>8, <3>1 DEF CodeFetches
  <2> QED BY <1>4, <1>5, <2>7, <2>8, <2>9
<1> QED BY <1>7, <1>8

-----------------------------------------------------------------------------
(***************************************************************************)
(* The labels behind the dispatch.                                         *)
(***************************************************************************)
LEMMA LateIs ==
  \A b, l :
    l \in Late(b) <=>
      \/ b = "XNC8" /\ l \in {"COM8", "NEG8"}
      \/ b \in {"BSR", "LBSR", "JSR"} /\ l = "GOTO_SUBROUTINE"
      \/ b \in {"PSHS", "PSHU"} /\ l = "PUSH_REGISTERS"
      \/ b \in {"PULS", "PULU", "RTS", "RTI"} /\ l = "PULL_REGISTERS"
      \/ b \in SoftwareLabels
           /\ l \in {"SOFTWARE_INTERRUPT", "SWI_PUSHED", "PUSHED", "INTERRUPT_VECTOR"}
  BY DEF Late, SoftwareLabels

\* Behind the first label everything is counted and nothing is fetched.
LEMMA PathTyped ==
  ASSUME test \in Tests, Path
  PROVE  /\ Ahead \in Nat /\ WaitingCycles \in Nat /\ BytesAhead = 0 /\ FetchesAhead = 0
         /\ at \notin Opened01 \cup Calls
<1>1. Addressed(E) => E.body \in WithOperand
  BY TestBodies
<1>2. Offset(temp, 256) \in Nat
  BY OffsetIsNat
<1>3. CASE at = "idle" /\ (stack = <<>> \/ (Addressed(E) /\ stack = <<E.body>>))
  <2>1. Ahead = 0 /\ BytesAhead = 0 /\ FetchesAhead = 0 /\ at \notin Opened01 \cup Calls
    BY <1>3 DEF Ahead, BytesAhead, FetchesAhead, Calls, Opened01
  <2>2. CASE stack = <<>>
    BY <2>1, <2>2 DEF WaitingCycles
  <2>3. CASE Addressed(E) /\ stack = <<E.body>>
    <3>1. stack # <<>> /\ Head(stack) = E.body
      BY <2>3
    <3>2. BodyCycles(E.body, "ea", 0, FALSE, 0) \in Nat
      BY <1>1, <2>3, LabelCycles
    <3> QED BY <2>1, <3>1, <3>2 DEF WaitingCycles
  <2> QED BY <1>3, <2>2, <2>3
<1>4. CASE Addressed(E) /\ mode = "ea" /\ at = E.body /\ stack = <<>>
  <2>1. at \in WithOperand
    BY <1>1, <1>4
  <2>2. at \notin Calls \cup {"PUSH_REGISTERS", "PULL_REGISTERS", "idle", "XST16"} \cup Opened01
    BY <2>1 DEF WithOperand, RmwOps, Alu8Ops, Alu16Ops, Calls, Opened01
  <2>3. BodyBytes(at, mode) = 0
    BY <1>4, <2>1, OperandBytes
  <2>4. BodyCycles(at, mode, Peek(PC(0)), cond, Peek(reg["s"])) \in Nat
    BY <2>1, LabelCycles
  <2> QED BY <1>4, <2>2, <2>3, <2>4, AheadOf DEF WaitingCycles
<1>5. CASE at \in Late(E.body) /\ stack = <<>>
  <2>1. at \in {"COM8", "NEG8", "GOTO_SUBROUTINE", "PUSH_REGISTERS", "PULL_REGISTERS",
                "SOFTWARE_INTERRUPT", "SWI_PUSHED", "PUSHED", "INTERRUPT_VECTOR"}
    BY <1>5, LateIs
  <2>2. at \notin Calls \cup {"idle", "XST16"} \cup Opened01
    BY <2>1 DEF Calls, Opened01
  <2>3. BytesAhead = BodyBytes(at, mode) /\ FetchesAhead = BytesAhead
    BY <2>2, AheadOf
  <2>4. BodyBytes(at, mode) = 0
    <3>1. CASE at \in {"COM8", "NEG8"}
      BY <3>1, BytesOf DEF RmwOps
    <3>2. CASE at = "SOFTWARE_INTERRUPT"
      BY <3>2, BytesOf DEF SoftwareLabels
    <3>3. CASE at \in {"GOTO_SUBROUTINE", "PUSH_REGISTERS", "PULL_REGISTERS", "SWI_PUSHED",
                       "PUSHED", "INTERRUPT_VECTOR"}
      BY <3>3, BytesOf
    <3> QED BY <2>1, <3>1, <3>2, <3>3
  <2>5. CASE at \in {"PUSH_REGISTERS", "PULL_REGISTERS"}
    BY <1>2, <1>5, <2>2, <2>3, <2>4, <2>5 DEF Ahead, WaitingCycles, Calls
  <2>6. CASE at \notin {"PUSH_REGISTERS", "PULL_REGISTERS"}
    <3>1. at \in WithOperand \cup {"GOTO_SUBROUTINE", "SOFTWARE_INTERRUPT", "SWI_PUSHED",
                                   "PUSHED", "INTERRUPT_VECTOR"}
      BY <2>1, <2>6 DEF WithOperand, RmwOps
    <3>2. BodyCycles(at, mode, Peek(PC(0)), cond, Peek(reg["s"])) \in Nat
      BY <3>1, LabelCycles
    <3> QED BY <1>5, <2>2, <2>3, <2>4, <2>6, <3>2, AheadOf DEF WaitingCycles
  <2> QED BY <2>5, <2>6
<1>6. CASE /\ stack \in {<<"SWI_PUSHED">>, <<"PUSHED">>}
           /\ at \in {"idle", "PUSH_REGISTERS"}
  <2>1. at \notin Calls \cup {"XST16"} \cup Opened01
    BY <1>6 DEF Calls, Opened01
  <2>2. BytesAhead = 0 /\ FetchesAhead = 0
    BY <1>6, <2>1, BytesOf DEF BytesAhead, FetchesAhead, Calls
  <2>3. Ahead \in Nat
    BY <1>2, <1>6 DEF Ahead, Calls
  <2>4. PICK l \in {"SWI_PUSHED", "PUSHED"} : stack = <<l>>
    BY <1>6
  <2>5. stack # <<>> /\ Head(stack) = l
    BY <2>4
  <2>6. BodyCycles(l, "ea", 0, FALSE, 0) \in Nat
    BY LabelCycles
  <2> QED BY <2>1, <2>2, <2>3, <2>5, <2>6 DEF WaitingCycles
<1> QED BY <1>3, <1>4, <1>5, <1>6 DEF Path

\* The counts of the budget and of the log move on together.
LEMMA Accounts ==
  ASSUME test \in Tests, DataOK, test' = test, NEW m, NEW f, Moves(m, f),
         NEW n \in Nat, Log(n), n + f = CodeFetches,
         f # 0 => Len(bus) = n /\ reg["pc"] = StartPC(n) /\ mem = Loaded(test),
         icount = InitialIcount - Len(bus) - Lost(2),
         \A k \in Nat : k > Len(bus) => Lost(k) = Lost(2),
         icount + TestCycles = InitialIcount + Ahead + WaitingCycles,
         m + Ahead' + WaitingCycles' = Ahead + WaitingCycles,
         Ahead \in Nat, WaitingCycles \in Nat, Ahead' \in Nat, WaitingCycles' \in Nat
  PROVE  /\ Log(CodeFetches)'
         /\ (icount = InitialIcount - Len(bus) - Lost(2))'
         /\ (icount + TestCycles = InitialIcount + Ahead + WaitingCycles)'
<1>1. m \in Nat /\ f \in 0..m /\ icount' = icount - m /\ icount \in Int
  BY MovesTyped DEF DataOK
<1>2. TestCycles' = TestCycles /\ TestCycles \in Int /\ Lost(2)' = Lost(2)
      /\ CodeFetches' = CodeFetches
  BY TestKeeps, CountsTyped
<1>3. InitialIcount \in Int
  BY DEF InitialIcount
<1>4. (icount + TestCycles = InitialIcount + Ahead + WaitingCycles)'
  <2> DEFINE a == Ahead  b == WaitingCycles  a1 == Ahead'  b1 == WaitingCycles'  t == TestCycles
             i == icount  i1 == icount'
  <2>1. /\ a \in Nat /\ b \in Nat /\ a1 \in Nat /\ b1 \in Nat /\ t \in Int /\ i \in Int
        /\ m + a1 + b1 = a + b /\ i + t = InitialIcount + a + b /\ i1 = i - m
    BY <1>1, <1>2
  <2> HIDE DEF a, b, a1, b1, t, i, i1
  <2>2. i1 + t = InitialIcount + a1 + b1
    BY <1>1, <1>3, <2>1
  <2>3. icount' + TestCycles' = InitialIcount + Ahead' + WaitingCycles'
    BY <1>2, <2>2 DEF a1, b1, t, i1
  <2> QED BY <2>3 DEF InitialIcount
<1>5. Log(n + f)' /\ (icount = InitialIcount - Len(bus) - Lost(2))'
  <2>1. Lost(2) \in Int
    BY DEF Lost
  <2> DEFINE c == Lost(2)
  <2>2. \A k \in Nat : (k > Len(bus) /\ k <= Len(bus) + m) => Lost(k) = c
    OBVIOUS
  <2>3. c \in Int /\ icount = InitialIcount - Len(bus) - c
    BY <2>1
  <2>4. PICK e \in Int : e = c
    BY <2>3
  <2>5. /\ \A k \in Nat : (k > Len(bus) /\ k <= Len(bus) + m) => Lost(k) = e
        /\ icount = InitialIcount - Len(bus) - e
    BY <2>2, <2>3, <2>4
  <2>6. Log(n + f)' /\ (icount = InitialIcount - Len(bus) - e)'
    BY <2>5, LogGrows
  <2>7. Lost(2)' = e
    BY <1>2, <2>4
  <2> QED BY <2>6, <2>7 DEF InitialIcount
<1>6. Log(CodeFetches)'
  <2>1. CodeFetches' = n + f
    BY <1>2
  <2> QED BY <1>5, <2>1 DEF Log
<1> QED BY <1>4, <1>5, <1>6

LEMMA PathTypedNow ==
  (test \in Tests /\ Path) =>
    (Ahead \in Nat /\ WaitingCycles \in Nat /\ BytesAhead = 0 /\ FetchesAhead = 0
      /\ at \notin Opened01 \cup Calls)
  BY PathTyped

LEMMA PathTypedNext ==
  ASSUME test \in Tests, test' = test, Path'
  PROVE  /\ Ahead' \in Nat /\ WaitingCycles' \in Nat /\ BytesAhead' = 0 /\ FetchesAhead' = 0
         /\ at' \notin Opened01 \cup Calls
<1>1. ((test \in Tests /\ Path) =>
    (Ahead \in Nat /\ WaitingCycles \in Nat /\ BytesAhead = 0 /\ FetchesAhead = 0
      /\ at \notin Opened01 \cup Calls))'
  BY PathTypedNow, PTL
<1>2. (test \in Tests)'
  OBVIOUS
<1> QED BY <1>1, <1>2 DEF Opened01, Calls

LEMMA Moved ==
  ASSUME IInv, test \in Tests, test' = test, Advances, Path',
         NEW n \in Nat, Log(n), n + FetchesAhead = CodeFetches,
         FetchesAhead # 0 => Len(bus) = n /\ reg["pc"] = StartPC(n) /\ mem = Loaded(test),
         icount = InitialIcount - Len(bus) - Lost(2),
         \A k \in Nat : k > Len(bus) => Lost(k) = Lost(2),
         icount + TestCycles = InitialIcount + Ahead + WaitingCycles,
         Ahead \in Nat, WaitingCycles \in Nat
  PROVE  /\ Log(CodeFetches)'
         /\ (icount = InitialIcount - Len(bus) - Lost(2))'
         /\ (icount + TestCycles = InitialIcount + Ahead + WaitingCycles)'
<1>1. PICK m \in Nat : Moves(m, FetchesAhead) /\ m + Ahead' + WaitingCycles' = Ahead + WaitingCycles
  BY DEF Advances
<1>2. Ahead' \in Nat /\ WaitingCycles' \in Nat /\ DataOK
  BY PathTypedNext DEF IInv, CoreInv
<1>3. PICK f : f = FetchesAhead
  OBVIOUS
<1>4. Moves(m, f) /\ n + f = CodeFetches
      /\ (f # 0 => Len(bus) = n /\ reg["pc"] = StartPC(n) /\ mem = Loaded(test))
  BY <1>1, <1>3
<1>5. m + Ahead' + WaitingCycles' = Ahead + WaitingCycles
  BY <1>1
<1> QED BY <1>2, <1>4, <1>5, Accounts

(***************************************************************************)
(* The return addresses that the labels leave on the stack.                *)
(***************************************************************************)
LEMMA PairHalves == \A v \in Word : Pair(Hi(v), Lo(v)) = v
<1> SUFFICES ASSUME NEW v \in Word PROVE Pair(Hi(v), Lo(v)) = v
  OBVIOUS
<1>1. v \in Int
  BY WordIs
<1> QED BY <1>1 DEF Pair, Hi, Lo

LEMMA SubroutineLands ==
  ASSUME CoreInv, GOTO_SUBROUTINE
  PROVE  WordAt(reg["s"])' = reg["pc"]
<1>1. DataOK
  BY DEF CoreInv
<1>2. reg["pc"] \in Word /\ reg["s"] \in Word
  BY <1>1, RegTyped DEF DataOK
<1>3. ToWord(reg["s"] - 2) \in Word
  <2>1. reg["s"] - 2 \in Int
    BY <1>2, WordIs
  <2> QED BY <2>1, ToWordTyped
<1>4. PICK s2 \in Word : s2 = ToWord(reg["s"] - 2)
  BY <1>3
<1>5. PICK v \in Word : v = reg["pc"]
  BY <1>2
<1>6. PICK bytes : bytes = <<Hi(v), Lo(v)>>
  OBVIOUS
<1>7. mem' = Stored(s2, bytes) /\ reg'["s"] = s2
  <2>1. "s" \in DOMAIN reg
    BY <1>1 DEF DataOK, RegOK, Registers, Reg16
  <2>2. mem' = Stored(s2, <<Hi(v), Lo(v)>>) /\ reg' = [reg EXCEPT !["pc"] = ea, !["s"] = s2]
    BY <1>4, <1>5 DEF GOTO_SUBROUTINE
  <2> QED BY <1>6, <2>1, <2>2
<1>8. /\ bytes \in Seq(Byte) /\ Len(bytes) = 2 /\ bytes[0 + 1] = Hi(v) /\ bytes[0 + 2] = Lo(v)
  <2>1. Hi(v) \in Byte /\ Lo(v) \in Byte
    BY HalvesTyped
  <2> QED BY <1>6, <2>1
<1>9. \A k \in 1..Len(bytes) : Peek(ToWord(s2 + k - 1))' = bytes[k]
  <2>1. bytes \in Seq(Byte) /\ Len(bytes) <= 65536
    BY <1>8
  <2>2. mem' = Stored(s2, bytes)
    BY <1>7
  <2> QED BY <2>1, <2>2, PeekStored
<1>10. Peek(ToWord(s2))' = Hi(v) /\ Peek(ToWord(s2 + 1))' = Lo(v)
  <2>1. s2 \in Int /\ s2 + 1 - 1 = s2 /\ s2 + 2 - 1 = s2 + 1
    BY WordIs
  <2>2. 1 \in 1..Len(bytes) /\ 2 \in 1..Len(bytes)
    BY <1>8
  <2>3. Peek(ToWord(s2 + 1 - 1))' = bytes[1] /\ Peek(ToWord(s2 + 2 - 1))' = bytes[2]
    BY <1>9, <2>2
  <2> QED BY <1>8, <2>1, <2>3
<1> QED BY <1>5, <1>7, <1>10, PairHalves DEF WordAt

LEMMA FrameLands ==
  ASSUME CoreInv, PUSH_REGISTERS, regop = "s", temp = EntireState
  PROVE  WordAt(reg["s"] + 10)' = reg["pc"]
<1>1. DataOK
  BY DEF CoreInv
<1>2. reg["pc"] \in Word /\ reg["s"] \in Word
  BY <1>1, RegTyped DEF DataOK
<1>3. ToWord(reg["s"] - 12) \in Word
  <2>1. reg["s"] - 12 \in Int
    BY <1>2, WordIs
  <2> QED BY <2>1, ToWordTyped
<1>4. PICK sp \in Word : sp = ToWord(reg["s"] - 12)
  BY <1>3
<1>5. PICK v \in Word : v = reg["pc"]
  BY <1>2
<1>6. PICK frame : frame = Frame(temp)
  OBVIOUS
<1>7. Len(frame) = 12 /\ frame \in Seq(Byte)
      /\ frame[11] = Hi(v) /\ frame[12] = Lo(v)
  <2>1. temp = 255 /\ Has(255, 128)
    <3>1. Has(255, 128)
      BY DEF Has, Bit
    <3> QED BY <3>1 DEF EntireState
  <2>2. Offset(temp, 256) = 12
    BY <2>1, FullOffsets
  <2>3. Len(frame) = 12 /\ frame \in Seq(Byte)
    BY <1>1, <1>6, <2>2, FrameTyped
  <2>4. frame[Len(frame) - 1] = Hi(v) /\ frame[Len(frame)] = Lo(v)
    BY <1>1, <1>5, <1>6, <2>1, FrameTyped
  <2> QED BY <2>3, <2>4
<1>8. mem' = Stored(sp, frame) /\ reg'["s"] = sp
  <2>1. "s" \in DOMAIN reg
    BY <1>1 DEF DataOK, RegOK, Registers, Reg16
  <2>2. /\ mem' = Stored(ToWord(reg[regop] - Len(Frame(temp))), Frame(temp))
        /\ reg' = [reg EXCEPT ![regop] = ToWord(reg[regop] - Len(Frame(temp)))]
    BY DEF PUSH_REGISTERS
  <2>3. ToWord(reg[regop] - Len(Frame(temp))) = sp
    BY <1>4, <1>6, <1>7
  <2> QED BY <1>6, <2>1, <2>2, <2>3
<1>9. \A k \in 1..Len(frame) : Peek(ToWord(sp + k - 1))' = frame[k]
  <2>1. frame \in Seq(Byte) /\ Len(frame) <= 65536
    BY <1>7
  <2>2. mem' = Stored(sp, frame)
    BY <1>8
  <2> QED BY <2>1, <2>2, PeekStored
<1>10. Peek(ToWord(sp + 10))' = Hi(v) /\ Peek(ToWord(sp + 10 + 1))' = Lo(v)
  <2>1. sp \in Int /\ sp + 11 - 1 = sp + 10 /\ sp + 12 - 1 = sp + 10 + 1
    BY WordIs
  <2>2. 11 \in 1..Len(frame) /\ 12 \in 1..Len(frame)
    BY <1>7
  <2>3. Peek(ToWord(sp + 11 - 1))' = frame[11] /\ Peek(ToWord(sp + 12 - 1))' = frame[12]
    BY <1>9, <2>2
  <2> QED BY <1>7, <2>1, <2>3
<1> QED BY <1>5, <1>8, <1>10, PairHalves DEF WordAt

-----------------------------------------------------------------------------
(***************************************************************************)
(* From the dispatched opcode on.                                          *)
(***************************************************************************)
LEMMA CodeTyped ==
  ASSUME test \in Tests, AtCode, Peek(PC(0)) = OperandByte
  PROVE  Ahead \in Nat /\ WaitingCycles \in Nat
<1>1. E.body \in Bodies /\ (Addressed(E) => E.body \in WithOperand)
  BY TestBodies
<1>2. CASE Addressed(E)
  <2>1. at = E.addr /\ at \in Calls /\ stack = <<E.body>>
    BY <1>2 DEF AtCode, Addressed
  <2>2. Ahead = AddressCycles(at, OperandByte)
    BY <2>1 DEF Ahead, Calls
  <2>3. AddressCycles(at, OperandByte) \in Nat
    <3>1. Col(OperandByte) \in 0..15
      BY PristineTyped, DigitsTyped
    <3>2. /\ IndexedArgs(Col(OperandByte)) \in Nat /\ IndexedDeads(Col(OperandByte)) \in Nat
          /\ IndexedVmas(Col(OperandByte)) \in Nat
      BY <3>1, IndexedCountsTyped
    <3> QED BY <2>1, <3>2 DEF AddressCycles, Calls
  <2>4. WaitingCycles = BodyCycles(E.body, "ea", 0, FALSE, 0)
    <3>1. stack # <<>> /\ Head(stack) = E.body
      BY <2>1
    <3> QED BY <3>1 DEF WaitingCycles
  <2>5. BodyCycles(E.body, "ea", 0, FALSE, 0) \in Nat
    BY <1>1, LabelCycles
  <2> QED BY <2>2, <2>3, <2>4, <2>5
<1>3. CASE ~Addressed(E)
  <2>1. at = E.body /\ stack = <<>>
    BY <1>3 DEF AtCode
  <2>2. at \notin Calls \cup {"PUSH_REGISTERS", "PULL_REGISTERS", "idle"}
    BY <1>1, <2>1 DEF Bodies, Usual, RmwOps, Alu8Ops, Alu16Ops, Calls
  <2>3. Ahead = BodyCycles(at, mode, Peek(PC(0)), cond, Peek(reg["s"]))
    BY <2>2, AheadOf
  <2>4. BodyCycles(at, mode, Peek(PC(0)), cond, Peek(reg["s"])) \in Nat
    BY <1>1, <2>1, LabelCycles
  <2>5. WaitingCycles = 0
    BY <2>1 DEF WaitingCycles
  <2> QED BY <2>3, <2>4, <2>5
<1> QED BY <1>2, <1>3

LEMMA BytesAheadTyped ==
  ASSUME test \in Tests, Peek(PC(0)) = OperandByte
  PROVE  BytesAhead \in Int
<1>1. Col(OperandByte) \in 0..15
  BY PristineTyped, DigitsTyped
<1>2. IndexedArgs(Col(OperandByte)) \in Nat
  BY <1>1, IndexedCountsTyped
<1>3. at \in Calls => BytesAhead \in Int
  BY <1>2 DEF BytesAhead, AddressBytes, Calls
<1>4. at \notin Calls => BytesAhead \in Int
  BY BytesTyped DEF BytesAhead
<1> QED BY <1>3, <1>4

\* What Onward says of the labels, next to what it counts.
Course ==
  /\ calls # 0 /\ Path
  /\ E.body \in {"PULS", "PULU"} /\ at = "PULL_REGISTERS" => temp = OperandByte
  /\ Saved => WordAt(reg["s"] + 10) = Behind1
  /\ IF Busy THEN reg["pc"] = Behind1 ELSE Landed

\* Where the label of a dispatched opcode leads.
LEMMA CodeLeads ==
  ASSUME test \in Tests, AtCode, Peek(PC(0)) = OperandByte, Leads, test' = test
  PROVE  /\ Path' /\ at' # "idle" /\ ~Saved' /\ ~Addressed(E)
         /\ (E.body \in {"PULS", "PULU"} /\ at = "PULL_REGISTERS" => temp = OperandByte)'
<1>1. E.body \in Bodies /\ E' = E /\ OperandByte' = OperandByte
  BY TestBodies, TestKeeps
<1>2. at \in Leading
  BY LeadsTo
<1>3. ~Addressed(E) /\ at = E.body /\ stack = <<>>
  <2>1. Addressed(E) => at \in Calls
    BY DEF AtCode, Addressed
  <2>2. at \notin Calls
    BY <1>2 DEF Leading, Calls, SoftwareLabels
  <2> QED BY <2>1, <2>2 DEF AtCode
<1>4. at \notin {"SWI_PUSHED", "PUSHED", "SOFTWARE_INTERRUPT"}
  BY <1>1, <1>3 DEF Bodies, Usual, RmwOps, Alu8Ops, Alu16Ops
<1>5. CASE at \in SoftwareLabels \ {"SWI2", "SWI3"}
  <2>1. /\ at' = "PUSH_REGISTERS" /\ regop' = "s" /\ temp' = EntireState
        /\ stack' = <<IF at = "SWI" THEN "SWI_PUSHED" ELSE "PUSHED">> \o stack
    BY <1>5, LeadsTo
  <2>2. stack' \in {<<"SWI_PUSHED">>, <<"PUSHED">>}
    <3> DEFINE k == IF at = "SWI" THEN "SWI_PUSHED" ELSE "PUSHED"
    <3>1. k \in {"SWI_PUSHED", "PUSHED"}
      OBVIOUS
    <3>2. stack' = <<k>> \o <<>>
      BY <1>3, <2>1
    <3> HIDE DEF k
    <3>3. <<k>> \in Seq({"SWI_PUSHED", "PUSHED"})
      BY <3>1
    <3>4. <<k>> \o <<>> = <<k>>
      BY <3>3
    <3>5. <<k>> \in {<<"SWI_PUSHED">>, <<"PUSHED">>}
      BY <3>1
    <3> QED BY <3>2, <3>4, <3>5
  <2>3. E.body \in SoftwareLabels
    BY <1>3, <1>5
  <2>4. Path'
    BY <1>1, <2>1, <2>2, <2>3 DEF Path, EntireState, SoftwareLabels
  <2> QED BY <1>1, <1>3, <2>1, <2>4 DEF Saved
<1>6. CASE at \in {"SWI2", "SWI3"}
  <2>1. at' = "SOFTWARE_INTERRUPT" /\ stack' = stack
    BY <1>6, LeadsTo DEF Goto
  <2>2. at' \in Late(E.body)
    BY <1>3, <1>6, <2>1, LateIs DEF SoftwareLabels
  <2>3. Path'
    BY <1>1, <1>3, <2>1, <2>2 DEF Path, Late
  <2> QED BY <1>3, <2>1, <2>3 DEF Saved
<1>7. CASE at \in {"XNC8", "BSR", "LBSR", "JSR", "PSHS", "PSHU", "PULS", "PULU", "RTS", "RTI"}
  <2>1. /\ at = "XNC8" => at' \in {"COM8", "NEG8"} /\ stack' = stack
        /\ at \in {"BSR", "LBSR", "JSR"} => at' = "GOTO_SUBROUTINE" /\ stack' = stack
        /\ at \in {"PSHS", "PSHU"} => at' = "PUSH_REGISTERS" /\ stack' = stack
        /\ at \in {"PULS", "PULU"} =>
             at' = "PULL_REGISTERS" /\ stack' = stack /\ temp' = OperandByte
        /\ at \in {"RTS", "RTI"} => at' = "PULL_REGISTERS" /\ stack' = stack
    BY LeadsTo DEF Goto
  <2>2. at' \in Late(E.body) /\ stack' = stack
    BY <1>3, <1>7, <2>1, LateIs
  <2>3. Path'
    BY <1>1, <1>3, <2>2 DEF Path, Late
  <2>4. at' \notin {"SWI_PUSHED", "PUSHED", "INTERRUPT_VECTOR", "idle"}
    BY <1>7, <2>1
  <2>5. (E.body \in {"PULS", "PULU"} /\ at = "PULL_REGISTERS" => temp = OperandByte)'
    BY <1>1, <1>3, <2>1
  <2> QED BY <1>3, <2>3, <2>4, <2>5 DEF Saved
<1> QED BY <1>2, <1>4, <1>5, <1>6, <1>7 DEF Leading

\* A label that diverts is not one of an instruction that goes straight on.
LEMMA StraightOn ==
  ASSUME test \in Tests, Diverts, Straight,
         at \in {"EXG", "TFR"} => at = E.body /\ Peek(PC(0)) = OperandByte,
         at \in {"BRANCH", "LBRANCH", "JMP"} => at = E.body,
         at = "GOTO_SUBROUTINE" => E.body \in {"BSR", "LBSR", "JSR"},
         at = "INTERRUPT_VECTOR" => E.body \in SoftwareLabels,
         at = "PULL_REGISTERS" =>
           E.body \in {"RTS", "RTI"} \/ (E.body \in {"PULS", "PULU"} /\ temp = OperandByte)
  PROVE  FALSE
<1>1. at \notin {"BRANCH", "LBRANCH", "JMP", "GOTO_SUBROUTINE", "INTERRUPT_VECTOR"}
  BY DEF Straight
<1>2. ~(at = "PULL_REGISTERS" /\ Has(temp, \h80))
  BY DEF Straight
<1>3. ~(at = "EXG" /\ 5 \in {Row(Peek(PC(0))), Col(Peek(PC(0)))})
  BY DEF Straight
<1>4. ~(at = "TFR" /\ Col(Peek(PC(0))) = 5)
  BY DEF Straight
<1> QED BY <1>1, <1>2, <1>3, <1>4 DEF Diverts

LEMMA CodeCourse ==
  ASSUME IInv, test \in Tests, AtCode, at # "XANDCC", Instruction,
         test' = test, calls' = calls, Advances
  PROVE  Course' /\ UNCHANGED <<line, freeRun>>
<1>1. CoreInv /\ DataOK
  BY DEF IInv, CoreInv
<1>2. /\ InstructionLength = Head1 + BytesAhead /\ Peek(PC(0)) = OperandByte
      /\ \A k \in Int : PC(k) = StartPC(Head1 + k)
  BY <1>1, CodeAhead
<1>3. /\ E.body \in Bodies /\ (Addressed(E) => E.body \in WithOperand) /\ Head1 \in {1, 2}
      /\ InstructionLength \in Nat
  BY TestBodies, CountsTyped
<1>4. PC(BytesAhead) = Behind1
  <2>1. BytesAhead \in Int
    BY <1>2, BytesAheadTyped
  <2> QED BY <1>2, <2>1 DEF Behind1
<1>5. /\ E' = E /\ Behind1' = Behind1 /\ (Straight' <=> Straight)
      /\ OperandByte' = OperandByte
  BY TestKeeps
<1>6. at \notin Opened01 /\ calls # 0 /\ at # "idle"
  <2>1. (at = E.addr /\ at \in Calls) \/ at = E.body
    BY DEF AtCode, Addressed
  <2>2. at \notin Opened01 /\ at # "idle"
    BY <1>3, <2>1 DEF Calls, Bodies, Usual, RmwOps, Alu8Ops, Alu16Ops, Opened01
  <2>3. calls # 0
    BY <2>2 DEF IInv, CallsOK
  <2> QED BY <2>2, <2>3
<1>7. Ends \/ Addresses \/ Leads
  BY <1>6, LabelCode
<1>8. CASE Leads
  <2>1. /\ Path' /\ at' # "idle" /\ ~Saved' /\ UNCHANGED <<line, freeRun>>
        /\ (E.body \in {"PULS", "PULU"} /\ at = "PULL_REGISTERS" => temp = OperandByte)'
    BY <1>2, <1>8, CodeLeads, LeadsTo
  <2>2. reg'["pc"] = Behind1
    BY <1>4, <2>1 DEF Advances, Return, Goto
  <2> QED BY <1>5, <1>6, <2>1, <2>2 DEF Course, Busy
<1>9. CASE Addresses
  <2>1. at' = "idle" /\ stack' = stack /\ mode' = "ea" /\ UNCHANGED <<line, freeRun>>
        /\ at \in Calls
    BY <1>9, AddressesReturn DEF Return, Goto
  <2>2. Addressed(E) /\ stack = <<E.body>>
    <3>1. ~Addressed(E) => at \in Bodies
      BY <1>3 DEF AtCode
    <3>2. at \notin Bodies
      BY <2>1 DEF Calls, Bodies, Usual, RmwOps, Alu8Ops, Alu16Ops
    <3> QED BY <3>1, <3>2 DEF AtCode
  <2>3. Path' /\ stack' # <<>>
    BY <1>5, <2>1, <2>2 DEF Path, Addressed
  <2>4. ~Saved'
    <3>1. E.body \notin SoftwareLabels
      BY <1>3, <2>2 DEF WithOperand, SoftwareLabels, RmwOps, Alu8Ops, Alu16Ops
    <3> QED BY <1>5, <3>1 DEF Saved, SoftwareLabels
  <2>5. ~Diverts
    BY <2>1 DEF Diverts, Calls
  <2>6. reg'["pc"] = Behind1
    BY <1>4, <2>5 DEF Advances
  <2> QED BY <1>5, <1>6, <2>1, <2>3, <2>4, <2>6 DEF Course, Busy
<1>10. CASE Ends
  <2>1. /\ at' = "idle" /\ stack' = stack /\ UNCHANGED <<line, freeRun>>
        /\ at \notin Leading \cup Calls
    BY <1>10, EndsReturn DEF Return, Goto
  <2>2. at = E.body /\ stack = <<>>
    BY <2>1 DEF AtCode, Addressed
  <2>3. Path' /\ ~Busy'
    BY <2>1, <2>2 DEF Path, Busy
  <2>4. ~Saved'
    <3>1. E.body \notin SoftwareLabels
      BY <2>1, <2>2 DEF Leading
    <3> QED BY <1>5, <3>1 DEF Saved, SoftwareLabels
  <2>5. E.body \notin {"BSR", "LBSR", "JSR"}
    BY <2>1, <2>2 DEF Leading
  <2>6. at \notin {"GOTO_SUBROUTINE", "INTERRUPT_VECTOR", "PULL_REGISTERS"}
    BY <1>3, <2>2 DEF Bodies, Usual, RmwOps, Alu8Ops, Alu16Ops
  <2>7. Straight => ~Diverts
    BY <1>2, <2>2, <2>6, StraightOn
  <2>8. Straight => reg'["pc"] = Behind1
    BY <1>4, <2>7 DEF Advances
  <2>9. Landed'
    BY <1>5, <2>5, <2>8 DEF Landed
  <2> QED BY <1>5, <1>6, <2>1, <2>3, <2>4, <2>9 DEF Course
<1> QED BY <1>7, <1>8, <1>9, <1>10

-----------------------------------------------------------------------------
(***************************************************************************)
(* The steps of a test behind its dispatch.                                *)
(***************************************************************************)
LEMMA NotOpened ==
  ASSUME at \notin Opened01, Instruction, CoreInv
  PROVE  Advances
<1>1. ~Opens
  BY LabelCode
<1> QED BY <1>1, InstructionAdvances DEF Opens

LEMMA CodeStep ==
  ASSUME IInv, test \in Tests, Calm, AtCode, at # "XANDCC", Step
  PROVE  TestInv'
<1>1. Instruction /\ test' = test /\ calls' = calls
  BY DEF Step, genVars
<1>2. CoreInv /\ DataOK
  BY DEF IInv, CoreInv
<1>3. /\ TestCycles = Head1 + Ahead + WaitingCycles /\ CodeFetches = Head1 + FetchesAhead
      /\ Peek(PC(0)) = OperandByte /\ reg["pc"] = StartPC(Head1)
  BY <1>2, CodeAhead
<1>4. at \notin Opened01
  <2>1. (at = E.addr /\ at \in Calls) \/ at = E.body
    BY DEF AtCode, Addressed
  <2>2. E.body \in Bodies
    BY TestBodies
  <2> QED BY <2>1, <2>2 DEF Calls, Bodies, Usual, RmwOps, Alu8Ops, Alu16Ops, Opened01
<1>5. Advances
  BY <1>1, <1>2, <1>4, NotOpened
<1>6. Course' /\ UNCHANGED <<line, freeRun>>
  BY <1>1, <1>5, CodeCourse
<1>7. E.body # "XANDCC"
  <2>1. E.body = "XANDCC" => ~Addressed(E)
    BY TestBodies
  <2> QED BY <2>1 DEF AtCode
<1>8. \A k : Lost(k) = 0
  BY <1>7 DEF Lost
<1>9. /\ Len(bus) = Head1 /\ mem = Loaded(test) /\ Log(Head1)
      /\ icount = InitialIcount - Head1 /\ Head1 \in Nat
  BY CountsTyped DEF AtCode, Opened
<1>10. Ahead \in Nat /\ WaitingCycles \in Nat
  BY <1>3, CodeTyped
<1>11. icount = InitialIcount - Len(bus) - Lost(2)
  BY <1>8, <1>9 DEF InitialIcount
<1>12. icount + TestCycles = InitialIcount + Ahead + WaitingCycles
  <2> DEFINE a == Ahead  b == WaitingCycles  h == Head1
  <2>1. a \in Nat /\ b \in Nat /\ h \in Nat /\ icount = InitialIcount - h /\ InitialIcount \in Int
    BY <1>9, <1>10 DEF InitialIcount
  <2> HIDE DEF a, b, h
  <2>2. icount + (h + a + b) = InitialIcount + a + b
    BY <2>1
  <2> QED BY <1>3, <2>2 DEF a, b, h
<1>13. PICK n \in Nat : n = Head1
  BY <1>9
<1>14. /\ Log(n) /\ n + FetchesAhead = CodeFetches
       /\ FetchesAhead # 0 => Len(bus) = n /\ reg["pc"] = StartPC(n) /\ mem = Loaded(test)
  BY <1>3, <1>9, <1>13
<1>15. \A k \in Nat : k > Len(bus) => Lost(k) = Lost(2)
  BY <1>8
<1>16. Path'
  BY <1>6 DEF Course
<1>17. /\ Log(CodeFetches)'
       /\ (icount = InitialIcount - Len(bus) - Lost(2))'
       /\ (icount + TestCycles = InitialIcount + Ahead + WaitingCycles)'
  BY <1>1, <1>5, <1>10, <1>11, <1>12, <1>14, <1>15, <1>16, Moved
<1>18. Onward'
  BY <1>6, <1>17 DEF Onward, Course
<1> QED BY <1>1, <1>6, <1>18 DEF TestInv, Calm

\* XANDCC: an idle cycle, and the code of ANDCC.
LEMMA XandccStep ==
  ASSUME IInv, test \in Tests, Calm, AtCode, at = "XANDCC", Step
  PROVE  TestInv'
<1>1. Instruction /\ test' = test
  BY DEF Step, genVars
<1>2. XANDCC
  BY <1>1, LabelCode
<1>3. ~Addressed(E) /\ E.body = "XANDCC" /\ stack = <<>>
  <2>1. at \notin Calls
    BY DEF Calls
  <2> QED BY <2>1 DEF AtCode, Addressed
<1>4. test.prefix = 0
  BY <1>3, TestBodies
<1>5. Head1 = 1
  BY <1>4 DEF Head1, Opening
<1>6. /\ Opened(1) /\ Log(1) /\ icount = InitialIcount - 1
  BY <1>5 DEF AtCode
<1>7. /\ icount' = icount - 1 /\ at' = "ANDCC" /\ stack' = stack
      /\ UNCHANGED <<reg, mem, bus, line, freeRun>>
  BY <1>2 DEF XANDCC, Goto
<1>8. Opened(1)' /\ E' = E
  BY <1>1, <1>6, <1>7, StartStays, TestKeeps
<1>9. Log(1)'
  <2>1. \A k : Lost(k)' = Lost(k) /\ StartPC(k)' = StartPC(k) /\ Pristine(k)' = Pristine(k)
    BY <1>1, TestKeeps
  <2>2. \A k : Pristine(StartPC(k))' = Pristine(StartPC(k))
    BY <1>1, <2>1 DEF Pristine, Loaded, StartPC
  <2> QED BY <1>6, <1>7, <2>1, <2>2 DEF Log, Fetches, InitialIcount
<1>10. icount' = InitialIcount - 2
  BY <1>6, <1>7 DEF InitialIcount
<1>11. AtMask'
  <2>1. (icount = InitialIcount - 2)'
    BY <1>10 DEF InitialIcount
  <2>2. (E.body = "XANDCC" /\ at = "ANDCC" /\ stack = <<>>)'
    BY <1>3, <1>7, <1>8
  <2> QED BY <1>8, <1>9, <2>1, <2>2 DEF AtMask
<1> QED BY <1>1, <1>7, <1>11 DEF TestInv, Calm

LEMMA MaskStep ==
  ASSUME IInv, test \in Tests, Calm, AtMask, Step
  PROVE  TestInv'
<1>1. Instruction /\ test' = test /\ calls' = calls
  BY DEF Step, genVars
<1>2. CoreInv /\ DataOK
  BY DEF IInv, CoreInv
<1>3. /\ E.body = "XANDCC" /\ at = "ANDCC" /\ stack = <<>>
      /\ Opened(1) /\ Log(1) /\ icount = InitialIcount - 2
  BY DEF AtMask
<1>4. at \notin Opened01 \cup Calls \cup {"PUSH_REGISTERS", "PULL_REGISTERS", "idle", "XST16"}
  BY <1>3 DEF Opened01, Calls
<1>5. Advances
  BY <1>1, <1>2, <1>4, NotOpened
<1>6. Ends
  <2>1. Ends \/ Addresses \/ Leads
    BY <1>1, <1>4, LabelCode
  <2>2. ~Addresses /\ ~Leads
    BY <1>3, AddressesReturn, LeadsTo DEF Calls, Leading, SoftwareLabels
  <2> QED BY <2>1, <2>2
<1>7. at' = "idle" /\ stack' = stack /\ UNCHANGED <<line, freeRun>>
  BY <1>6, EndsReturn DEF Return, Goto
<1>8. test.prefix = 0 /\ ~Addressed(E) /\ Head1 = 1
  BY <1>3, TestBodies DEF Head1, Opening
<1>9. /\ Ahead = 2 /\ BytesAhead = 1 /\ FetchesAhead = 1 /\ WaitingCycles = 0
  <2>1. Ahead = BodyCycles(at, mode, Peek(PC(0)), cond, Peek(reg["s"]))
        /\ BytesAhead = BodyBytes(at, mode) /\ FetchesAhead = BytesAhead
    BY <1>4, AheadOf
  <2>2. BodyBytes(at, mode) = 1
    BY <1>3, BytesOf
  <2>3. \A m, k, t, s : BodyCycles("ANDCC", m, k, t, s) = 2
    BY DEF BodyCycles, RmwOps, Alu8Ops, SoftwareLabels
  <2> QED BY <1>3, <2>1, <2>2, <2>3 DEF WaitingCycles
<1>10. TestCycles = 4 /\ InstructionLength = 2 /\ CodeFetches = 2
  <2>1. BodyBytes("XANDCC", ModeOf(E)) = 1
    BY DEF BodyBytes, Alu8Ops, Alu16Ops
  <2>2. \A m, k, t, s : BodyCycles("XANDCC", m, k, t, s) = 3
    BY DEF BodyCycles, RmwOps, Alu8Ops, SoftwareLabels
  <2>3. InstructionLength = 2
    BY <1>3, <1>8, <2>1, CountsTyped
  <2>4. TestCycles = 4
    <3>1. TestCycles = 1 + 0 + BodyCycles("XANDCC", ModeOf(E), OperandByte, Taken,
                                          Pristine(test.reg["s"]))
      BY <1>3, <1>8 DEF TestCycles, CoreCycles, E, Head1
    <3> QED BY <2>2, <3>1
  <2> QED BY <1>3, <2>3, <2>4 DEF CodeFetches
<1>11. /\ Lost(2) = 1 /\ \A k \in Nat : k > 1 => Lost(k) = 1
  BY <1>3 DEF Lost
<1>12. /\ Len(bus) = 1 /\ reg["pc"] = StartPC(1) /\ mem = Loaded(test)
       /\ \A k \in Int : PC(k) = StartPC(1 + k)
  BY <1>3, OpenedAt DEF Opened
<1>13. E' = E /\ Behind1' = Behind1
  BY <1>1, TestKeeps
<1>14. Path' /\ ~Busy'
  BY <1>3, <1>7 DEF Path, Busy
<1>15. reg'["pc"] = Behind1
  <2>1. ~Diverts
    BY <1>3 DEF Diverts
  <2>2. PC(1) = StartPC(1 + 1) /\ 1 + 1 = 2
    BY <1>12
  <2> QED BY <1>5, <1>9, <1>10, <2>1, <2>2 DEF Advances, Behind1
<1>16. calls # 0 /\ ~Saved'
  <2>1. calls # 0
    BY <1>3 DEF IInv, CallsOK
  <2>2. E.body \notin SoftwareLabels
    BY <1>3 DEF SoftwareLabels
  <2> QED BY <1>13, <2>1, <2>2 DEF Saved, SoftwareLabels
<1>17. icount = InitialIcount - Len(bus) - Lost(2)
       /\ icount + TestCycles = InitialIcount + Ahead + WaitingCycles
  BY <1>3, <1>9, <1>10, <1>11, <1>12 DEF InitialIcount
<1>18. /\ Log(1) /\ 1 + FetchesAhead = CodeFetches /\ 1 \in Nat
       /\ FetchesAhead # 0 => Len(bus) = 1 /\ reg["pc"] = StartPC(1) /\ mem = Loaded(test)
       /\ \A k \in Nat : k > Len(bus) => Lost(k) = Lost(2)
       /\ Ahead \in Nat /\ WaitingCycles \in Nat
  BY <1>3, <1>9, <1>10, <1>11, <1>12
<1>19. /\ Log(CodeFetches)'
       /\ (icount = InitialIcount - Len(bus) - Lost(2))'
       /\ (icount + TestCycles = InitialIcount + Ahead + WaitingCycles)'
  BY <1>1, <1>5, <1>14, <1>17, <1>18, Moved
<1>20. Landed'
  BY <1>3, <1>13, <1>15 DEF Landed
<1>21. Onward'
  BY <1>1, <1>3, <1>13, <1>14, <1>16, <1>19, <1>20 DEF Onward
<1> QED BY <1>1, <1>7, <1>21 DEF TestInv, Calm

-----------------------------------------------------------------------------
(***************************************************************************)
(* Behind the first label the program counter stands behind the            *)
(* instruction, until the label that diverts.                              *)
(***************************************************************************)
\* Where the machine is on its path while a label runs.
LEMMA PathAt ==
  ASSUME test \in Tests, Path, at # "idle"
  PROVE  \/ Addressed(E) /\ at = E.body /\ stack = <<>> /\ E.body \in WithOperand
         \/ at \in Late(E.body) /\ stack = <<>>
         \/ /\ E.body \in SoftwareLabels /\ stack \in {<<"SWI_PUSHED">>, <<"PUSHED">>}
            /\ at = "PUSH_REGISTERS" /\ regop = "s" /\ temp = EntireState
  BY TestBodies DEF Path

LEMMA LateLeads ==
  ASSUME test \in Tests, Leads, test' = test, stack = <<>>,
         at \in Late(E.body),
         Saved => WordAt(reg["s"] + 10) = Behind1
  PROVE  /\ Path' /\ at' # "idle"
         /\ Saved' => WordAt(reg["s"] + 10)' = Behind1
         /\ at' # "PULL_REGISTERS"
<1>1. E' = E
  BY TestKeeps
<1>2. E.body \in SoftwareLabels /\ at \in {"SOFTWARE_INTERRUPT", "SWI_PUSHED", "PUSHED"}
  <2>1. at \in Leading
    BY LeadsTo
  <2>2. at \notin {"COM8", "NEG8", "GOTO_SUBROUTINE", "PUSH_REGISTERS", "PULL_REGISTERS",
                   "INTERRUPT_VECTOR"}
    BY <2>1 DEF Leading, SoftwareLabels
  <2> QED BY <2>2, LateIs
<1>3. CASE at = "SOFTWARE_INTERRUPT"
  <2>1. /\ at' = "PUSH_REGISTERS" /\ regop' = "s" /\ temp' = EntireState
        /\ stack' = <<"PUSHED">> \o stack
    BY <1>3, LeadsTo DEF SoftwareLabels
  <2>2. stack' = <<"PUSHED">>
    <3>1. <<"PUSHED">> \in Seq({"PUSHED"})
      OBVIOUS
    <3>2. <<"PUSHED">> \o <<>> = <<"PUSHED">>
      BY <3>1
    <3> QED BY <2>1, <3>2
  <2>3. Path'
    BY <1>1, <1>2, <2>1, <2>2 DEF Path, EntireState, SoftwareLabels
  <2> QED BY <2>1, <2>3 DEF Saved
<1>4. CASE at \in {"SWI_PUSHED", "PUSHED"}
  <2>1. at' = "INTERRUPT_VECTOR" /\ stack' = stack /\ UNCHANGED <<reg, mem>>
    BY <1>4, LeadsTo DEF Goto
  <2>2. at' \in Late(E.body)
    BY <1>2, <2>1, LateIs
  <2>3. Path'
    BY <1>1, <2>1, <2>2 DEF Path, Late
  <2>4. WordAt(reg["s"] + 10) = Behind1
    BY <1>2, <1>4 DEF Saved
  <2>5. WordAt(reg["s"] + 10)' = WordAt(reg["s"] + 10)
    BY <2>1 DEF WordAt, Peek
  <2> QED BY <2>1, <2>3, <2>4, <2>5
<1> QED BY <1>2, <1>3, <1>4

LEMMA VectorKeepsFrame ==
  ASSUME CoreInv, INTERRUPT_VECTOR
  PROVE  WordAt(reg["s"] + 10)' = WordAt(reg["s"] + 10)
<1>1. mem' = mem /\ reg' = At(Pair(Peek(ea), Peek(ToWord(ea + 1))))
  BY DEF INTERRUPT_VECTOR
<1>2. "s" \in DOMAIN reg
  BY DEF CoreInv, DataOK, RegOK, Registers, Reg16
<1>3. reg'["s"] = reg["s"]
  BY <1>1, <1>2 DEF At
<1> QED BY <1>1, <1>3 DEF WordAt, Peek

\* Which action the end of an instruction is, by its label.
LEMMA EndCode ==
  ASSUME Ends
  PROVE  /\ at = "GOTO_SUBROUTINE" => GOTO_SUBROUTINE
         /\ at = "PUSH_REGISTERS" => PUSH_REGISTERS
         /\ at = "INTERRUPT_VECTOR" => INTERRUPT_VECTOR
  BY DEF Ends, ReadModifyWrite, TST8, JMP, Accumulate8, Accumulate16, ST8, ST16, XST8, XST16,
         LEA_xy, LEA_us, NOP, DAA, SEX, ABX, MUL, ORCC, ANDCC, X18, EXG, TFR, BRANCH,
         LBRANCH, GOTO_SUBROUTINE, PUSH_REGISTERS, PULL_REGISTERS, INTERRUPT_VECTOR,
         RmwOps, Alu8Ops, Alu16Ops

LEMMA OnwardCourse ==
  ASSUME IInv, test \in Tests, Course, Instruction, test' = test, calls' = calls, Advances,
         at # "idle"
  PROVE  Course' /\ UNCHANGED <<line, freeRun>>
<1>1. CoreInv /\ DataOK
  BY DEF IInv, CoreInv
<1>2. /\ calls # 0 /\ Path /\ reg["pc"] = Behind1
      /\ (E.body \in {"PULS", "PULU"} /\ at = "PULL_REGISTERS") => temp = OperandByte
      /\ Saved => WordAt(reg["s"] + 10) = Behind1
  BY DEF Course, Busy
<1>3. BytesAhead = 0 /\ at \notin Opened01 \cup Calls
  BY <1>2, PathTyped
<1>4. PC(BytesAhead) = Behind1
  BY <1>1, <1>2, <1>3, PCs
<1>5. /\ E' = E /\ Behind1' = Behind1 /\ (Straight' <=> Straight)
      /\ OperandByte' = OperandByte
  BY TestKeeps
<1>6. Ends \/ Leads
  <2>1. Ends \/ Addresses \/ Leads
    BY <1>3, LabelCode
  <2> QED BY <1>3, <2>1, AddressesReturn
<1>7. CASE Leads
  <2>1. at' # "idle" => reg'["pc"] = Behind1
    BY <1>4 DEF Advances, Return, Goto
  <2>2. UNCHANGED <<line, freeRun>> /\ at \in Leading
    BY <1>7, LeadsTo
  <2>3. CASE Addressed(E) /\ at = E.body /\ stack = <<>> /\ E.body \in WithOperand
    <3>1. at \in {"XNC8", "JSR"}
      BY <2>2, <2>3 DEF WithOperand, Leading, RmwOps, Alu8Ops, Alu16Ops, SoftwareLabels
    <3>2. at' \in {"COM8", "NEG8", "GOTO_SUBROUTINE"} /\ stack' = stack
          /\ at' \in Late(E.body)
      BY <1>7, <2>3, <3>1, LeadsTo, LateIs DEF Goto
    <3>3. Path'
      BY <1>5, <2>3, <3>2 DEF Path, Late
    <3>4. ~Saved'
      BY <1>5, <3>2 DEF Saved
    <3> QED BY <1>2, <1>5, <2>1, <2>2, <3>2, <3>3, <3>4 DEF Course, Busy
  <2>4. CASE at \in Late(E.body) /\ stack = <<>>
    <3>1. /\ Path' /\ at' # "idle" /\ at' # "PULL_REGISTERS"
          /\ Saved' => WordAt(reg["s"] + 10)' = Behind1
      BY <1>2, <1>7, <2>4, LateLeads
    <3> QED BY <1>2, <1>5, <2>1, <2>2, <3>1 DEF Course, Busy
  <2>5. at # "PUSH_REGISTERS"
    BY <2>2 DEF Leading, SoftwareLabels
  <2> QED BY <1>2, <2>3, <2>4, <2>5, PathAt
<1>8. CASE Ends
  <2>1. /\ at' = "idle" /\ stack' = stack /\ UNCHANGED <<line, freeRun>>
        /\ at \notin Leading
    BY <1>8, EndsReturn DEF Return, Goto
  <2>2. (E.body \in {"PULS", "PULU"} /\ at = "PULL_REGISTERS" => temp = OperandByte)'
    BY <2>1
  <2>3. ASSUME stack = <<>>,
               Saved' => WordAt(reg["s"] + 10)' = Behind1, Landed'
        PROVE  Course'
    <3>1. Path' /\ ~Busy'
      BY <2>1, <2>3 DEF Path, Busy
    <3> QED BY <1>2, <1>5, <2>2, <2>3, <3>1 DEF Course
  <2>4. Saved' <=> E.body \in SoftwareLabels
    BY <1>5, <2>1 DEF Saved, SoftwareLabels
  <2>5. ~Diverts => reg'["pc"] = Behind1
    BY <1>4 DEF Advances
  <2>6. CASE Addressed(E) /\ at = E.body /\ stack = <<>> /\ E.body \in WithOperand
    <3>1. E.body \notin SoftwareLabels /\ E.body \notin {"BSR", "LBSR", "JSR"}
      BY <2>1, <2>6 DEF Leading
    <3>2. at \notin {"EXG", "TFR", "GOTO_SUBROUTINE", "INTERRUPT_VECTOR", "PULL_REGISTERS"}
      BY <2>6 DEF WithOperand, RmwOps, Alu8Ops, Alu16Ops
    <3>3. Straight => ~Diverts
      BY <2>6, <3>2, StraightOn
    <3>4. Landed'
      BY <1>5, <2>5, <3>1, <3>3 DEF Landed
    <3> QED BY <2>1, <2>3, <2>4, <2>6, <3>1, <3>4
  <2>7. CASE at \in Late(E.body) /\ stack = <<>>
    <3>1. \/ E.body = "XNC8" /\ at \in {"COM8", "NEG8"}
          \/ E.body \in {"BSR", "LBSR", "JSR"} /\ at = "GOTO_SUBROUTINE"
          \/ E.body \in {"PSHS", "PSHU"} /\ at = "PUSH_REGISTERS"
          \/ E.body \in {"PULS", "PULU", "RTS", "RTI"} /\ at = "PULL_REGISTERS"
          \/ E.body \in SoftwareLabels /\ at = "INTERRUPT_VECTOR"
      <4>1. at \notin {"SOFTWARE_INTERRUPT", "SWI_PUSHED", "PUSHED"}
        BY <2>1 DEF Leading, SoftwareLabels
      <4> QED BY <2>7, <4>1, LateIs
    <3>2. CASE E.body \in {"BSR", "LBSR", "JSR"} /\ at = "GOTO_SUBROUTINE"
      <4>1. WordAt(reg["s"])' = Behind1
        BY <1>1, <1>2, <1>8, <3>2, EndCode, SubroutineLands
      <4>2. ~Straight /\ E.body \notin SoftwareLabels
        BY <3>2 DEF Straight, SoftwareLabels
      <4>3. Landed'
        BY <1>5, <4>1, <4>2 DEF Landed
      <4> QED BY <2>1, <2>3, <2>4, <2>7, <4>2, <4>3
    <3>3. CASE E.body \in SoftwareLabels /\ at = "INTERRUPT_VECTOR"
      <4>1. WordAt(reg["s"] + 10) = Behind1
        BY <1>2, <3>3 DEF Saved
      <4>2. WordAt(reg["s"] + 10)' = Behind1
        BY <1>1, <1>8, <3>3, <4>1, EndCode, VectorKeepsFrame
      <4>3. ~Straight /\ E.body \notin {"BSR", "LBSR", "JSR"}
        BY <3>3 DEF Straight, SoftwareLabels
      <4>4. Landed'
        BY <1>5, <4>3 DEF Landed
      <4> QED BY <2>1, <2>3, <2>7, <4>2, <4>4
    <3>4. CASE \/ E.body = "XNC8" /\ at \in {"COM8", "NEG8"}
               \/ E.body \in {"PSHS", "PSHU"} /\ at = "PUSH_REGISTERS"
               \/ E.body \in {"PULS", "PULU", "RTS", "RTI"} /\ at = "PULL_REGISTERS"
      <4>1. E.body \notin SoftwareLabels /\ E.body \notin {"BSR", "LBSR", "JSR"}
        BY <3>4 DEF SoftwareLabels
      <4>2. at \notin {"EXG", "TFR", "GOTO_SUBROUTINE", "INTERRUPT_VECTOR", "BRANCH",
                       "LBRANCH", "JMP"}
        BY <3>4
      <4>3. at = "PULL_REGISTERS" =>
              E.body \in {"RTS", "RTI"} \/ (E.body \in {"PULS", "PULU"} /\ temp = OperandByte)
        BY <1>2, <3>4
      <4>4. Straight => ~Diverts
        BY <4>2, <4>3, StraightOn
      <4>5. Landed'
        BY <1>5, <2>5, <4>1, <4>4 DEF Landed
      <4>6. ~Saved'
        BY <2>4, <4>1
      <4> QED BY <2>1, <2>3, <2>7, <4>5, <4>6
    <3> QED BY <3>1, <3>2, <3>3, <3>4
  <2>8. CASE /\ E.body \in SoftwareLabels /\ stack \in {<<"SWI_PUSHED">>, <<"PUSHED">>}
             /\ at = "PUSH_REGISTERS" /\ regop = "s" /\ temp = EntireState
    <3>1. PUSH_REGISTERS
      BY <1>8, <2>8, EndCode
    <3>2. WordAt(reg["s"] + 10)' = Behind1
      BY <1>1, <1>2, <2>8, <3>1, FrameLands
    <3>3. ~Diverts
      BY <2>8 DEF Diverts
    <3>4. stack' # <<>>
      BY <2>1, <2>8
    <3>5. Path'
      BY <1>5, <2>1, <2>8 DEF Path, SoftwareLabels
    <3> QED BY <1>2, <1>5, <2>1, <2>2, <2>5, <3>2, <3>3, <3>4, <3>5 DEF Course, Busy
  <2> QED BY <1>2, <2>1, <2>6, <2>7, <2>8, PathAt
<1> QED BY <1>6, <1>7, <1>8

-----------------------------------------------------------------------------
LEMMA OnwardStep ==
  ASSUME IInv, test \in Tests, Calm, Onward, Step
  PROVE  TestInv'
<1>1. Instruction /\ test' = test /\ calls' = calls
  BY DEF Step, genVars
<1>2. CoreInv /\ at # "idle"
  BY <1>1, NotIdle DEF IInv
<1>3. /\ Course /\ Path /\ Log(CodeFetches)
      /\ icount = InitialIcount - Len(bus) - Lost(2)
      /\ icount + TestCycles = InitialIcount + Ahead + WaitingCycles
  BY DEF Onward, Course
<1>4. /\ Ahead \in Nat /\ WaitingCycles \in Nat /\ FetchesAhead = 0 /\ at \notin Opened01
  BY <1>3, PathTyped
<1>5. Advances
  BY <1>1, <1>2, <1>4, NotOpened
<1>6. Course' /\ UNCHANGED <<line, freeRun>>
  BY <1>1, <1>2, <1>3, <1>5, OnwardCourse
<1>7. CodeFetches \in Nat /\ CodeFetches <= Len(bus) /\ Len(bus) \in Nat
  <2>1. Len(bus) \in Nat
    BY <1>2 DEF CoreInv, DataOK
  <2>2. CodeFetches \in 0..Len(bus)
    BY <1>3 DEF Log
  <2> QED BY <2>1, <2>2
<1>8. \A k \in Nat : k > Len(bus) => Lost(k) = Lost(2)
  <2>1. E.body = "XANDCC" => Len(bus) >= 1
    <3>1. E.body = "XANDCC" => CodeFetches >= 1
      <4>1. CodeFetches = InstructionLength \/ E.body # "XANDCC"
        BY DEF CodeFetches
      <4>2. InstructionLength >= 1
        <5>1. ~Addressed(E) => InstructionLength >= 1
          BY CountsTyped, BytesTyped
        <5>2. Addressed(E) => InstructionLength >= 1
          BY CountsTyped, BytesTyped
        <5> QED BY <5>1, <5>2
      <4> QED BY <4>1, <4>2
    <3> QED BY <1>7, <3>1
  <2> QED BY <1>7, <2>1 DEF Lost
<1>9. PICK n \in Nat : n = CodeFetches
  BY <1>7
<1>10. /\ Log(n) /\ n + FetchesAhead = CodeFetches
       /\ FetchesAhead # 0 => Len(bus) = n /\ reg["pc"] = StartPC(n) /\ mem = Loaded(test)
  BY <1>3, <1>4, <1>9
<1>11. Path'
  BY <1>6 DEF Course
<1>12. /\ Log(CodeFetches)'
       /\ (icount = InitialIcount - Len(bus) - Lost(2))'
       /\ (icount + TestCycles = InitialIcount + Ahead + WaitingCycles)'
  BY <1>1, <1>3, <1>4, <1>5, <1>8, <1>10, <1>11, Moved
<1>13. Onward'
  BY <1>6, <1>12 DEF Onward, Course
<1> QED BY <1>1, <1>6, <1>13 DEF TestInv, Calm

\* The second call of execute_one() resumes the label on the stack.
LEMMA ExecuteOnward ==
  ASSUME IInv, test \in Tests, Calm, Onward, Execute
  PROVE  TestInv'
<1>1. /\ ExecuteOne /\ calls' = calls + 1 /\ test' = test
  BY DEF Execute
<1>2. /\ at = "idle" /\ UNCHANGED <<reg, cc, lds, line, mem, bus, icount, latches, freeRun>>
      /\ at' = IF stack = <<>> THEN "MAIN" ELSE Head(stack)
      /\ stack' = IF stack = <<>> THEN stack ELSE Tail(stack)
  BY <1>1 DEF ExecuteOne
<1>3. /\ calls \in {1, 2} /\ Path /\ stack # <<>>
      /\ icount + TestCycles = InitialIcount + Ahead + WaitingCycles
      /\ Log(CodeFetches) /\ icount = InitialIcount - Len(bus) - Lost(2)
      /\ Saved => WordAt(reg["s"] + 10) = Behind1
      /\ Busy => reg["pc"] = Behind1
  BY <1>1 DEF Onward, Execute, IInv, CallsOK
<1>4. reg["pc"] = Behind1
  BY <1>3 DEF Busy
<1>5. /\ E' = E /\ Behind1' = Behind1 /\ OperandByte' = OperandByte
      /\ TestCycles' = TestCycles /\ CodeFetches' = CodeFetches /\ Lost(2)' = Lost(2)
  BY <1>1, TestKeeps
<1>6. \/ Addressed(E) /\ mode = "ea" /\ stack = <<E.body>> /\ E.body \in WithOperand
      \/ E.body \in SoftwareLabels /\ stack \in {<<"SWI_PUSHED">>, <<"PUSHED">>}
  <2>1. "idle" \notin Late(E.body)
    BY LateIs
  <2>2. Addressed(E) => E.body \in WithOperand
    BY TestBodies
  <2>3. "idle" \notin WithOperand
    BY DEF WithOperand, RmwOps, Alu8Ops, Alu16Ops
  <2> QED BY <1>2, <1>3, <2>1, <2>2, <2>3 DEF Path
<1> DEFINE w == Head(stack)
<1>7. PICK l : l = w
  OBVIOUS
<1>8. /\ stack = <<l>> /\ l \in WithOperand \cup {"SWI_PUSHED", "PUSHED"}
      /\ \/ l = E.body /\ Addressed(E) /\ mode = "ea"
         \/ l \in {"SWI_PUSHED", "PUSHED"} /\ E.body \in SoftwareLabels
  <2>1. CASE Addressed(E) /\ mode = "ea" /\ stack = <<E.body>> /\ E.body \in WithOperand
    <3>1. w = E.body
      BY <2>1
    <3> QED BY <1>7, <2>1, <3>1
  <2>2. CASE E.body \in SoftwareLabels /\ stack \in {<<"SWI_PUSHED">>, <<"PUSHED">>}
    BY <1>7, <2>2
  <2> QED BY <1>6, <2>1, <2>2
<1> HIDE DEF w
<1>9. at' = l /\ stack' = <<>>
  <2>1. Head(stack) = l /\ Tail(stack) = <<>>
    BY <1>8
  <2> QED BY <1>2, <1>3, <2>1
<1>10. l \notin Calls \cup Opened01 \cup {"idle", "PUSH_REGISTERS", "PULL_REGISTERS", "XST16"}
  BY <1>8 DEF WithOperand, RmwOps, Alu8Ops, Alu16Ops, Calls, Opened01
<1>11. Path'
  <2>1. CASE l = E.body /\ Addressed(E) /\ mode = "ea"
    BY <1>2, <1>5, <1>9, <2>1 DEF Path, Addressed, latches
  <2>2. CASE l \in {"SWI_PUSHED", "PUSHED"} /\ E.body \in SoftwareLabels
    <3>1. l \in Late(E.body)
      BY <2>2, LateIs
    <3> QED BY <1>5, <1>9, <3>1 DEF Path, Late
  <2> QED BY <1>8, <2>1, <2>2
<1>12. Saved' => WordAt(reg["s"] + 10)' = Behind1
  <2>1. Saved' => Saved
    BY <1>2, <1>5 DEF Saved
  <2>2. WordAt(reg["s"] + 10)' = WordAt(reg["s"] + 10)
    BY <1>2 DEF WordAt, Peek
  <2> QED BY <1>3, <2>1, <2>2
<1>13. Ahead' + WaitingCycles' = Ahead + WaitingCycles
  <2> DEFINE c == BodyCycles(l, "ea", 0, FALSE, 0)
  <2>1. Ahead = 0
    BY <1>2 DEF Ahead, Calls
  <2>2. WaitingCycles = c
    <3>1. Head(stack) = l
      BY <1>8
    <3> QED BY <1>3, <3>1 DEF WaitingCycles
  <2>3. WaitingCycles' = 0
    BY <1>9 DEF WaitingCycles
  <2>4. Ahead' = BodyCycles(l, mode, Peek(PC(0))', cond', Peek(reg["s"])')
    BY <1>2, <1>9, <1>10 DEF Ahead, latches
  <2>5. \A k, t, s : BodyCycles(l, mode, k, t, s) = c
    <3>1. CASE mode = "ea"
      BY <1>8, <3>1, OperandCycles
    <3>2. CASE l \in {"SWI_PUSHED", "PUSHED"}
      BY <3>2, PushedCycles
    <3> QED BY <1>8, <3>1, <3>2
  <2>6. c \in Nat
    BY <1>8, LabelCycles
  <2> HIDE DEF c
  <2> QED BY <2>1, <2>2, <2>3, <2>4, <2>5, <2>6
<1>14. (icount + TestCycles = InitialIcount + Ahead + WaitingCycles)'
  <2>1. Ahead \in Nat /\ WaitingCycles \in Nat /\ Ahead' \in Nat /\ WaitingCycles' \in Nat
    BY <1>1, <1>3, <1>11, PathTyped, PathTypedNext
  <2> DEFINE a == Ahead  b == WaitingCycles  a1 == Ahead'  b1 == WaitingCycles'
  <2>2. InitialIcount \in Int
    BY DEF InitialIcount
  <2>3. /\ a \in Nat /\ b \in Nat /\ a1 \in Nat /\ b1 \in Nat
        /\ a1 + b1 = a + b /\ icount + TestCycles = InitialIcount + a + b
    BY <1>3, <1>13, <2>1
  <2> HIDE DEF a, b, a1, b1
  <2>4. icount + TestCycles = InitialIcount + a1 + b1
    BY <2>2, <2>3
  <2>5. icount' + TestCycles' = InitialIcount + Ahead' + WaitingCycles'
    BY <1>2, <1>5, <2>4 DEF a1, b1
  <2> QED BY <2>5 DEF InitialIcount
<1>15. Log(CodeFetches)' /\ (icount = InitialIcount - Len(bus) - Lost(2))'
  <2>1. \A k : Lost(k)' = Lost(k) /\ StartPC(k)' = StartPC(k) /\ Pristine(k)' = Pristine(k)
    BY <1>1, TestKeeps
  <2>2. \A k : Pristine(StartPC(k))' = Pristine(StartPC(k))
    BY <1>1 DEF Pristine, Loaded, StartPC
  <2>3. Log(CodeFetches)'
    BY <1>2, <1>3, <1>5, <2>1, <2>2 DEF Log, Fetches, InitialIcount
  <2> QED BY <1>2, <1>3, <1>5, <2>3 DEF InitialIcount
<1>16. at' # "PULL_REGISTERS" /\ reg'["pc"] = Behind1' /\ Busy' /\ calls' # 0
  BY <1>1, <1>2, <1>3, <1>4, <1>5, <1>9, <1>10 DEF Busy
<1>17. Onward'
  BY <1>5, <1>11, <1>12, <1>14, <1>15, <1>16 DEF Onward
<1>18. Calm'
  BY <1>2 DEF Calm
<1> QED BY <1>1, <1>17, <1>18 DEF TestInv

-----------------------------------------------------------------------------
(***************************************************************************)
(* The invariant of a test is kept.                                        *)
(***************************************************************************)
LEMMA GenStarts == GenInit => TestInv
<1> SUFFICES ASSUME GenInit PROVE TestInv
  OBVIOUS
<1>1. /\ test \in Tests /\ reg = test.reg /\ mem = Loaded(test) /\ bus = <<>>
      /\ cc = test.cc /\ icount = InitialIcount /\ line = {} /\ freeRun = FALSE
      /\ at = "idle" /\ stack = <<>> /\ calls = 0
  BY DEF GenInit
<1>2. [test.reg EXCEPT !["pc"] = StartPC(0)] = test.reg
  <2>1. test.reg \in [Registers -> Word]
    BY <1>1, StartTyped, Zenon DEF RegOK
  <2>2. "pc" \in Registers
    BY DEF Registers, Reg16
  <2>3. StartPC(0) = test.reg["pc"]
    <3>1. test.reg["pc"] \in Word
      BY <2>1, <2>2
    <3>2. PICK p \in Word : p = test.reg["pc"]
      BY <3>1
    <3>3. ToWord(p + 0) = p
      BY WordIs DEF ToWord
    <3> QED BY <3>2, <3>3 DEF StartPC
  <2> QED BY <2>1, <2>2, <2>3
<1>3. Opened(0)
  BY <1>1, <1>2 DEF Opened
<1> QED BY <1>1, <1>3 DEF TestInv, Calm, AtStart

LEMMA TestStays ==
  ASSUME test \in Tests, TestInv, UNCHANGED <<coreVars, test, calls>>
  PROVE  TestInv'
<1>1. /\ UNCHANGED <<reg, cc, line, mem, bus, icount, freeRun, at, stack, test, calls>>
      /\ UNCHANGED <<mode, regop, temp, cond>>
  BY DEF coreVars, latches
<1>2. /\ E' = E /\ Head1' = Head1 /\ TestCycles' = TestCycles /\ Taken' = Taken
      /\ OperandByte' = OperandByte /\ CodeFetches' = CodeFetches /\ Behind1' = Behind1
      /\ (Straight' <=> Straight)
      /\ \A k : Lost(k)' = Lost(k) /\ StartPC(k)' = StartPC(k)
  BY <1>1, TestKeeps
<1>3. \A k : Pristine(StartPC(k))' = Pristine(StartPC(k))
  BY <1>1 DEF Pristine, Loaded, StartPC
<1>4. \A n : Opened(n) => Opened(n)'
  BY <1>1, StartStays
<1>5. \A n : Log(n) => Log(n)'
  BY <1>1, <1>2, <1>3 DEF Log, Fetches, InitialIcount
<1>6. Ahead' = Ahead /\ WaitingCycles' = WaitingCycles
  <2>1. Peek(PC(0))' = Peek(PC(0)) /\ Peek(reg["s"])' = Peek(reg["s"])
    BY <1>1 DEF Peek, PC
  <2>2. Ahead' = Ahead
    BY <1>1, <2>1 DEF Ahead, Calls
  <2> QED BY <1>1, <2>2 DEF WaitingCycles
<1>7. Calm => Calm'
  BY <1>1 DEF Calm
<1>8. AtStart => AtStart'
  BY <1>1, <1>4 DEF AtStart, InitialIcount
<1>9. AtPage => AtPage'
  BY <1>1, <1>4, <1>5 DEF AtPage, InitialIcount
<1>10. AtCode => AtCode'
  <2> SUFFICES ASSUME AtCode PROVE AtCode'
    OBVIOUS
  <2>1. Opened(Head1)' /\ Log(Head1)'
    <3>1. PICK h : h = Head1
      OBVIOUS
    <3>2. Opened(h)' /\ Log(h)' /\ Head1' = h
      BY <1>2, <1>4, <1>5, <3>1 DEF AtCode
    <3> QED BY <3>2
  <2> QED BY <1>1, <1>2, <2>1 DEF AtCode, Addressed, InitialIcount
<1>11. AtMask => AtMask'
  BY <1>1, <1>2, <1>4, <1>5 DEF AtMask, InitialIcount
<1>12. Onward => Onward'
  <2> SUFFICES ASSUME Onward PROVE Onward'
    OBVIOUS
  <2>1. Log(CodeFetches)'
    <3>1. PICK n : n = CodeFetches
      OBVIOUS
    <3>2. Log(n)' /\ CodeFetches' = n
      BY <1>2, <1>5, <3>1 DEF Onward
    <3> QED BY <3>2
  <2>2. Path'
    BY <1>1, <1>2 DEF Onward, Path, Addressed, Late, SoftwareLabels, EntireState
  <2>3. WordAt(reg["s"] + 10)' = WordAt(reg["s"] + 10) /\ WordAt(reg["s"])' = WordAt(reg["s"])
    BY <1>1 DEF WordAt, Peek
  <2>4. (Saved' <=> Saved) /\ (Busy' <=> Busy)
    BY <1>1, <1>2 DEF Saved, Busy, SoftwareLabels
  <2>5. Landed => Landed'
    BY <1>1, <1>2, <2>3 DEF Landed
  <2> QED BY <1>1, <1>2, <1>6, <2>1, <2>2, <2>3, <2>4, <2>5 DEF Onward, InitialIcount
<1> QED BY <1>1, <1>7, <1>8, <1>9, <1>10, <1>11, <1>12 DEF TestInv

LEMMA TestInvNext == IInv /\ TestInv /\ [Next]_vars => TestInv'
<1> SUFFICES ASSUME IInv, TestInv, [Next]_vars PROVE TestInv'
  OBVIOUS
<1>1. test \in Tests /\ Calm /\ (AtStart \/ AtPage \/ AtCode \/ AtMask \/ Onward)
  BY DEF TestInv
<1>2. AtPage \/ AtCode \/ AtMask => at # "idle"
  <2>1. E.body \in Bodies
    BY <1>1, TestBodies
  <2>2. AtCode => at \in Calls \cup Bodies
    BY <2>1 DEF AtCode, Addressed
  <2>3. "idle" \notin Calls \cup Bodies
    BY DEF Calls, Bodies, Usual, RmwOps, Alu8Ops, Alu16Ops
  <2> QED BY <2>2, <2>3 DEF AtPage, AtMask
<1>3. CASE Execute
  <2>1. at = "idle"
    BY <1>3 DEF Execute, ExecuteOne
  <2> QED BY <1>1, <1>2, <1>3, <2>1, ExecuteStarts, ExecuteOnward
<1>4. CASE Step
  <2>1. at # "idle"
    BY <1>4, NotIdle DEF Step
  <2>2. AtStart => at \in {"MAIN", "DISPATCH01"}
    BY <2>1 DEF AtStart
  <2> QED BY <1>1, <1>4, <2>2, MainStarts, FirstDispatch, SecondDispatch, CodeStep,
             XandccStep, MaskStep, OnwardStep
<1>5. CASE Finish
  BY <1>1, <1>5, TestStays DEF Finish
<1>6. CASE UNCHANGED vars
  BY <1>1, <1>6, TestStays DEF vars, genVars
<1> QED BY <1>3, <1>4, <1>5, <1>6 DEF Next

-----------------------------------------------------------------------------
(***************************************************************************)
(* The cycle list.                                                         *)
(***************************************************************************)
LEMMA Least ==
  ASSUME NEW T \in SUBSET Nat, T # {}
  PROVE  \E n \in T : \A m \in T : n <= m
<1> DEFINE R == OpToRel(<, Nat)
<1>1. IsWellFoundedOn(R, Nat)
  BY NatLessThanWellFounded
<1>2. R = {ss \in Nat \X Nat : ss[1] < ss[2]}
  BY DEF OpToRel
<1>3. \A x, y \in Nat : <<y, x>> \in R <=> y < x
  BY <1>2
<1> HIDE DEF R
<1>4. PICK x \in T : \A y \in T : ~ (<<y, x>> \in R)
  BY <1>1, WFMin
<1>5. \A y \in T : ~ (y < x)
  BY <1>3, <1>4
<1>6. \A y \in T : y \in Int /\ x \in Int
  OBVIOUS
<1> QED BY <1>5, <1>6

\* The concatenation of n sequences is the last of its partial concatenations.
LEMMA FlattenIs ==
  ASSUME NEW n \in Nat \ {0}, NEW seqs, Len(seqs) = n,
         NEW g, \A i \in 1..n : g[i] = IF i = 1 THEN seqs[i] ELSE g[i - 1] \o seqs[i]
  PROVE  FlattenSeq(seqs) = g[n]
<1> DEFINE f == CHOOSE h : h = [i \in 1..n |-> IF i = 1 THEN seqs[i] ELSE h[i - 1] \o seqs[i]]
<1>1. FlattenSeq(seqs) = f[n]
  BY DEF FlattenSeq
<1>2. f = [i \in 1..n |-> IF i = 1 THEN seqs[i] ELSE f[i - 1] \o seqs[i]]
  <2> DEFINE k == [i \in 1..n |-> g[i]]
  <2>1. \A i \in 1..n : i = 1 \/ i - 1 \in 1..n
    OBVIOUS
  <2>2. \A i \in 1..n : k[i] = IF i = 1 THEN seqs[i] ELSE k[i - 1] \o seqs[i]
    BY <2>1
  <2>3. k = [i \in 1..n |-> k[i]]
    OBVIOUS
  <2> HIDE DEF k
  <2>4. k = [i \in 1..n |-> IF i = 1 THEN seqs[i] ELSE k[i - 1] \o seqs[i]]
    BY <2>2, <2>3
  <2> QED BY <2>4
<1> HIDE DEF f
<1>3. \A i \in 1..n : f[i] = g[i]
  <2> DEFINE T == {i \in 1..n : f[i] # g[i]}
  <2> SUFFICES ASSUME T # {} PROVE FALSE
    OBVIOUS
  <2>1. PICK m \in T : \A k \in T : m <= k
    <3>1. T \in SUBSET Nat
      OBVIOUS
    <3> QED BY <3>1, Least
  <2>2. m = 1 \/ (m - 1 \in 1..n /\ m - 1 \notin T)
    BY <2>1
  <2>3. m \in 1..n /\ f[m] # g[m]
    BY <2>1
  <2>4. CASE m = 1
    <3>1. f[m] = seqs[m] /\ g[m] = seqs[m]
      BY <1>2, <2>3, <2>4
    <3> QED BY <2>3, <3>1
  <2>5. CASE m # 1
    <3>1. f[m - 1] = g[m - 1]
      BY <2>2, <2>5
    <3>2. f[m] = f[m - 1] \o seqs[m] /\ g[m] = g[m - 1] \o seqs[m]
      BY <1>2, <2>3, <2>5
    <3> QED BY <2>3, <3>1, <3>2
  <2> QED BY <2>4, <2>5
<1> QED BY <1>1, <1>3

LEMMA ListedTo ==
  ASSUME NEW m \in Nat, NEW S, NEW f, f = [j \in 1..m |-> f[j]], \A j \in 1..m : f[j] \in S
  PROVE  f \in Seq(S) /\ Len(f) = m
  OBVIOUS

LEMMA ListedFrom ==
  ASSUME NEW S, NEW s \in Seq(S), NEW m, Len(s) = m
  PROVE  s = [j \in 1..m |-> s[j]]
  OBVIOUS

LEMMA OneMore ==
  ASSUME NEW T, NEW h \in Seq(T), NEW m, Len(h) = m, NEW y \in T
  PROVE  /\ h \o <<y>> \in Seq(T) /\ Len(h \o <<y>>) = m + 1
         /\ \A j \in 1..m : (h \o <<y>>)[j] = h[j]
         /\ (h \o <<y>>)[m + 1] = y
<1>1. <<y>> \in Seq(T) /\ Len(<<y>>) = 1 /\ <<y>>[1] = y
  OBVIOUS
<1> QED BY <1>1

LEMMA TwoMore ==
  ASSUME NEW T, NEW h \in Seq(T), Len(h) = 1, NEW x \in T, NEW y \in T
  PROVE  /\ h \o <<x, y>> \in Seq(T) /\ Len(h \o <<x, y>>) = 3
         /\ (h \o <<x, y>>)[1] = h[1] /\ (h \o <<x, y>>)[2] = x /\ (h \o <<x, y>>)[3] = y
<1>1. <<x, y>> \in Seq(T) /\ Len(<<x, y>>) = 2 /\ <<x, y>>[1] = x /\ <<x, y>>[2] = y
  OBVIOUS
<1>2. h \o <<x, y>> \in Seq(T) /\ Len(h \o <<x, y>>) = 3
  BY <1>1, ConcatProperties
<1>3. \A i \in 1..3 : (h \o <<x, y>>)[i] = IF i <= 1 THEN h[i] ELSE <<x, y>>[i - 1]
  <2>1. Len(h) + Len(<<x, y>>) = 3
    BY <1>1
  <2> QED BY <1>1, <2>1, ConcatProperties
<1> QED BY <1>1, <1>2, <1>3

\* One element in each of n sequences, but one more in front of the second.
Gapped(n, x, c, gap) ==
  [k \in 1..n |-> IF x = 1 /\ k = 2 THEN <<gap, c[k]>> ELSE <<c[k]>>]

Spread(n, x, c, gap) ==
  [j \in 1..(n + x) |-> IF j = 1 THEN c[1] ELSE IF x = 1 /\ j = 2 THEN gap ELSE c[j - x]]

LEMMA FlattenGapped ==
  ASSUME NEW n \in Nat \ {0}, NEW x \in {0, 1}, x = 1 => n >= 2, NEW c, NEW gap
  PROVE  FlattenSeq(Gapped(n, x, c, gap)) = Spread(n, x, c, gap)
<1>1. PICK seqs : seqs = Gapped(n, x, c, gap)
  OBVIOUS
<1>2. Len(seqs) = n
      /\ \A k \in 1..n : seqs[k] = IF x = 1 /\ k = 2 THEN <<gap, c[k]>> ELSE <<c[k]>>
  BY <1>1 DEF Gapped
<1> DEFINE e(j) == IF j = 1 THEN c[1] ELSE IF x = 1 /\ j = 2 THEN gap ELSE c[j - x]
           l(i) == IF i = 1 THEN 1 ELSE i + x
           g == [i \in 1..n |-> [j \in 1..l(i) |-> e(j)]]
<1>3. ASSUME NEW i \in 1..n PROVE g[i] = IF i = 1 THEN seqs[i] ELSE g[i - 1] \o seqs[i]
  <2>1. g[i] = [j \in 1..l(i) |-> e(j)] /\ l(i) \in Nat
    OBVIOUS
  <2>2. CASE i = 1
    <3>1. seqs[i] = <<c[1]>>
      BY <1>2, <2>2
    <3>2. g[i] = <<c[1]>>
      BY <2>1, <2>2
    <3> QED BY <2>2, <3>1, <3>2
  <2>3. CASE i # 1
    <3>1. i - 1 \in 1..n /\ g[i - 1] = [j \in 1..l(i - 1) |-> e(j)] /\ l(i - 1) \in Nat
      BY <2>3
    <3> HIDE DEF g
    <3>2. PICK h : h = g[i - 1]
      OBVIOUS
    <3>3. PICK T : T = {e(j) : j \in 1..l(i - 1)} \cup {c[i], gap}
      OBVIOUS
    <3>4. PICK k \in Nat : k = l(i - 1)
      BY <3>1
    <3>5. h \in Seq(T) /\ Len(h) = k /\ \A j \in 1..k : h[j] = e(j)
      <4>1. h = [j \in 1..k |-> e(j)] /\ \A j \in 1..k : e(j) \in T
        BY <3>1, <3>2, <3>3, <3>4
      <4> HIDE DEF e
      <4>2. h = [j \in 1..k |-> h[j]] /\ \A j \in 1..k : h[j] \in T /\ h[j] = e(j)
        BY <4>1
      <4> QED BY <4>2, ListedTo
    <3>6. CASE x = 1 /\ i = 2
      <4>1. seqs[i] = <<gap, c[i]>> /\ l(i) = 3 /\ k = 1
        BY <1>2, <3>4, <3>6
      <4>2. PICK y : y = c[i]
        OBVIOUS
      <4>3. gap \in T /\ y \in T
        BY <3>3, <4>2
      <4>4. h \in Seq(T) /\ Len(h) = 1
        BY <3>5, <4>1
      <4>5. /\ h \o <<gap, y>> \in Seq(T) /\ Len(h \o <<gap, y>>) = 3
            /\ (h \o <<gap, y>>)[1] = h[1] /\ (h \o <<gap, y>>)[2] = gap
            /\ (h \o <<gap, y>>)[3] = y
        BY <4>3, <4>4, TwoMore
      <4>6. e(1) = h[1] /\ e(2) = gap /\ e(3) = y
        BY <3>5, <3>6, <4>1, <4>2
      <4> HIDE DEF e
      <4>7. \A j \in 1..3 : (h \o <<gap, y>>)[j] = e(j)
        <5>1. \A j \in 1..3 : j = 1 \/ j = 2 \/ j = 3
          OBVIOUS
        <5> QED BY <4>5, <4>6, <5>1
      <4>8. h \o <<gap, y>> = [j \in 1..3 |-> (h \o <<gap, y>>)[j]]
        BY <4>5, ListedFrom
      <4>9. h \o <<gap, y>> = [j \in 1..3 |-> e(j)]
        BY <4>7, <4>8
      <4> QED BY <2>1, <2>3, <3>2, <4>1, <4>2, <4>9
    <3>7. CASE ~(x = 1 /\ i = 2)
      <4>1. seqs[i] = <<c[i]>> /\ l(i) = k + 1 /\ e(k + 1) = c[i]
        BY <1>2, <2>3, <3>4, <3>7
      <4>2. PICK y : y = c[i]
        OBVIOUS
      <4>3. y \in T
        BY <3>3, <4>2
      <4>4. h \o <<y>> \in Seq(T) /\ Len(h \o <<y>>) = k + 1
        BY <3>5, <4>3, OneMore
      <4>5. (\A j \in 1..k : (h \o <<y>>)[j] = h[j]) /\ (h \o <<y>>)[k + 1] = y
        BY <3>5, <4>3, OneMore
      <4> HIDE DEF e
      <4>6. \A j \in 1..(k + 1) : (h \o <<y>>)[j] = e(j)
        <5>1. \A j \in 1..(k + 1) : j \in 1..k \/ j = k + 1
          OBVIOUS
        <5> QED BY <3>5, <4>1, <4>2, <4>5, <5>1
      <4>7. h \o <<y>> = [j \in 1..(k + 1) |-> (h \o <<y>>)[j]]
        BY <4>4, ListedFrom
      <4>8. h \o <<y>> = [j \in 1..(k + 1) |-> e(j)]
        BY <4>6, <4>7
      <4> QED BY <2>1, <2>3, <3>2, <4>1, <4>2, <4>8
    <3> QED BY <3>6, <3>7
  <2> QED BY <2>2, <2>3
<1>4. g[n] = [j \in 1..(n + x) |-> e(j)]
  <2>1. l(n) = n + x
    OBVIOUS
  <2>2. g[n] = [j \in 1..l(n) |-> e(j)]
    OBVIOUS
  <2> HIDE DEF g, l, e
  <2> QED BY <2>1, <2>2
<1> HIDE DEF e, l
<1>5. \A i \in 1..n : g[i] = IF i = 1 THEN seqs[i] ELSE g[i - 1] \o seqs[i]
  BY <1>3, Zenon
<1> HIDE DEF g
<1>6. FlattenSeq(seqs) = g[n]
  BY <1>2, <1>5, FlattenIs
<1> QED BY <1>1, <1>4, <1>6 DEF Spread, e

\* An instruction is fetched past its opcode, and that of XANDCC past one byte.
LEMMA CodeFetched ==
  ASSUME test \in Tests
  PROVE  /\ CodeFetches \in Nat /\ InstructionLength \in Nat /\ CodeFetches <= InstructionLength
         /\ CodeFetches >= Head1 /\ (E.body = "XANDCC" => CodeFetches >= 2)
<1>1. /\ Head1 \in {1, 2} /\ InstructionLength \in Nat
      /\ InstructionLength = Head1
              + (IF Addressed(E) THEN AddressBytes(E.addr, OperandByte) ELSE 0)
              + BodyBytes(E.body, ModeOf(E))
      /\ Addressed(E) => AddressBytes(E.addr, OperandByte) \in Nat
  BY CountsTyped
<1>2. PICK x : x = IF Addressed(E) THEN AddressBytes(E.addr, OperandByte) ELSE 0
  OBVIOUS
<1>3. PICK y : y = BodyBytes(E.body, ModeOf(E))
  OBVIOUS
<1>4. x \in Nat /\ InstructionLength = Head1 + x + y
  BY <1>1, <1>2, <1>3
<1>5. y \in {0, 1, 2}
  BY <1>3 DEF BodyBytes
<1>6. E.body = "XST16" => y = 2
  BY <1>3, BytesOf
<1>7. E.body = "XANDCC" => y = 1
  BY <1>3, BytesOf
<1> QED BY <1>1, <1>4, <1>5, <1>6, <1>7 DEF CodeFetches

LEMMA TwoOnes == \A u, v : <<u>> \o <<v>> = <<u, v>> /\ <<>> \o <<v>> = <<v>>
<1> SUFFICES ASSUME NEW u, NEW v
             PROVE  <<u>> \o <<v>> = <<u, v>> /\ <<>> \o <<v>> = <<v>>
  OBVIOUS
<1>1. PICK T : T = {u, v}
  OBVIOUS
<1>2. u \in T /\ v \in T /\ <<u>> \in Seq(T) /\ Len(<<u>>) = 1 /\ <<u>>[1] = u
  BY <1>1
<1>3. PICK s : s = <<u>> \o <<v>>
  OBVIOUS
<1>4. s \in Seq(T) /\ Len(s) = 1 + 1 /\ s[1] = u /\ s[1 + 1] = v
  <2>1. \A j \in 1..1 : (<<u>> \o <<v>>)[j] = <<u>>[j]
    BY <1>2, OneMore
  <2>2. <<u>> \o <<v>> \in Seq(T) /\ Len(<<u>> \o <<v>>) = 1 + 1 /\ (<<u>> \o <<v>>)[1 + 1] = v
    BY <1>2, OneMore
  <2> QED BY <1>2, <1>3, <2>1, <2>2
<1>5. s = <<u, v>>
  BY <1>4
<1>6. <<>> \o <<v>> = <<v>>
  OBVIOUS
<1> QED BY <1>3, <1>5, <1>6

LEMMA CycleListIs ==
  ASSUME test \in Tests, DataOK, Log(CodeFetches), icount = InitialIcount - Len(bus) - Lost(2)
  PROVE  /\ Len(bus) \in Nat \ {0} /\ Lost(2) \in {0, 1} /\ (Lost(2) = 1 => Len(bus) >= 2)
         /\ Cycles = Len(bus) + Lost(2)
         /\ CycleList = [j \in 1..Cycles |->
              IF j = 1 THEN CycleOf(bus[1])
              ELSE IF Lost(2) = 1 /\ j = 2 THEN Idle ELSE CycleOf(bus[j - Lost(2)])]
<1> DEFINE n == Len(bus)  x == Lost(2)
<1>1. n \in Nat /\ CodeFetches <= n /\ icount \in Int /\ DOMAIN bus = 1..n
  BY DEF DataOK, Log
<1>2. n \in Nat \ {0} /\ x \in {0, 1} /\ (x = 1 => n >= 2)
  <2>1. Head1 \in {1, 2}
    BY CountsTyped
  <2>2. x = 1 => E.body = "XANDCC"
    BY DEF Lost
  <2>3. x \in {0, 1}
    BY DEF Lost
  <2> HIDE DEF n, x
  <2> QED BY <1>1, <2>1, <2>2, <2>3, CodeFetched
<1>3. \A k \in 1..n : bus[k].icount = InitialIcount - k - Lost(k)
  BY DEF Log
<1>4. \A k \in Nat : (k = 1 => Lost(k) = 0) /\ (k >= 2 => Lost(k) = x)
  BY DEF Lost
<1> DEFINE previous(k) == IF k = 1 THEN InitialIcount ELSE bus[k - 1].icount
           entry(k) == Idles(previous(k) - bus[k].icount - 1) \o <<CycleOf(bus[k])>>
           seqs == [k \in DOMAIN bus |-> entry(k)]
           c == [k \in DOMAIN bus |-> CycleOf(bus[k])]
           F(j) == IF j = 1 THEN c[1] ELSE IF x = 1 /\ j = 2 THEN Idle ELSE c[j - x]
<1>5. CycleList = FlattenSeq(seqs) \o Idles(previous(n + 1) - icount)
  BY DEF CycleList
<1>6. Idles(0) = <<>> /\ Idles(1) = <<Idle>>
  BY DEF Idles
<1>7. InitialIcount \in Int
  BY DEF InitialIcount
<1>8. ASSUME NEW k \in 1..n
      PROVE  seqs[k] = IF x = 1 /\ k = 2 THEN <<Idle, c[k]>> ELSE <<c[k]>>
  <2>1. seqs[k] = Idles(previous(k) - bus[k].icount - 1) \o <<CycleOf(bus[k])>>
    BY <1>1
  <2>2. c[k] = CycleOf(bus[k])
    BY <1>1
  <2>3. previous(k) - bus[k].icount - 1 = IF x = 1 /\ k = 2 THEN 1 ELSE 0
    <3>1. CASE k = 1
      <4>1. bus[k].icount = InitialIcount - 1
        BY <1>3, <1>4, <1>7, <3>1
      <4> QED BY <1>7, <3>1, <4>1
    <3>2. CASE k # 1
      <4>1. previous(k) = InitialIcount - (k - 1) - Lost(k - 1)
        BY <1>1, <1>3, <3>2
      <4>2. bus[k].icount = InitialIcount - k - x
        BY <1>1, <1>3, <1>4, <3>2
      <4>3. Lost(k - 1) = IF k = 2 THEN 0 ELSE x
        BY <1>1, <1>4, <3>2
      <4> HIDE DEF previous, x
      <4> QED BY <1>2, <1>7, <3>2, <4>1, <4>2, <4>3
    <3> QED BY <3>1, <3>2
  <2> HIDE DEF previous, seqs, c, x, n
  <2>4. PICK v : v = c[k]
    OBVIOUS
  <2>5. <<Idle>> \o <<v>> = <<Idle, v>> /\ <<>> \o <<v>> = <<v>>
    BY TwoOnes
  <2> QED BY <1>6, <2>1, <2>2, <2>3, <2>4, <2>5
<1>9. previous(n + 1) - icount = 0
  <2>1. n + 1 # 1 /\ n + 1 - 1 = n /\ n \in 1..n
    BY <1>2
  <2>2. previous(n + 1) = bus[n].icount
    BY <2>1
  <2>3. bus[n].icount = InitialIcount - n - Lost(n)
    BY <1>3, <2>1
  <2>4. Lost(n) = x
    BY <1>2, <1>4
  <2> HIDE DEF previous, n, x
  <2> QED BY <1>1, <1>2, <1>7, <2>2, <2>3, <2>4 DEF n, x
<1>10. Cycles = n + x
  <2> HIDE DEF previous
  <2> QED BY <1>1, <1>2, <1>7 DEF Cycles
<1>11. Len(seqs) = n
  BY <1>1
<1>12. FlattenSeq(seqs) = [j \in 1..(n + x) |-> F(j)]
  <2> HIDE DEF c, n, x, previous
  <2>1. seqs = [k \in 1..n |-> seqs[k]]
    BY <1>1
  <2> HIDE DEF seqs
  <2>2. seqs = [k \in 1..n |-> IF x = 1 /\ k = 2 THEN <<Idle, c[k]>> ELSE <<c[k]>>]
    BY <1>8, <2>1
  <2>3. seqs = Gapped(n, x, c, Idle)
    BY <2>2 DEF Gapped
  <2>4. FlattenSeq(Gapped(n, x, c, Idle)) = Spread(n, x, c, Idle)
    BY <1>2, FlattenGapped
  <2> QED BY <2>3, <2>4 DEF Spread
<1>13. CycleList = [j \in 1..(n + x) |-> F(j)]
  <2> HIDE DEF F, n, x, seqs, previous
  <2>1. CycleList = [j \in 1..(n + x) |-> F(j)] \o <<>>
    BY <1>5, <1>6, <1>9, <1>12
  <2>2. PICK L : L = [j \in 1..(n + x) |-> F(j)]
    OBVIOUS
  <2>3. PICK T : T = {F(j) : j \in 1..(n + x)}
    OBVIOUS
  <2>4. L = [j \in 1..(n + x) |-> L[j]] /\ \A j \in 1..(n + x) : L[j] \in T
    BY <2>2, <2>3
  <2>5. n + x \in Nat
    BY <1>2
  <2>6. L \in Seq(T)
    BY <2>4, <2>5, ListedTo
  <2>7. L \o <<>> = L
    BY <2>6
  <2> QED BY <2>1, <2>2, <2>7
<1>14. \A j \in 1..(n + x) :
         F(j) = IF j = 1 THEN CycleOf(bus[1])
                ELSE IF x = 1 /\ j = 2 THEN Idle ELSE CycleOf(bus[j - x])
  <2>1. ASSUME NEW j \in 1..(n + x), j # 1, ~(x = 1 /\ j = 2)
        PROVE  j - x \in 1..n
    <3> HIDE DEF n, x
    <3> QED BY <1>2, <2>1
  <2>2. 1 \in 1..n
    BY <1>2
  <2>3. \A k \in 1..n : c[k] = CycleOf(bus[k])
    BY <1>1
  <2> HIDE DEF c, n, x
  <2> QED BY <2>1, <2>2, <2>3 DEF F
<1> HIDE DEF F
<1> QED BY <1>2, <1>10, <1>13, <1>14

-----------------------------------------------------------------------------
(***************************************************************************)
(* The verdict on what a test has run to.                                  *)
(***************************************************************************)
LEMMA AtTheEnd ==
  ASSUME IInv, TestInv, at = "idle", stack = <<>>, calls # 0
  PROVE  /\ test \in Tests /\ DataOK /\ freeRun = FALSE /\ calls <= 2
         /\ Log(CodeFetches) /\ icount = InitialIcount - Len(bus) - Lost(2)
         /\ Cycles = TestCycles /\ Landed
         /\ Saved => WordAt(reg["s"] + 10) = Behind1
<1>1. test \in Tests /\ freeRun = FALSE
  BY DEF TestInv, Calm
<1>2. ~AtStart
  BY DEF AtStart
<1>3. ~AtPage /\ ~AtMask
  BY DEF AtPage, AtMask
<1>4. ~AtCode
  <2>1. E.body \in Bodies
    BY <1>1, TestBodies
  <2>2. AtCode => at \in Calls \cup Bodies
    BY <2>1 DEF AtCode, Addressed
  <2>3. "idle" \notin Calls \cup Bodies
    BY DEF Calls, Bodies, Usual, RmwOps, Alu8Ops, Alu16Ops
  <2> QED BY <2>2, <2>3
<1>5. Onward
  BY <1>2, <1>3, <1>4 DEF TestInv
<1>6. DataOK /\ calls <= 2
  BY DEF IInv, CoreInv, CallsOK
<1>7. Ahead = 0 /\ WaitingCycles = 0
  BY DEF Ahead, WaitingCycles, Calls
<1>8. Cycles = TestCycles
  <2>1. TestCycles \in Int /\ icount \in Int /\ InitialIcount \in Int
    BY <1>1, <1>6, CountsTyped DEF DataOK, InitialIcount
  <2>2. icount + TestCycles = InitialIcount
    BY <1>5, <1>7, <2>1 DEF Onward
  <2>3. PICK t : t = TestCycles
    OBVIOUS
  <2> QED BY <2>1, <2>2, <2>3 DEF Cycles
<1>9. ~Busy
  BY DEF Busy
<1> QED BY <1>1, <1>5, <1>6, <1>8, <1>9 DEF Onward

LEMMA Passes ==
  ASSUME IInv, TestInv, at = "idle", stack = <<>>, calls # 0
  PROVE  Verdict = "ok"
<1>1. /\ test \in Tests /\ DataOK /\ freeRun = FALSE /\ calls <= 2
      /\ Log(CodeFetches) /\ icount = InitialIcount - Len(bus) - Lost(2)
      /\ Cycles = TestCycles
  BY AtTheEnd
<1>2. /\ Len(bus) \in Nat \ {0} /\ Cycles = Len(bus) + Lost(2) /\ Lost(2) \in {0, 1}
      /\ \E F : CycleList = [j \in 1..Cycles |-> F[j]]
  <2>1. PICK G : G = [j \in 1..Cycles |->
              IF j = 1 THEN CycleOf(bus[1])
              ELSE IF Lost(2) = 1 /\ j = 2 THEN Idle ELSE CycleOf(bus[j - Lost(2)])]
    OBVIOUS
  <2>2. CycleList = G
    BY <1>1, <2>1, CycleListIs
  <2>3. G = [j \in 1..Cycles |-> G[j]]
    BY <2>1
  <2> QED BY <1>1, <2>2, <2>3, CycleListIs
<1>3. Len(CycleList) = Cycles
  <2>1. PICK F : CycleList = [j \in 1..Cycles |-> F[j]]
    BY <1>2
  <2>2. Cycles \in Nat
    BY <1>2
  <2> QED BY <2>1, <2>2
<1>4. Cycles \in 2..21 /\ (Expected = -1 \/ Expected = Cycles)
  BY <1>1, TestAgrees
<1>5. ~(calls > MaxCalls)
  <2>1. calls \in {0, 1, 2}
    BY DEF IInv, CallsOK
  <2> QED BY <2>1 DEF MaxCalls
<1>6. CodeFetches >= Head1 /\ CodeFetches \in Nat /\ CodeFetches <= Len(bus)
  BY <1>1, CodeFetched DEF Log
<1>7. ASSUME NEW k \in {1, 2}, k <= Head1
      PROVE  IsFetch(k, StartPC(k - 1), Pristine(StartPC(k - 1)))
  <2>1. k <= CodeFetches /\ k \in 1..Len(bus)
    <3>1. Head1 \in {1, 2}
      BY <1>1, CountsTyped
    <3> QED BY <1>2, <1>6, <1>7, <3>1
  <2>2. /\ ~bus[k].write /\ bus[k].address = StartPC(k - 1)
        /\ bus[k].data = Pristine(StartPC(k - 1))
    BY <1>1, <2>1 DEF Log
  <2>3. k \in DOMAIN bus
    BY <1>1, <2>1 DEF DataOK
  <2> QED BY <2>2, <2>3 DEF IsFetch
<1>8. IsFetch(1, StartPC(0), Pristine(StartPC(0)))
  <2>1. 1 <= Head1 /\ 1 - 1 = 0
    BY <1>1, CountsTyped
  <2> QED BY <1>7, <2>1
<1>9. test.prefix # 0 => IsFetch(2, StartPC(1), test.opcode)
  <2>1. test.prefix # 0 => Pristine(StartPC(1)) = test.opcode /\ 2 <= Head1
    BY <1>1, LoadedCode DEF Head1, Opening
  <2>2. 2 - 1 = 1
    OBVIOUS
  <2> QED BY <1>7, <2>1, <2>2
<1>10. ~(Expected >= 0 /\ Cycles # Expected)
  BY <1>4
<1> QED BY <1>1, <1>3, <1>4, <1>5, <1>8, <1>9, <1>10 DEF Verdict

LEMMA VectorKeeps ==
  ASSUME UNCHANGED <<coreVars, test>>
  PROVE  Vector' = Vector
<1>1. mem' = mem /\ bus' = bus /\ reg' = reg /\ cc' = cc /\ icount' = icount /\ test' = test
  BY DEF coreVars
<1>2. /\ \A k : StartPC(k)' = StartPC(k) /\ Pristine(k)' = Pristine(k)
      /\ InstructionLength' = InstructionLength
  BY <1>1, TestKeeps
<1>3. Touched' = Touched
  BY <1>1, <1>2 DEF Touched
<1>4. \A a : Peek(a)' = Peek(a)
  BY <1>1 DEF Peek
<1>5. CycleList' = CycleList
  BY <1>1 DEF CycleList, CycleOf, Idles, Idle, InitialIcount
<1> QED BY <1>1, <1>2, <1>3, <1>4, <1>5 DEF Vector

\* A test that has ended has passed, and its vector is that of where it ended.
Ended ==
  /\ verdict \in {"running", "ok"}
  /\ verdict = "ok" => at = "idle" /\ stack = <<>> /\ calls # 0 /\ vector = Vector

TInv == IInv /\ TestInv /\ Ended

LEMMA EndedNext == TInv /\ [Next]_vars => Ended'
<1> SUFFICES ASSUME TInv, [Next]_vars PROVE Ended'
  OBVIOUS
<1>1. IInv /\ TestInv /\ Ended
  BY DEF TInv
<1>2. CASE Execute
  BY <1>2 DEF Execute, Ended
<1>3. CASE Step
  <2>1. at # "idle"
    BY <1>3, NotIdle DEF Step
  <2>2. verdict = "running" /\ verdict' = verdict
    BY <1>1, <1>3, <2>1 DEF Ended, Step, genVars
  <2> QED BY <2>2 DEF Ended
<1>4. CASE Finish
  <2>1. at = "idle" /\ calls # 0 /\ UNCHANGED <<coreVars, test, calls>>
    <3>1. calls > 0 => calls # 0
      OBVIOUS
    <3> QED BY <1>4, <3>1 DEF Finish
  <2>2. stack = <<>>
    <3>1. calls \in {0, 1, 2}
      BY <1>1 DEF IInv, CallsOK
    <3> QED BY <1>4, <3>1 DEF Finish, MaxCalls
  <2>3. Verdict = "ok"
    BY <1>1, <2>1, <2>2, Passes
  <2>4. verdict' = "ok" /\ vector' = Vector
    BY <1>4, <2>3 DEF Finish
  <2>5. Vector' = Vector
    BY <2>1, VectorKeeps
  <2>6. at' = at /\ stack' = stack /\ calls' = calls
    BY <2>1 DEF coreVars
  <2> QED BY <2>1, <2>2, <2>4, <2>5, <2>6 DEF Ended
<1>5. CASE UNCHANGED vars
  <2>1. UNCHANGED <<coreVars, test>> /\ UNCHANGED <<calls, verdict, vector>>
    BY <1>5 DEF vars, genVars
  <2>2. Vector' = Vector
    BY <2>1, VectorKeeps
  <2>3. at' = at /\ stack' = stack
    BY <2>1 DEF coreVars
  <2> QED BY <1>1, <2>1, <2>2, <2>3 DEF Ended
<1> QED BY <1>2, <1>3, <1>4, <1>5 DEF Next

LEMMA TestsInductive == Spec => []TInv
<1>1. GenInit => TInv
  BY GenInitOK, GenStarts DEF TInv, Ended, GenInit
<1>2. TInv /\ [Next]_vars => TInv'
  BY NextOK, TestInvNext, EndedNext DEF TInv
<1> QED BY <1>1, <1>2, PTL DEF Spec

-----------------------------------------------------------------------------
(***************************************************************************)
(* fail_test is never called: on every state of every listed instruction   *)
(* the core takes the cycles that expected_cycles() gives, fetches its     *)
(* opcodes first, and accounts for every cycle in the cycle list.          *)
(***************************************************************************)
THEOREM NoTestFails == Spec => []TestsPass
<1>1. TInv => TestsPass
  BY DEF TInv, Ended, TestsPass
<1> QED BY <1>1, TestsInductive, PTL

(***************************************************************************)
(* The cycle list of a vector has an idle cycle, the one of the opcode     *)
(* table's undocumented ANDCC at 38, nowhere else.                         *)
(***************************************************************************)
THEOREM IdleOnlyInMaskedAndcc == Spec => []IdleCycles
<1>1. ASSUME TInv, verdict = "ok"
      PROVE  (\E k \in DOMAIN vector.cycles : vector.cycles[k].status = "----") <=> On1({\h38})
  <2>1. IInv /\ TestInv /\ at = "idle" /\ stack = <<>> /\ calls # 0 /\ vector = Vector
    BY <1>1 DEF TInv, Ended
  <2>2. test \in Tests /\ DataOK /\ Log(CodeFetches) /\ icount = InitialIcount - Len(bus) - Lost(2)
    BY <2>1, AtTheEnd
  <2>3. vector.cycles = CycleList
    BY <2>1 DEF Vector
  <2> DEFINE n == Len(bus)  x == Lost(2)
             F(j) == IF j = 1 THEN CycleOf(bus[1])
                     ELSE IF x = 1 /\ j = 2 THEN Idle ELSE CycleOf(bus[j - x])
  <2>4. /\ n \in Nat \ {0} /\ x \in {0, 1} /\ Cycles = n + x /\ (x = 1 => n >= 2)
        /\ CycleList = [j \in 1..Cycles |-> F(j)]
    BY <2>2, CycleListIs
  <2>5. \A b : CycleOf(b).status # "----"
    BY DEF CycleOf
  <2>6. Idle.status = "----"
    BY DEF Idle
  <2>7. x = 1 <=> On1({\h38})
    BY <2>2, IdleIsMasked DEF Lost
  <2>8. (\E k \in 1..Cycles : F(k).status = "----") <=> x = 1
    <3>1. ASSUME x = 1 PROVE 2 \in 1..Cycles /\ F(2) = Idle
      <4> HIDE DEF n
      <4> QED BY <2>4, <3>1
    <3>2. ASSUME x # 1, NEW k \in 1..Cycles PROVE F(k).status # "----"
      BY <2>5, <3>2
    <3> HIDE DEF F, x
    <3> QED BY <2>6, <3>1, <3>2
  <2> HIDE DEF F
  <2> QED BY <2>3, <2>4, <2>7, <2>8
<1>2. TInv => IdleCycles
  BY <1>1 DEF IdleCycles
<1> QED BY <1>2, TestsInductive, PTL

(***************************************************************************)
(* Where execution continues, and the return address that a subroutine     *)
(* call or a software interrupt leaves on the stack, are the address       *)
(* behind the instruction, also where the stack lies over the code.        *)
(***************************************************************************)
THEOREM ReturnsBehindInstruction == Spec => []ReturnAddress
<1>1. ASSUME TInv, verdict = "ok" PROVE ReturnAddress
  <2>1. IInv /\ TestInv /\ at = "idle" /\ stack = <<>> /\ calls # 0
    BY <1>1 DEF TInv, Ended
  <2>2. test \in Tests /\ Landed /\ (Saved => WordAt(reg["s"] + 10) = Behind1)
    BY <2>1, AtTheEnd
  <2>3. IsCall => WordAt(reg["s"]) = Behind1
    BY <2>2, CallBodies DEF Landed
  <2>4. IsSoftwareInterrupt => WordAt(reg["s"] + 10) = Behind1
    BY <2>1, <2>2, SoftwareBodies DEF Saved
  <2>5. ~IsCall /\ ~IsSoftwareInterrupt /\ ~MayJump => reg["pc"] = Behind1
    BY <2>2, StraightOr DEF Landed
  <2>6. ~(IsCall /\ IsSoftwareInterrupt)
    BY <2>2, CallBodies, SoftwareBodies DEF SoftwareLabels
  <2> QED BY <2>3, <2>4, <2>5, <2>6 DEF ReturnAddress, Behind1
<1>2. TInv => ReturnAddress
  BY <1>1 DEF ReturnAddress
<1> QED BY <1>2, TestsInductive, PTL

(***************************************************************************)
(* The length that the opcode table gives is what the core fetches, and it *)
(* fetches the instruction before it reads or writes anything else.        *)
(***************************************************************************)
THEOREM LengthIsFetched == Spec => []InstructionBytes
<1>1. ASSUME TInv, verdict = "ok" PROVE InstructionBytes
  <2>1. IInv /\ TestInv /\ at = "idle" /\ stack = <<>> /\ calls # 0
    BY <1>1 DEF TInv, Ended
  <2>2. test \in Tests /\ DataOK /\ Log(CodeFetches)
    BY <2>1, AtTheEnd
  <2> DEFINE n == IF TestMode = "XST16_IMMEDIATE" THEN InstructionLength - 1
                  ELSE InstructionLength
  <2>3. n = CodeFetches /\ n \in Nat
    BY <2>2, ImmediateStore, CodeFetched DEF CodeFetches
  <2>4. n <= Len(bus) /\ Len(bus) \in Nat /\ DOMAIN bus = 1..Len(bus)
    BY <2>2, <2>3 DEF Log, DataOK
  <2> HIDE DEF n
  <2>5. \A k \in 1..Len(bus) : /\ k <= n => /\ bus[k].role \in Fetches
                                            /\ bus[k].address = StartPC(k - 1)
                               /\ k > n => bus[k].role \notin Fetches
    BY <2>2, <2>3 DEF Log
  <2>6. {k \in DOMAIN bus : bus[k].role \in {"opcode", "arg"}} = 1..n
    BY <2>3, <2>4, <2>5 DEF Fetches
  <2>7. \A k \in 1..n : bus[k].address = StartPC(k - 1)
    BY <2>3, <2>4, <2>5
  <2> QED BY <2>6, <2>7 DEF InstructionBytes, n
<1>2. TInv => InstructionBytes
  BY <1>1 DEF InstructionBytes
<1> QED BY <1>2, TestsInductive, PTL

-----------------------------------------------------------------------------
(***************************************************************************)
(* What a log says of the memory: v is what the address a holds in front   *)
(* of access k of the log b, if it held u in front of the first.           *)
(***************************************************************************)
WritesTo(b, i, a) == i \in DOMAIN b /\ b[i].write /\ b[i].address = a

Holds(b, k, a, u, v) ==
  \/ v = u /\ \A i \in Nat : i < k => ~WritesTo(b, i, a)
  \/ \E j \in Nat : /\ j < k /\ WritesTo(b, j, a) /\ b[j].data = v
                    /\ \A i \in Nat : (j < i /\ i < k) => ~WritesTo(b, i, a)

\* Memory and reads are what the writes of the log have left.
Replay ==
  /\ \A a \in Word : Holds(bus, Len(bus) + 1, a, Pristine(a), Peek(a))
  /\ \A a \in Word : \A k \in 1..Len(bus) :
       (bus[k].write = FALSE /\ bus[k].address = a) => Holds(bus, k, a, Pristine(a), bus[k].data)

\* The log may grow, and accesses that do not write to a may pass.
LEMMA HoldsOn ==
  ASSUME NEW b, NEW n \in Nat, DOMAIN b = 1..n, NEW c, NEW m \in Nat, DOMAIN c = 1..m, n <= m,
         \A i \in 1..n : c[i] = b[i],
         NEW k \in Nat, k <= n + 1, NEW l \in Nat, k <= l,
         NEW a, NEW u, NEW v, Holds(b, k, a, u, v),
         \A i \in Nat : (k <= i /\ i < l) => ~WritesTo(c, i, a)
  PROVE  Holds(c, l, a, u, v)
<1>1. ASSUME NEW i \in Nat, i < k PROVE /\ WritesTo(c, i, a) <=> WritesTo(b, i, a)
                                        /\ WritesTo(b, i, a) => c[i].data = b[i].data
  <2>1. i \in 1..m <=> i \in 1..n
    BY <1>1
  <2>2. i \in 1..n => c[i] = b[i]
    OBVIOUS
  <2> QED BY <2>1, <2>2 DEF WritesTo
<1>2. CASE v = u /\ \A i \in Nat : i < k => ~WritesTo(b, i, a)
  <2>1. \A i \in Nat : i < l => ~WritesTo(c, i, a)
    BY <1>1, <1>2
  <2> QED BY <1>2, <2>1 DEF Holds
<1>3. ASSUME NEW j \in Nat, j < k, WritesTo(b, j, a), b[j].data = v,
             \A i \in Nat : (j < i /\ i < k) => ~WritesTo(b, i, a)
      PROVE  Holds(c, l, a, u, v)
  <2>1. WritesTo(c, j, a) /\ c[j].data = v /\ j < l
    BY <1>1, <1>3
  <2>2. \A i \in Nat : (j < i /\ i < l) => ~WritesTo(c, i, a)
    BY <1>1, <1>3
  <2> QED BY <2>1, <2>2 DEF Holds
<1> QED BY <1>2, <1>3 DEF Holds

\* The log c has, behind its access z, the q writes of w.
LogsWrites(c, z, w, q) ==
  \A k \in 1..q :
    c[z + k].write = TRUE /\ c[z + k].address = w[k].address /\ c[z + k].data = w[k].data

\* The log of a step: reads r, then writes w.
LEMMA LogOf ==
  ASSUME DataOK, NEW p \in Nat, NEW q \in Nat, NEW f, NEW r, NEW w,
         Reads(r, p, f), Writes(w, q), Bus(r \o w)
  PROVE  /\ Len(bus) \in Nat /\ DOMAIN bus = 1..Len(bus) /\ Len(bus') = Len(bus) + p + q
         /\ DOMAIN bus' = 1..(Len(bus) + p + q)
         /\ \A k \in 1..Len(bus) : bus'[k] = bus[k]
         /\ \A k \in 1..p : /\ bus'[Len(bus) + k].write = FALSE
                            /\ bus'[Len(bus) + k].address \in Word
                            /\ bus'[Len(bus) + k].data = Peek(bus'[Len(bus) + k].address)
         /\ LogsWrites(bus', Len(bus) + p, w, q)
<1> DEFINE s == r \o w
           a == [k \in DOMAIN s |-> [write |-> s[k].write, address |-> s[k].address,
                                     data |-> s[k].data, role |-> s[k].role,
                                     icount |-> icount - k]]
<1>1. r \in Seq(ReadAccess) /\ Len(r) = p /\ w \in Seq(WriteAccess) /\ Len(w) = q
  BY DEF Reads, Writes
<1>2. s \in Seq(ReadAccess \cup WriteAccess) /\ Len(s) = p + q
  BY <1>1
<1>3. bus' = bus \o a
  BY DEF Bus
<1>4. bus \in Seq(AccessType)
  BY DEF DataOK
<1>5. \A k \in 1..p : s[k] = r[k]
  BY <1>1
<1>6. \A k \in 1..q : s[p + k] = w[k]
  BY <1>1
<1> HIDE DEF s
<1>7. DOMAIN s = 1..(p + q)
  BY <1>2
<1>8. a \in Seq({a[k] : k \in 1..(p + q)}) /\ Len(a) = p + q
  BY <1>7
<1>9. \A k \in 1..(p + q) : /\ a[k].write = s[k].write /\ a[k].address = s[k].address
                            /\ a[k].data = s[k].data
  BY <1>7
<1> HIDE DEF a
<1> DEFINE T == AccessType \cup {a[k] : k \in 1..(p + q)}
<1>10. bus \in Seq(T) /\ a \in Seq(T)
  BY <1>4, <1>8
<1> HIDE DEF T
<1>11. /\ bus' \in Seq(T) /\ Len(bus') = Len(bus) + p + q
       /\ \A k \in 1..(Len(bus) + p + q) :
            bus'[k] = IF k <= Len(bus) THEN bus[k] ELSE a[k - Len(bus)]
  <2>1. bus \o a \in Seq(T) /\ Len(bus \o a) = Len(bus) + Len(a)
    BY <1>10, ConcatProperties
  <2>2. \A k \in 1..(Len(bus) + Len(a)) :
          (bus \o a)[k] = IF k <= Len(bus) THEN bus[k] ELSE a[k - Len(bus)]
    BY <1>10, ConcatProperties
  <2>3. Len(bus) + Len(a) = Len(bus) + p + q
    BY <1>4, <1>8
  <2> QED BY <1>3, <2>1, <2>2, <2>3
<1>12. Len(bus) \in Nat /\ DOMAIN bus = 1..Len(bus) /\ DOMAIN bus' = 1..(Len(bus) + p + q)
  BY <1>4, <1>11
<1>13. \A k \in 1..Len(bus) : bus'[k] = bus[k]
  BY <1>11, <1>12
<1>14. ASSUME NEW k \in 1..p
       PROVE  /\ bus'[Len(bus) + k].write = FALSE
              /\ bus'[Len(bus) + k].address \in Word
              /\ bus'[Len(bus) + k].data = Peek(bus'[Len(bus) + k].address)
  <2>1. bus'[Len(bus) + k] = a[k] /\ k \in 1..(p + q)
    <3>1. Len(bus) + k \in 1..(Len(bus) + p + q) /\ ~(Len(bus) + k <= Len(bus))
          /\ Len(bus) + k - Len(bus) = k
      BY <1>12
    <3> QED BY <1>11, <3>1
  <2>2. a[k].write = r[k].write /\ a[k].address = r[k].address /\ a[k].data = r[k].data
    BY <1>5, <1>9, <2>1
  <2>3. r[k] \in ReadAccess /\ r[k].data = Peek(r[k].address)
    BY <1>1 DEF Reads
  <2> QED BY <2>1, <2>2, <2>3 DEF ReadAccess
<1>15. ASSUME NEW k \in 1..q
       PROVE  /\ bus'[Len(bus) + p + k].write = TRUE
              /\ bus'[Len(bus) + p + k].address = w[k].address
              /\ bus'[Len(bus) + p + k].data = w[k].data
  <2>1. bus'[Len(bus) + p + k] = a[p + k] /\ p + k \in 1..(p + q)
    <3>1. Len(bus) + p + k \in 1..(Len(bus) + p + q) /\ ~(Len(bus) + p + k <= Len(bus))
          /\ Len(bus) + p + k - Len(bus) = p + k
      BY <1>12
    <3> QED BY <1>11, <3>1
  <2>2. a[p + k].write = w[k].write /\ a[p + k].address = w[k].address /\ a[p + k].data = w[k].data
    BY <1>6, <1>9, <2>1
  <2>3. w[k] \in WriteAccess
    BY <1>1
  <2> QED BY <2>1, <2>2, <2>3 DEF WriteAccess
<1>16. LogsWrites(bus', Len(bus) + p, w, q)
  BY <1>15 DEF LogsWrites
<1> QED BY <1>11, <1>12, <1>13, <1>14, <1>16

\* A step that reads and then writes keeps to what the log says.
LEMMA ReplayMoves ==
  ASSUME DataOK, Replay, test' = test, NEW m, NEW f, Moves(m, f)
  PROVE  Replay'
<1>1. PICK p, q, r, w : /\ p \in Nat /\ q \in Nat /\ m = p + q
                        /\ Reads(r, p, f) /\ Writes(w, q) /\ Bus(r \o w)
  BY DEF Moves
<1>2. PICK n : n = Len(bus)
  OBVIOUS
<1>3. PICK b : b = bus
  OBVIOUS
<1>4. PICK c : c = bus'
  OBVIOUS
<1>5. /\ n \in Nat /\ p \in Nat /\ q \in Nat
      /\ DOMAIN b = 1..n /\ Len(c) = n + p + q /\ DOMAIN c = 1..(n + p + q)
      /\ \A k \in 1..n : c[k] = b[k]
      /\ \A k \in 1..p : /\ c[n + k].write = FALSE /\ c[n + k].address \in Word
                         /\ c[n + k].data = Peek(c[n + k].address)
      /\ \A k \in 1..q : /\ c[n + p + k].write = TRUE /\ c[n + p + k].address = w[k].address
                         /\ c[n + p + k].data = w[k].data
  <2>1. Reads(r, p, f) /\ Writes(w, q) /\ Bus(r \o w) /\ p \in Nat /\ q \in Nat
    BY <1>1
  <2>2. Len(bus) \in Nat /\ DOMAIN bus = 1..Len(bus)
    BY DEF DataOK
  <2>3. Len(bus') = Len(bus) + p + q /\ DOMAIN bus' = 1..(Len(bus) + p + q)
    BY <2>1, LogOf, Zenon
  <2>4. \A k \in 1..Len(bus) : bus'[k] = bus[k]
    BY <2>1, LogOf, Zenon
  <2>5. \A k \in 1..p : /\ bus'[Len(bus) + k].write = FALSE
                        /\ bus'[Len(bus) + k].address \in Word
                        /\ bus'[Len(bus) + k].data = Peek(bus'[Len(bus) + k].address)
    BY <2>1, LogOf, Zenon
  <2>6. LogsWrites(bus', Len(bus) + p, w, q)
    BY <2>1, LogOf, Zenon
  <2>7. \A k \in 1..q : /\ bus'[Len(bus) + p + k].write = TRUE
                        /\ bus'[Len(bus) + p + k].address = w[k].address
                        /\ bus'[Len(bus) + p + k].data = w[k].data
    BY <2>6 DEF LogsWrites
  <2> QED BY <1>2, <1>3, <1>4, <2>1, <2>2, <2>3, <2>4, <2>5, <2>7
<1>6. \A a : Pristine(a)' = Pristine(a)
  BY TestKeeps
<1>7. /\ \A a \in Word : Holds(b, n + 1, a, Pristine(a), Peek(a))
      /\ \A a \in Word : \A k \in 1..n :
           (b[k].write = FALSE /\ b[k].address = a) => Holds(b, k, a, Pristine(a), b[k].data)
  BY <1>2, <1>3 DEF Replay
<1>8. /\ \A j \in 1..q : /\ Peek(w[j].address)' = w[j].data
                         /\ \A i \in 1..q : w[i].address = w[j].address => i = j
      /\ \A a \in Word : Peek(a)' = Peek(a) \/ \E j \in 1..q : w[j].address = a
  BY <1>1 DEF Writes
<1>9. n <= n + p + q /\ n + p + q \in Nat
  BY <1>5
\* Nothing is written between the log and the writes.
<1>10. \A a : \A i \in Nat : (n + 1 <= i /\ i < n + p + 1) => ~WritesTo(c, i, a)
  <2> SUFFICES ASSUME NEW i \in Nat, n + 1 <= i, i < n + p + 1
               PROVE  c[i].write = FALSE
    BY DEF WritesTo
  <2>1. i - n \in 1..p /\ n + (i - n) = i
    BY <1>5
  <2>2. c[n + (i - n)].write = FALSE
    BY <1>5, <2>1
  <2> QED BY <2>1, <2>2
<1>11. ASSUME NEW a \in Word, NEW k \in 1..(n + p + q), c[k].write = FALSE, c[k].address = a
       PROVE  Holds(c, k, a, Pristine(a), c[k].data)
  <2>1. PICK v : v = c[k].data
    OBVIOUS
  <2>2. PICK u : u = Pristine(a)
    OBVIOUS
  <2>3. CASE k <= n
    <3>1. k \in 1..n /\ k \in Nat /\ c[k] = b[k]
      BY <1>5, <2>3
    <3>2. Holds(b, k, a, u, v)
      BY <1>7, <1>11, <2>1, <2>2, <3>1
    <3>3. \A i \in Nat : (k <= i /\ i < k) => ~WritesTo(c, i, a)
      BY <3>1
    <3>4. k <= n + 1 /\ k <= k
      BY <1>5, <3>1
    <3>5. Holds(c, k, a, u, v)
      BY <1>5, <1>9, <3>1, <3>2, <3>3, <3>4, HoldsOn
    <3> QED BY <2>1, <2>2, <3>5
  <2>4. CASE k > n /\ k <= n + p
    <3>1. k - n \in 1..p /\ n + (k - n) = k
      BY <1>5, <2>4
    <3>2. c[k].data = Peek(c[k].address)
      BY <1>5, <3>1, ZenonT(40)
    <3>3. v = Peek(a)
      BY <1>11, <2>1, <3>2
    <3>4. Holds(b, n + 1, a, u, v)
      BY <1>7, <2>2, <3>3
    <3>5. n + 1 \in Nat /\ k \in Nat /\ n + 1 <= k /\ n + 1 <= n + 1 /\ k <= n + p
      BY <1>5, <2>4
    <3>6. \A i \in Nat : (n + 1 <= i /\ i < k) => ~WritesTo(c, i, a)
      BY <1>5, <1>10, <3>5
    <3>7. Holds(c, k, a, u, v)
      BY <1>5, <1>9, <3>4, <3>5, <3>6, HoldsOn
    <3> QED BY <2>1, <2>2, <3>7
  <2>5. CASE k > n + p
    <3>1. k - (n + p) \in 1..q /\ n + p + (k - (n + p)) = k
      BY <1>5, <2>5
    <3>2. c[k].write = TRUE
      BY <1>5, <3>1
    <3> QED BY <1>11, <3>2
  <2> QED BY <1>5, <2>3, <2>4, <2>5
<1>12. ASSUME NEW a \in Word
       PROVE  Holds(c, n + p + q + 1, a, Pristine(a), Peek(a)')
  <2>1. PICK u : u = Pristine(a)
    OBVIOUS
  <2>2. PICK v : v = Peek(a)'
    OBVIOUS
  <2>3. CASE \E j \in 1..q : w[j].address = a
    <3>1. PICK j \in 1..q : w[j].address = a
      BY <2>3
    <3>2. Peek(w[j].address)' = w[j].data
      BY <1>8
    <3>3. v = w[j].data
      BY <2>2, <3>1, <3>2
    <3>4. n + p + j \in 1..(n + p + q) /\ n + p + j \in Nat /\ n + p + j < n + p + q + 1
      BY <1>5
    <3>5. WritesTo(c, n + p + j, a) /\ c[n + p + j].data = v
      BY <1>5, <3>1, <3>3, <3>4 DEF WritesTo
    <3>6. ASSUME NEW i \in Nat, n + p + j < i, i < n + p + q + 1 PROVE ~WritesTo(c, i, a)
      <4>1. i - (n + p) \in 1..q /\ n + p + (i - (n + p)) = i /\ i - (n + p) # j
        BY <1>5, <3>6
      <4>2. c[i].address = w[i - (n + p)].address
        BY <1>5, <4>1
      <4>3. w[i - (n + p)].address # w[j].address
        BY <1>8, <4>1
      <4> QED BY <3>1, <4>2, <4>3 DEF WritesTo
    <3> QED BY <2>2, <3>4, <3>5, <3>6 DEF Holds
  <2>4. CASE ~\E j \in 1..q : w[j].address = a
    <3>1. v = Peek(a)
      BY <1>8, <2>2, <2>4
    <3>2. Holds(b, n + 1, a, u, v)
      BY <1>7, <2>1, <3>1
    <3>3. ASSUME NEW i \in Nat, n + 1 <= i, i < n + p + q + 1 PROVE ~WritesTo(c, i, a)
      <4>1. CASE i < n + p + 1
        BY <1>10, <3>3, <4>1
      <4>2. CASE ~(i < n + p + 1)
        <5>1. i - (n + p) \in 1..q /\ n + p + (i - (n + p)) = i
          BY <1>5, <3>3, <4>2
        <5>2. c[i].address = w[i - (n + p)].address
          BY <1>5, <5>1
        <5> QED BY <2>4, <5>1, <5>2 DEF WritesTo
      <4> QED BY <4>1, <4>2
    <3>4. n + 1 \in Nat /\ n + p + q + 1 \in Nat /\ n + 1 <= n + 1 /\ n + 1 <= n + p + q + 1
      BY <1>5
    <3>5. Holds(c, n + p + q + 1, a, u, v)
      BY <1>5, <1>9, <3>2, <3>3, <3>4, HoldsOn
    <3> QED BY <2>1, <2>2, <3>5
  <2> QED BY <2>3, <2>4
<1>13. \A a \in Word : Holds(bus', Len(bus') + 1, a, Pristine(a)', Peek(a)')
  BY <1>4, <1>5, <1>6, <1>12
<1>14. \A a \in Word : \A k \in 1..Len(bus') :
         (bus'[k].write = FALSE /\ bus'[k].address = a) =>
            Holds(bus', k, a, Pristine(a)', bus'[k].data)
  <2>1. 1..Len(bus') = 1..(n + p + q)
    BY <1>4, <1>5
  <2> QED BY <1>4, <1>6, <1>11, <2>1
<1> QED BY <1>13, <1>14 DEF Replay

LEMMA ReplayStays ==
  ASSUME Replay, UNCHANGED <<bus, mem, test>>
  PROVE  Replay'
<1>1. \A a : Pristine(a)' = Pristine(a) /\ Peek(a)' = Peek(a)
  BY TestKeeps DEF Peek
<1> QED BY <1>1 DEF Replay

LEMMA ReplayStarts == GenInit => Replay
<1> SUFFICES ASSUME GenInit PROVE Replay
  OBVIOUS
<1>1. bus = <<>> /\ mem = Loaded(test)
  BY DEF GenInit
<1>2. \A a : Peek(a) = Pristine(a)
  BY <1>1, PeekPristine
<1>3. \A i, a : ~WritesTo(bus, i, a)
  BY <1>1 DEF WritesTo
<1>4. \A k, a : Holds(bus, k, a, Pristine(a), Pristine(a))
  BY <1>3 DEF Holds
<1>5. Len(bus) = 0
  BY <1>1
<1>6. \A a \in Word : Holds(bus, Len(bus) + 1, a, Pristine(a), Peek(a))
  BY <1>2, <1>4
<1> QED BY <1>5, <1>6 DEF Replay

LEMMA ReplayNext == IInv /\ Replay /\ [Next]_vars => Replay'
<1> SUFFICES ASSUME IInv, Replay, [Next]_vars PROVE Replay'
  OBVIOUS
<1>1. CoreInv /\ DataOK
  BY DEF IInv, CoreInv
<1>2. CASE Step
  <2>1. Instruction /\ test' = test
    BY <1>2 DEF Step, genVars
  <2>2. CASE MAIN \/ XANDCC \/ FREERUN
    BY <2>1, <2>2, ReplayStays DEF MAIN, XANDCC, FREERUN
  <2>3. CASE DISPATCH01 \/ DISPATCH10 \/ DISPATCH11
    <3>1. mem' = mem /\ Bus(<<Rd(PC(0), "opcode")>>)
      BY <2>3 DEF DISPATCH01, DISPATCH10, DISPATCH11, FetchAndDispatch
    <3>2. Moves(1, 1)
      BY <1>1, <3>1, ReadOpcode, ReadsMove
    <3> QED BY <1>1, <2>1, <3>2, ReplayMoves
  <2>4. CASE ~(MAIN \/ DISPATCH01 \/ DISPATCH10 \/ DISPATCH11 \/ XANDCC \/ FREERUN)
    <3>1. Advances
      BY <1>1, <2>1, <2>4, InstructionAdvances
    <3>2. PICK m \in Nat : Moves(m, FetchesAhead)
      BY <3>1 DEF Advances
    <3>3. PICK f : f = FetchesAhead
      OBVIOUS
    <3>4. Moves(m, f)
      BY <3>2, <3>3
    <3> QED BY <1>1, <2>1, <3>4, ReplayMoves
  <2> QED BY <2>2, <2>3, <2>4
<1>3. CASE Execute
  BY <1>3, ReplayStays DEF Execute, ExecuteOne
<1>4. CASE Finish
  BY <1>4, ReplayStays DEF Finish, coreVars
<1>5. CASE UNCHANGED vars
  BY <1>5, ReplayStays DEF vars, coreVars, genVars
<1> QED BY <1>2, <1>3, <1>4, <1>5 DEF Next

LEMMA ReplayInductive == Spec => []Replay
<1>1. IInv /\ Replay /\ [Next]_vars => Replay'
  BY ReplayNext
<1> QED BY <1>1, ReplayStarts, Inductive, PTL DEF Spec

(***************************************************************************)
(* Replaying the cycles of a vector is replaying the log.                  *)
(***************************************************************************)
\* Where access k is among the cycles.
Place(k) == IF k = 1 THEN 1 ELSE k + Lost(2)

LEMMA Places ==
  ASSUME test \in Tests, DataOK, Log(CodeFetches), icount = InitialIcount - Len(bus) - Lost(2)
  PROVE  /\ Len(bus) \in Nat /\ DOMAIN bus = 1..Len(bus)
         /\ Cycles \in Nat /\ DOMAIN CycleList = 1..Cycles /\ Len(CycleList) = Cycles
         /\ Place(Len(bus) + 1) = Cycles + 1
         /\ \A k \in 1..(Len(bus) + 1) : Place(k) \in Nat
         /\ \A k \in 1..Len(bus) : Place(k) \in 1..Cycles /\ CycleList[Place(k)] = CycleOf(bus[k])
         /\ \A j \in 1..Cycles : CycleList[j] = Idle \/ \E k \in 1..Len(bus) : j = Place(k)
         /\ \A i, k \in 1..(Len(bus) + 1) : i < k <=> Place(i) < Place(k)
<1> DEFINE n == Len(bus)  x == Lost(2)
           F(j) == IF j = 1 THEN CycleOf(bus[1])
                   ELSE IF x = 1 /\ j = 2 THEN Idle ELSE CycleOf(bus[j - x])
<1>1. /\ n \in Nat \ {0} /\ x \in {0, 1} /\ (x = 1 => n >= 2) /\ Cycles = n + x
      /\ CycleList = [j \in 1..Cycles |-> F(j)]
  BY CycleListIs
<1>2. DOMAIN bus = 1..n
  BY DEF DataOK
<1>3. \A k \in 1..(n + 1) : Place(k) = IF k = 1 THEN 1 ELSE k + x
  BY DEF Place
<1>4. PICK L : L = CycleList
  OBVIOUS
<1>5. Cycles \in Nat /\ DOMAIN L = 1..Cycles /\ Len(L) = Cycles /\ \A j \in 1..Cycles : L[j] = F(j)
  <2> HIDE DEF F, n, x
  <2>1. Cycles \in Nat
    BY <1>1
  <2> QED BY <1>1, <1>4, <2>1
<1>6. \A j \in 1..Cycles :
        L[j] = IF j = 1 THEN CycleOf(bus[1])
               ELSE IF x = 1 /\ j = 2 THEN Idle ELSE CycleOf(bus[j - x])
  BY <1>5
<1> HIDE DEF F, n, x
<1>7. ASSUME NEW k \in 1..n PROVE Place(k) \in 1..Cycles /\ L[Place(k)] = CycleOf(bus[k])
  <2>1. CASE k = 1
    BY <1>1, <1>3, <1>6, <2>1
  <2>2. CASE k # 1
    <3>1. Place(k) = k + x /\ k + x \in 1..Cycles /\ k + x # 1 /\ ~(x = 1 /\ k + x = 2)
          /\ k + x - x = k
      BY <1>1, <1>3, <2>2
    <3>2. PICK j : j = k + x
      OBVIOUS
    <3>3. j \in 1..Cycles /\ j # 1 /\ ~(x = 1 /\ j = 2)
      BY <3>1, <3>2
    <3>4. L[j] = CycleOf(bus[j - x])
      BY <1>6, <3>3
    <3>5. j - x = k
      BY <1>1, <3>2
    <3> QED BY <3>1, <3>2, <3>4, <3>5
  <2> QED BY <2>1, <2>2
<1>8. ASSUME NEW j \in 1..Cycles PROVE L[j] = Idle \/ \E k \in 1..n : j = Place(k)
  <2>1. CASE j = 1
    <3>1. 1 \in 1..n /\ Place(1) = 1
      BY <1>1, <1>3
    <3> QED BY <2>1, <3>1
  <2>2. CASE j # 1 /\ x = 1 /\ j = 2
    BY <1>6, <2>2
  <2>3. CASE j # 1 /\ ~(x = 1 /\ j = 2)
    <3>1. (j - x \in 1..n /\ j - x # 1 /\ j - x + x = j) \/ x = 0
      BY <1>1, <2>3
    <3>2. CASE x = 0
      <4>1. j \in 1..n /\ Place(j) = j
        BY <1>1, <1>3, <2>3, <3>2
      <4> QED BY <4>1
    <3>3. CASE x # 0
      <4>1. j - x \in 1..n /\ j - x \in 1..(n + 1) /\ j - x # 1 /\ j - x + x = j
        BY <1>1, <2>3, <3>1, <3>3
      <4>2. Place(j - x) = j
        BY <1>3, <4>1
      <4> QED BY <4>1, <4>2
    <3> QED BY <3>2, <3>3
  <2> QED BY <2>1, <2>2, <2>3
<1>9. \A k \in 1..(n + 1) : Place(k) \in Nat
  BY <1>1, <1>3
<1>10. \A i, k \in 1..(n + 1) : i < k <=> Place(i) < Place(k)
  <2> SUFFICES ASSUME NEW i \in 1..(n + 1), NEW k \in 1..(n + 1)
               PROVE  i < k <=> Place(i) < Place(k)
    OBVIOUS
  <2>1. i \in Int /\ k \in Int /\ i >= 1 /\ k >= 1
    BY <1>1
  <2> QED BY <1>1, <1>3, <2>1
<1>11. Place(n + 1) = Cycles + 1
  BY <1>1, <1>3
<1> QED BY <1>1, <1>2, <1>4, <1>5, <1>7, <1>8, <1>9, <1>10, <1>11 DEF n

LEMMA ReplayedIs ==
  ASSUME test \in Tests, DataOK, Log(CodeFetches), icount = InitialIcount - Len(bus) - Lost(2),
         NEW k \in 1..(Len(bus) + 1), NEW a, NEW u, NEW v, Holds(bus, k, a, u, v)
  PROVE  Replayed(CycleList, Place(k), a, u) = v
<1> DEFINE n == Len(bus)
<1>1. PICK c : c = CycleList
  OBVIOUS
<1> DEFINE S == {j \in 1..(Place(k) - 1) : c[j].status = "-wm-" /\ c[j].address = a}
<1>2. /\ n \in Nat /\ DOMAIN bus = 1..n /\ Cycles \in Nat /\ Place(n + 1) = Cycles + 1
      /\ \A i \in 1..(n + 1) : Place(i) \in Nat
      /\ \A i \in 1..n : Place(i) \in 1..Cycles /\ c[Place(i)] = CycleOf(bus[i])
      /\ \A j \in 1..Cycles : c[j] = Idle \/ \E i \in 1..n : j = Place(i)
      /\ \A i, l \in 1..(n + 1) : i < l <=> Place(i) < Place(l)
  BY <1>1, Places
<1>3. \A i \in 1..n : bus[i].write \in BOOLEAN
  <2>1. bus \in Seq(AccessType)
    BY DEF DataOK
  <2>2. \A i \in 1..n : bus[i] \in AccessType
    BY <2>1
  <2> QED BY <2>2 DEF AccessType
<1>4. \A i \in 1..n : /\ c[Place(i)].status = "-wm-" <=> bus[i].write
                      /\ c[Place(i)].address = bus[i].address /\ c[Place(i)].data = bus[i].data
  <2>1. ASSUME NEW b, b.write \in BOOLEAN
        PROVE  /\ CycleOf(b).status = "-wm-" <=> b.write
               /\ CycleOf(b).address = b.address /\ CycleOf(b).data = b.data
    BY <2>1 DEF CycleOf
  <2> QED BY <1>2, <1>3, <2>1
<1>5. Idle.status # "-wm-"
  BY DEF Idle
<1> HIDE DEF n
<1>6. ASSUME NEW i \in Nat, i < k, WritesTo(bus, i, a)
      PROVE  Place(i) \in S /\ c[Place(i)].data = bus[i].data
  <2>1. i \in 1..n /\ bus[i].write /\ bus[i].address = a
    BY <1>2, <1>6 DEF WritesTo
  <2>2. Place(i) < Place(k) /\ Place(i) \in 1..Cycles /\ Place(k) \in Nat
    <3>1. i \in 1..(n + 1) /\ k \in 1..(n + 1)
      BY <1>2, <2>1 DEF n
    <3> QED BY <1>2, <1>6, <2>1, <3>1
  <2>3. Place(i) \in 1..(Place(k) - 1)
    BY <2>2
  <2> QED BY <1>4, <2>1, <2>3
<1>7. ASSUME NEW j \in S PROVE \E i \in 1..n : i < k /\ j = Place(i) /\ WritesTo(bus, i, a)
  <2>1. k \in 1..(n + 1) /\ n + 1 \in 1..(n + 1) /\ k <= n + 1
    BY <1>2 DEF n
  <2>2. Place(k) <= Cycles + 1
    <3>1. ~(n + 1 < k)
      BY <1>2, <2>1
    <3>2. ~(Place(n + 1) < Place(k))
      BY <1>2, <2>1, <3>1
    <3> QED BY <1>2, <2>1, <3>2
  <2>3. j \in 1..Cycles /\ j < Place(k)
    BY <1>2, <2>1, <2>2
  <2>4. c[j].status = "-wm-" /\ c[j].address = a
    OBVIOUS
  <2>5. PICK i \in 1..n : j = Place(i)
    BY <1>2, <1>5, <2>3, <2>4
  <2>6. i < k
    BY <1>2, <2>1, <2>3, <2>5
  <2>7. WritesTo(bus, i, a)
    BY <1>2, <1>4, <2>4, <2>5 DEF WritesTo
  <2> QED BY <2>5, <2>6, <2>7
<1>8. Replayed(c, Place(k), a, u) = IF S = {} THEN u ELSE c[Max(S)].data
  BY DEF Replayed
<1>9. S \subseteq Nat
  OBVIOUS
<1> HIDE DEF S
<1>10. CASE v = u /\ \A i \in Nat : i < k => ~WritesTo(bus, i, a)
  <2>1. S = {}
    BY <1>2, <1>7, <1>10
  <2> QED BY <1>1, <1>8, <1>10, <2>1
<1>11. ASSUME NEW j \in Nat, j < k, WritesTo(bus, j, a), bus[j].data = v,
              \A i \in Nat : (j < i /\ i < k) => ~WritesTo(bus, i, a)
       PROVE  Replayed(c, Place(k), a, u) = v
  <2>1. Place(j) \in S /\ c[Place(j)].data = v
    BY <1>6, <1>11
  <2>2. \A s \in S : Place(j) >= s
    <3> SUFFICES ASSUME NEW s \in S PROVE Place(j) >= s
      OBVIOUS
    <3>1. PICK i \in 1..n : i < k /\ s = Place(i) /\ WritesTo(bus, i, a)
      BY <1>7
    <3>2. ~(j < i)
      BY <1>2, <1>11, <3>1
    <3>3. i \in 1..(n + 1) /\ j \in 1..(n + 1)
      BY <1>2, <1>11 DEF WritesTo
    <3>4. ~(Place(j) < Place(i))
      BY <1>2, <3>2, <3>3
    <3> QED BY <1>2, <3>1, <3>3, <3>4
  <2>3. Max(S) = Place(j)
    <3>1. Max(S) \in S /\ \A s \in S : Max(S) >= s
      BY <2>1, <2>2 DEF Max
    <3>2. Max(S) >= Place(j) /\ Place(j) >= Max(S) /\ Max(S) \in Nat /\ Place(j) \in Nat
      BY <1>9, <2>1, <2>2, <3>1
    <3> QED BY <3>2
  <2> QED BY <1>8, <2>1, <2>3
<1> QED BY <1>1, <1>10, <1>11 DEF Holds

(***************************************************************************)
(* A vector can be replayed from itself, also where the stack, the operand *)
(* or a vector lies over the code: the initial RAM and the writes of the   *)
(* cycle list give every read and the final RAM, and no other byte of the  *)
(* memory has changed.                                                     *)
(***************************************************************************)
THEOREM VectorsReplay == Spec => []VectorReplays
<1>1. ASSUME TInv, Replay, verdict = "ok" PROVE VectorReplays
  <2>1. IInv /\ TestInv /\ at = "idle" /\ stack = <<>> /\ calls # 0 /\ vector = Vector
    BY <1>1 DEF TInv, Ended
  <2>2. test \in Tests /\ DataOK /\ Log(CodeFetches) /\ icount = InitialIcount - Len(bus) - Lost(2)
    BY <2>1, AtTheEnd
  <2>3. PICK c : c = CycleList
    OBVIOUS
  <2>4. PICK n : n = Len(bus)
    OBVIOUS
  <2>5. /\ n \in Nat /\ DOMAIN bus = 1..n /\ DOMAIN c = 1..Cycles /\ Len(c) = Cycles
        /\ Cycles \in Nat /\ Place(n + 1) = Cycles + 1
        /\ \A k \in 1..n : c[Place(k)] = CycleOf(bus[k])
        /\ \A j \in 1..Cycles : c[j] = Idle \/ \E k \in 1..n : j = Place(k)
    BY <2>2, <2>3, <2>4, Places
  <2>6. /\ vector.cycles = c
        /\ vector.initialRam = [a \in Touched |-> Pristine(a)]
        /\ vector.finalRam = [a \in Touched |-> Peek(a)]
    BY <2>1, <2>3 DEF Vector
  <2>7. \A k \in 1..n : bus[k].address \in Touched /\ bus[k].address \in Word
                        /\ bus[k].write \in BOOLEAN
    <3>1. bus \in Seq(AccessType)
      BY <2>2 DEF DataOK
    <3>2. \A k \in 1..n : bus[k] \in AccessType
      BY <2>5, <3>1
    <3>3. \A k \in 1..n : bus[k].address \in Touched
      BY <2>5 DEF Touched
    <3> QED BY <3>2, <3>3 DEF AccessType
  <2>8. Touched \subseteq Word
    <3>1. \A i \in 0..(InstructionLength - 1) : StartPC(i) \in Word
      BY <2>2, PristineTyped
    <3> QED BY <2>5, <2>7, <3>1 DEF Touched
  <2>9. ASSUME NEW k \in 1..(n + 1), NEW a, NEW u, NEW v, Holds(bus, k, a, u, v)
        PROVE  Replayed(c, Place(k), a, u) = v
    <3>1. k \in 1..(Len(bus) + 1)
      BY <2>4
    <3> QED BY <2>2, <2>3, <2>9, <3>1, ReplayedIs
  <2>10. ASSUME NEW j \in DOMAIN c, c[j].status = "r-m-"
         PROVE  c[j].data = Replayed(c, j, c[j].address, vector.initialRam[c[j].address])
    <3>1. c[j] # Idle
      BY <2>10 DEF Idle
    <3>2. PICK k \in 1..n : j = Place(k)
      BY <2>5, <3>1
    <3>3. c[j] = CycleOf(bus[k])
      BY <2>5, <3>2
    <3>4. bus[k].write = FALSE
      BY <2>7, <2>10, <3>3 DEF CycleOf
    <3>5. PICK a : a = bus[k].address
      OBVIOUS
    <3>6. PICK d : d = bus[k].data
      OBVIOUS
    <3>7. c[j].address = a /\ c[j].data = d
      BY <3>3, <3>5, <3>6 DEF CycleOf
    <3>8. a \in Word /\ a \in Touched
      BY <2>7, <3>5
    <3>9. Holds(bus, k, a, Pristine(a), d)
      BY <1>1, <2>4, <3>4, <3>5, <3>6, <3>8 DEF Replay
    <3>10. k \in 1..(n + 1)
      BY <2>5
    <3>11. Replayed(c, Place(k), a, Pristine(a)) = d
      BY <2>9, <3>9, <3>10
    <3>12. vector.initialRam[a] = Pristine(a)
      BY <2>6, <3>8
    <3> QED BY <3>2, <3>7, <3>11, <3>12
  <2>11. \A a \in Word : Holds(bus, n + 1, a, Pristine(a), Peek(a))
    BY <1>1, <2>4 DEF Replay
  <2>12. ASSUME NEW a \in Touched
         PROVE  vector.finalRam[a] = Replayed(c, Len(c) + 1, a, vector.initialRam[a])
    <3>1. Holds(bus, n + 1, a, Pristine(a), Peek(a))
      BY <2>8, <2>11
    <3>2. n + 1 \in 1..(n + 1)
      BY <2>5
    <3>3. Replayed(c, Place(n + 1), a, Pristine(a)) = Peek(a)
      BY <2>9, <3>1, <3>2
    <3>4. vector.finalRam[a] = Peek(a) /\ vector.initialRam[a] = Pristine(a)
      BY <2>6
    <3> QED BY <2>5, <3>3, <3>4
  <2>13. ASSUME NEW a \in DOMAIN mem, Peek(a) # Pristine(a) PROVE a \in Touched
    <3>1. a \in Word
      BY <2>2 DEF DataOK, MemOK
    <3>2. PICK j \in Nat : WritesTo(bus, j, a)
      BY <2>11, <2>13, <3>1 DEF Holds
    <3>3. j \in 1..n /\ bus[j].address = a
      BY <2>5, <3>2 DEF WritesTo
    <3> QED BY <2>7, <3>3
  <2>14. DOMAIN vector.finalRam = Touched
    BY <2>6
  <2> QED BY <1>1, <2>6, <2>10, <2>12, <2>13, <2>14 DEF VectorReplays
<1>2. TInv /\ Replay => VectorReplays
  BY <1>1 DEF VectorReplays
<1> QED BY <1>2, TestsInductive, ReplayInductive, PTL
=============================================================================
