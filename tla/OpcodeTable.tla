---------------------------- MODULE OpcodeTable ----------------------------
(***************************************************************************)
(* What the generator believes of every instruction: opcode_table.h, the   *)
(* MC6809 datasheet's addressing mode and cycle count by page prefix and   *)
(* opcode.  The generator cross-checks the core against it, so the table   *)
(* is written here from the header only, with no reference to how the core *)
(* dispatches.  A page is its prefix byte: \h00 (none), \h10 or \h11.      *)
(***************************************************************************)
EXTENDS M6809Data, FiniteSets

Pages == {\h00, \h10, \h11}

\* Mutant of Skipped: an opcode that free runs is not skipped.
SkippedButOne == {<<\h00, op>> : op \in {\h13, \h14, \h15, \h3C}}

\* SKIPPED_OPCODES: the instructions that never complete.
Skipped == {<<\h00, op>> : op \in {\h13, \h14, \h15, \h3C, \hCD}}

\* The keys of OPCODE_TABLE.
Listed ==
  ({\h00} \X (Byte \ {\h10, \h11}) \ Skipped)
    \cup ({\h10} \X ((\h20..\h2F) \cup {\h3E, \h3F, \h87, \h8F, \hC7, \hCF}
            \cup Quad(\h83) \cup Quad(\h8C) \cup Quad(\h8E) \cup Quad(\hC3)
            \cup Quad(\hCE) \cup (Quad(\h8F) \cup Quad(\hCF))))
    \cup ({\h11} \X ({\h3E, \h3F, \h87, \h8F, \hC7, \hCF}
            \cup Quad(\h83) \cup Quad(\h8C) \cup Quad(\hC3)))

Modes == {"INHERENT", "IMMEDIATE8", "IMMEDIATE16", "XST16_IMMEDIATE", "DIRECT",
          "INDEXED", "EXTENDED", "RELATIVE8", "RELATIVE16"}

\* The mode column of the table.
Mode(prefix, opcode) ==
  LET r == Row(opcode)  c == Col(opcode)
  IN  CASE r = 1 -> IF opcode \in {\h16, \h17} THEN "RELATIVE16"
                    ELSE IF opcode \in {\h1A, \h1C, \h1E, \h1F} THEN "IMMEDIATE8"
                    ELSE "INHERENT"
        [] r = 2 -> IF prefix = \h00 THEN "RELATIVE8" ELSE "RELATIVE16"
        [] r = 3 -> IF c <= 3 THEN "INDEXED"
                    ELSE IF c <= 8 THEN "IMMEDIATE8" ELSE "INHERENT"
        [] r \in {4, 5} -> "INHERENT"
        [] r \in {0, 9, 13} -> "DIRECT"
        [] r \in {6, 10, 14} -> "INDEXED"
        [] r \in {7, 11, 15} -> "EXTENDED"
        [] r \in {8, 12} -> IF opcode = \h8D THEN "RELATIVE8"
                            ELSE IF c = 15 THEN "XST16_IMMEDIATE"
                            ELSE IF c \in {3, 12, 14} THEN "IMMEDIATE16"
                            ELSE "IMMEDIATE8"

\* The undocumented instructions whose timing has no datasheet entry.
NoTiming ==
  ({\h00} \X ({\h18, \h38, \h3E, \h4E, \h5E, \h87, \h8F, \hC7, \hCF}
                \cup {16 * r + c : r \in {0, 4, 5, 6, 7}, c \in {2, 11}}))
    \cup ({\h10, \h11} \X ({\h3E, \h87, \h8F, \hC7, \hCF} \cup Quad(\hC3)))

\* The documented rows 0 to 7: read-modify-write, inherent and branches.
LowCycles(prefix, opcode) ==
  LET r == Row(opcode)  c == Col(opcode)
      row1 == [op \in \h10..\h1F |->
                 CASE op \in {\h12, \h19, \h1B, \h1D} -> 2
                   [] op \in {\h1A, \h1C} -> 3
                   [] op = \h16 -> 5
                   [] op = \h17 -> 9
                   [] op = \h1E -> 8
                   [] op = \h1F -> 6]
      row3 == <<4, 4, 4, 4, 5, 5, 5, 5, -1, 5, 3, 6, -1, 11, -1, 19>>
  IN  CASE r \in {0, 6} -> IF c = 14 THEN 3 ELSE 6
        [] r = 7 -> IF c = 14 THEN 4 ELSE 7
        [] r \in {4, 5} -> 2
        [] r = 1 -> row1[opcode]
        [] r = 2 -> IF prefix = \h00 THEN 3 ELSE IF opcode = \h20 THEN 6 ELSE 5
        [] r = 3 -> IF prefix = \h00 THEN row3[c + 1] ELSE 20

\* The documented rows 8 to F, immediate, direct, indexed and extended.
HighCycles(prefix, opcode) ==
  LET r == Row(opcode)  c == Col(opcode)
      quad == CASE prefix # \h00 /\ c \in {3, 12}  -> <<5, 7, 7, 8>>
                [] prefix # \h00 /\ c \in {14, 15} -> <<4, 6, 6, 7>>
                [] prefix = \h00 /\ (c = 3 \/ (c = 12 /\ r < 12)) -> <<4, 6, 6, 7>>
                [] prefix = \h00 /\ c = 13 /\ r < 12 -> <<7, 7, 7, 8>>
                [] prefix = \h00 /\ (c \in {14, 15} \/ (c \in {12, 13} /\ r >= 12))
                     -> <<3, 5, 5, 6>>
                [] prefix = \h00 /\ c \notin {3, 12, 13, 14, 15} -> <<2, 4, 4, 5>>
  IN  quad[1 + (r % 4)]

\* The documented_cycles column: the datasheet count, -1 where it has none.
DocumentedCycles(prefix, opcode) ==
  IF <<prefix, opcode>> \in NoTiming THEN -1
  ELSE IF Row(opcode) < 8 THEN LowCycles(prefix, opcode)
  ELSE HighCycles(prefix, opcode)

\* The special column: what the datasheet count still depends on.
Special(prefix, opcode) ==
  CASE prefix = \h10 /\ opcode \in \h21..\h2F -> "LONG_BRANCH"
    [] prefix = \h00 /\ opcode \in \h34..\h37 -> "PUSH_PULL"
    [] prefix = \h00 /\ opcode = \h3B -> "RTI"
    [] OTHER -> "NONE"

\* Bytes an indexed postbyte adds after itself.
IndexedOperandBytes(postbyte) ==
  IF ~Has(postbyte, \h80) THEN 0
  ELSE CASE Col(postbyte) \in {8, 12} -> 1
         [] Col(postbyte) \in {9, 13, 15} -> 2
         [] OTHER -> 0

\* The datasheet penalty of an indexed postbyte, -1 where it has none.
IndexedExtraCycles(postbyte) ==
  LET direct   == <<2, 3, 2, 3, 0, 1, 1, -1, 1, 4, -1, 4, 1, 5, -1, -1>>
      indirect == <<-1, 6, -1, 6, 3, 4, 4, -1, 4, 7, -1, 7, 4, 8, -1, 5>>
  IN  IF ~Has(postbyte, \h80) THEN 1
      ELSE IF Has(postbyte, \h10) THEN indirect[Col(postbyte) + 1]
      ELSE direct[Col(postbyte) + 1]

\* Operand bytes after the opcode.
OperandLength(mode, postbyte) ==
  CASE mode = "INHERENT" -> 0
    [] mode \in {"IMMEDIATE8", "DIRECT", "RELATIVE8"} -> 1
    [] mode \in {"IMMEDIATE16", "XST16_IMMEDIATE", "EXTENDED", "RELATIVE16"} -> 2
    [] mode = "INDEXED" -> 1 + IndexedOperandBytes(postbyte)

\* The branch condition that the low digit of an opcode names, from the CC byte.
BranchCondition(opcode, ccbyte) ==
  LET carry == Has(ccbyte, 1)  overflow == Has(ccbyte, 2)
      zero  == Has(ccbyte, 4)  negative == Has(ccbyte, 8)
      d == Col(opcode)
  IN  CASE d = 0 -> TRUE
        [] d = 1 -> FALSE
        [] d = 2 -> ~(carry \/ zero)
        [] d = 3 -> carry \/ zero
        [] d = 4 -> ~carry
        [] d = 5 -> carry
        [] d = 6 -> ~zero
        [] d = 7 -> zero
        [] d = 8 -> ~overflow
        [] d = 9 -> overflow
        [] d = 10 -> ~negative
        [] d = 11 -> negative
        [] d = 12 -> negative = overflow
        [] d = 13 -> negative # overflow
        [] d = 14 -> negative = overflow /\ ~zero
        [] d = 15 -> ~(negative = overflow /\ ~zero)

\* Bytes that a PSH/PUL mask transfers.
PushPullBytes(mask) ==
  Cardinality({m \in {1, 2, 4, 8} : Has(mask, m)})
    + 2 * Cardinality({m \in {16, 32, 64, 128} : Has(mask, m)})

(***************************************************************************)
(* expected_cycles: the datasheet's count for an instruction in a state,   *)
(* -1 when it has none.  operand is the byte after the opcode, as a        *)
(* postbyte or as a register mask; cc and stackedCC are CC bytes, before   *)
(* the instruction and where RTI will pull it from.                        *)
(***************************************************************************)
ExpectedCycles(prefix, opcode, operand, cc, stackedCC) ==
  LET base == DocumentedCycles(prefix, opcode)
      extra == IF Mode(prefix, opcode) = "INDEXED"
               THEN IndexedExtraCycles(operand) ELSE 0
      special == Special(prefix, opcode)
  IN  IF base = -1 \/ extra = -1 THEN -1
      ELSE CASE special = "NONE" -> base + extra
             [] special = "LONG_BRANCH" ->
                  base + extra + (IF BranchCondition(opcode, cc) THEN 1 ELSE 0)
             [] special = "PUSH_PULL" -> base + extra + PushPullBytes(operand)
             [] special = "RTI" -> IF Has(stackedCC, \h80) THEN 15 ELSE 6
=============================================================================
