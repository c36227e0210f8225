------------------------------ MODULE TestSeeds ------------------------------
(***************************************************************************)
(* The random numbers of the tests: the seed of a test, and the splitmix64 *)
(* generator that generate_test draws memory and registers from.  A number *)
(* of 64 bits is a sequence of 8 bytes, the lowest first.                  *)
(***************************************************************************)
EXTENDS OpcodeTable, Sequences

CONSTANTS
  Started,   \* the tests that are generated: pairs <<opcode key, test_index>>
  Indexes,   \* the test indexes that seeds are compared for
  Recorded   \* initial registers of some tests in the vectors of v1/

ASSUME SeedAssumption ==
  /\ Indexes \subseteq Nat /\ Started \subseteq Listed \X Indexes
  /\ DOMAIN Recorded \subseteq Started

VARIABLES
  test,       \* the test under way: its opcode and its index
  state,      \* splitmix64::state
  draws,      \* how many numbers have been drawn
  registers   \* pc, s, u, x, y, dp, a, b, cc as far as they are drawn

vars == <<test, state, draws, registers>>

-----------------------------------------------------------------------------
Xor64(x, y) == [i \in 1..8 |-> ByteXor(x[i], y[i])]

\* A sum of columns, each with the carry of the columns below it.
Carried(column) ==
  LET carry[i \in 1..9] == IF i = 1 THEN 0 ELSE (column[i - 1] + carry[i - 1]) \div 256
  IN  [i \in 1..8 |-> (column[i] + carry[i]) % 256]

Add64(x, y) == Carried([i \in 1..8 |-> x[i] + y[i]])

Mul64(x, y) ==
  LET products[k \in 1..8, i \in 0..8] ==
        IF i = 0 THEN 0
        ELSE products[k, i - 1] + (IF i <= k THEN x[i] * y[k + 1 - i] ELSE 0)
  IN  Carried([k \in 1..8 |-> products[k, 8]])

\* x >> n for n not a multiple of 8.
ShiftRight(x, n) ==
  LET byte(i) == IF i <= 8 THEN x[i] ELSE 0
      q == n \div 8  r == n % 8
  IN  [i \in 1..8 |-> (byte(i + q) \div 2^r + byte(i + q + 1) * 2^(8 - r)) % 256]

Complement(x) == [i \in 1..8 |-> 255 - x[i]]
Minus64(x, y) == Add64(Add64(x, Complement(y)), <<1, 0, 0, 0, 0, 0, 0, 0>>)

Gamma == <<\h15, \h7C, \h4A, \h7F, \hB9, \h79, \h37, \h9E>>

\* Mutants of Advanced: a counter; the sum is 32 bits wide.
AdvancedByOne(s) == Add64(s, <<1, 0, 0, 0, 0, 0, 0, 0>>)
AdvancedNarrow(s) == [i \in 1..8 |-> IF i <= 4 THEN Add64(s, Gamma)[i] ELSE s[i]]
\* splitmix64::next(): what it does to the state, and what it returns.
Advanced(s) == Add64(s, Gamma)
Mixed(s) ==
  LET z1 == Mul64(Xor64(s, ShiftRight(s, 30)),
                  <<\hB9, \hE5, \hE4, \h1C, \h6D, \h47, \h58, \hBF>>)
      z2 == Mul64(Xor64(z1, ShiftRight(z1, 27)),
                  <<\hEB, \h11, \h31, \h13, \hBB, \h49, \hD0, \h94>>)
  IN  Xor64(z2, ShiftRight(z2, 31))

Number64(n) == <<n % 256, (n \div 2^8) % 256, (n \div 2^16) % 256, n \div 2^24, 0, 0, 0, 0>>

\* Mutant of test_seed: the key is shifted by 8 bits less than the index needs.
test_seedOverlapping(key, test_index) ==
  Xor64(Xor64(<<\hED, \h5E, \h1E, \hA1, \h09, \h68, 0, 0>>,
              <<0, key[2], key[1], 0, 0, 0, 0, 0>>), Number64(test_index))

\* 0x6809A11E5EED ^ (((prefix << 8) | opcode) << 24) ^ test_index.
test_seed(key, test_index) ==
  Xor64(Xor64(<<\hED, \h5E, \h1E, \hA1, \h09, \h68, 0, 0>>,
              <<0, 0, 0, key[2], key[1], 0, 0, 0>>), Number64(test_index))

-----------------------------------------------------------------------------
\* The draws of a test: 8192 for the memory, one for each register.
Memory == 65536 \div 8
Draws == Memory + 9

Begin(t) == state = test_seed(t[1], t[2]) /\ draws = 0 /\ registers = <<>>
Init == test \in Started /\ Begin(test)

\* rng.next() in generate_test: a register takes 16 bits of it, or 8.
Draw ==
  /\ draws < Draws
  /\ state' = Advanced(state) /\ draws' = draws + 1
  /\ registers' =
       LET z == Mixed(state')
       IN  IF draws < Memory THEN registers
           ELSE Append(registers, IF draws < Memory + 5 THEN Pair(z[2], z[1]) ELSE z[1])
  /\ UNCHANGED test

Next == Draw
Spec == Init /\ [][Next]_vars
-----------------------------------------------------------------------------
Tests == Listed \X Indexes
Seeds == {test_seed(t[1], t[2]) : t \in Tests}

(***************************************************************************)
(* No two tests have the same seed, whatever their opcodes and indexes.    *)
(***************************************************************************)
SeedsDistinct == draws = 0 => Cardinality(Seeds) = Cardinality(Tests)

(***************************************************************************)
(* No test starts in the middle of the numbers of another one: what a test *)
(* draws is far from its own seed (2^40 and more), and the seeds of all    *)
(* tests are closer to each other than that.                               *)
(***************************************************************************)
High(x) == <<x[6], x[7], x[8]>>
HighOfSeeds == {High(seed) : seed \in Seeds}
StreamsApart ==
  /\ HighOfSeeds = {High(test_seed(test[1], test[2]))}
  /\ draws > 0 =>
       High(Minus64(state, test_seed(test[1], test[2])))
         \notin {<<0, 0, 0>>, <<255, 255, 255>>}

(***************************************************************************)
(* The vectors of v1/ can be reproduced: a test draws the initial registers*)
(* that its file records (README, "Reproducibility").                      *)
(***************************************************************************)
ReproducesVectors ==
  draws = Draws /\ test \in DOMAIN Recorded => registers = Recorded[test]
=============================================================================
