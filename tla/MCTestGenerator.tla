-------------------------- MODULE MCTestGenerator --------------------------
(***************************************************************************)
(* The tests of the runs of TestGenerator: every entry of the opcode table *)
(* on three machine states, and for the instructions whose timing or       *)
(* effect depends on a byte of data all values of that byte.               *)
(***************************************************************************)
EXTENDS TestGenerator

\* A memory in which neighbouring bytes, and the two halves of a word, differ.
MCBackground(a) == (7 * a + 5 * (a \div 256) + 3) % 256

\* An ordinary state; one at the ends of the address space, where PC and the
\* stacks wrap; and one whose stacks and index registers point into the code.
Plain == [pc |-> \h1000, s |-> \h8000, u |-> \h9000, x |-> \h2000, y |-> \h3000,
          dp |-> \h40, a |-> \h12, b |-> \h87]
Edge  == [pc |-> \hFFFE, s |-> \h0001, u |-> \hFFFF, x |-> \hFFFF, y |-> \h0000,
          dp |-> \hFF, a |-> \hFF, b |-> \h80]
Alias == [pc |-> \h1000, s |-> \h1004, u |-> \h1002, x |-> \h1000, y |-> \h0FFF,
          dp |-> \h10, a |-> \h00, b |-> \h01]

NoRam == [a \in {} |-> 0]

T(e, r, f, ram) == [prefix |-> e[1], opcode |-> e[2], reg |-> r, cc |-> f, ram |-> ram]

\* The same, with the byte behind the opcode.
WithByte(e, r, f, byte) ==
  T(e, r, f, [a \in {ToWord(r["pc"] + (IF e[1] = 0 THEN 1 ELSE 2))} |-> byte])

EveryEntry == {T(e, r, f, NoRam) : e \in Listed, r \in {Plain, Edge, Alias},
                                   f \in {{}, {"C", "H"}, Flags}}

Branches == {T(e, Plain, f, NoRam) : e \in {\h00, \h10} \X (\h20..\h2F), f \in SUBSET NZVC}

IndexedModes == (\h80..\h9F) \cup {\h00, \h1F, \h30, \h4F, \hC9, \hFD}
Indexed ==
  {WithByte(e, r, {}, p) : e \in {x \in Listed : Mode(x[1], x[2]) = "INDEXED"},
                           r \in {Plain}, p \in IndexedModes}
    \cup {WithByte(<<\h00, op>>, Alias, {}, p) : op \in {\h30, \hED}, p \in Byte}

RegisterMasks == {WithByte(<<\h00, op>>, r, {"Z"}, m) : op \in {\h34, \h35, \h36, \h37},
                                                     r \in {Edge, Alias}, m \in Byte}

Transfers == {WithByte(<<\h00, op>>, Plain, {"N"}, p) : op \in {\h1E, \h1F}, p \in Byte}

Returns == {T(<<\h00, \h3B>>, r, {}, [a \in {r["s"]} |-> v]) :
              r \in {Plain, Edge}, v \in {\h00, \h7F, \h80, \hFF}}

MCTests == EveryEntry \cup Branches \cup Indexed \cup RegisterMasks \cup Transfers \cup Returns

\* A sample of every kind for the temporal run.
SampleTests ==
  {T(e, Edge, Flags, NoRam) : e \in Listed} \cup {t \in RegisterMasks : t.opcode = \h35}
=============================================================================
