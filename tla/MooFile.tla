------------------------------- MODULE MooFile -------------------------------
(***************************************************************************)
(* The MOO files: generate_test appends the chunks of a test, and          *)
(* write_moo_file those of a file, to buffers of bytes.  A file is read    *)
(* back by the layout that the README gives, and may have been cut off by  *)
(* a write that failed (see GeneratorRun).  The compression is left out: a *)
(* gzip file that is cut yields, if anything, the first bytes of the file. *)
(***************************************************************************)
EXTENDS Naturals, Sequences, SequencesExt

CONSTANTS
  Tests,     \* what tests may record
  MaxTests   \* bound: the largest --count

Bytes == 0..255

\* The order of the registers in the REGS chunk, and those of 8 bits.
RegisterOrder == <<"pc", "s", "u", "x", "y", "dp", "a", "b", "cc">>
ByteRegisters == {"dp", "a", "b", "cc"}
RegisterNames == {RegisterOrder[i] : i \in 1..9}

ASSUME FileAssumption ==
  /\ MaxTests \in Nat
  /\ \A t \in Tests :
       /\ DOMAIN t = {"name", "bytes", "initial", "initial_ram", "final", "final_ram", "cycles"}
       /\ {t.initial, t.final} \subseteq [RegisterNames -> 0..65535]
       /\ t.name \in Seq(Bytes) /\ t.bytes \in Seq(Bytes)

VARIABLES tests, file
vars == <<tests, file>>

-----------------------------------------------------------------------------
(***************************************************************************)
(* chunk_buffer: what its operations append.  Tags are ASCII.              *)
(***************************************************************************)
MOO  == <<77, 79, 79, 32>>
TEST == <<84, 69, 83, 84>>
NAME == <<78, 65, 77, 69>>
BYTS == <<66, 89, 84, 83>>
INIT == <<73, 78, 73, 84>>
FINA == <<70, 73, 78, 65>>
REGS == <<82, 69, 71, 83>>
RAM  == <<82, 65, 77, 32>>
CYCL == <<67, 89, 67, 76>>
PORT == <<80, 79, 82, 84>>
CpuName == <<54, 56, 48, 57>>
StatusText == [read |-> <<114, 45, 109, 45>>, write |-> <<45, 119, 109, 45>>,
               internal |-> <<45, 45, 45, 45>>]

put_u8(v)  == <<v % 256>>
put_u16(v) == <<v % 256, (v \div 256) % 256>>
put_u32(v) == <<v % 256, (v \div 256) % 256, (v \div 65536) % 256, (v \div 16777216) % 256>>

put_chunk(tag, payload) == tag \o put_u32(Len(payload)) \o payload

write_regs_chunk(registers) ==
  LET word(name) == put_u16(registers[name])
  IN  put_chunk(REGS, put_u16(\h01FF) \o FlattenSeq([i \in 1..9 |-> word(RegisterOrder[i])]))

write_ram_chunk(entries) ==
  LET entry(e) == put_u32(e[1]) \o put_u8(e[2])
  IN  put_chunk(RAM, put_u32(Len(entries))
                       \o FlattenSeq([i \in DOMAIN entries |-> entry(entries[i])]))

\* Mutant of write_cycles_chunk: the status is four bytes of a string of five.
write_cycles_chunkTerminated(cycles) ==
  LET cycle(c) == put_u8(c.pins) \o put_u16(c.address) \o put_u8(c.data)
                    \o StatusText[c.status] \o <<0>>
  IN  put_chunk(CYCL, put_u32(Len(cycles))
                        \o FlattenSeq([i \in DOMAIN cycles |-> cycle(cycles[i])]))
write_cycles_chunk(cycles) ==
  LET cycle(c) == put_u8(c.pins) \o put_u16(c.address) \o put_u8(c.data) \o StatusText[c.status]
  IN  put_chunk(CYCL, put_u32(Len(cycles))
                        \o FlattenSeq([i \in DOMAIN cycles |-> cycle(cycles[i])]))

\* The end of generate_test.
test_chunk(index, t) ==
  put_u32(index)
    \o put_chunk(NAME, put_u32(Len(t.name)) \o t.name)
    \o put_chunk(BYTS, put_u32(Len(t.bytes)) \o t.bytes)
    \o put_chunk(INIT, write_regs_chunk(t.initial) \o write_ram_chunk(t.initial_ram))
    \o put_chunk(FINA, write_regs_chunk(t.final) \o write_ram_chunk(t.final_ram))
    \o write_cycles_chunk(t.cycles)
    \o put_chunk(PORT, put_u32(0))

FileHeader(test_count) ==
  put_chunk(MOO, put_u8(1) \o put_u8(1) \o put_u8(0) \o put_u8(0)
                   \o put_u32(test_count) \o CpuName)

\* Mutant of write_moo_file: the count is that of the largest index.
write_moo_fileShort(chunks) ==
  FileHeader(IF chunks = <<>> THEN 0 ELSE Len(chunks) - 1)
    \o FlattenSeq([i \in DOMAIN chunks |-> put_chunk(TEST, chunks[i])])
write_moo_file(chunks) ==
  FileHeader(Len(chunks))
    \o FlattenSeq([i \in DOMAIN chunks |-> put_chunk(TEST, chunks[i])])

-----------------------------------------------------------------------------
Init == tests = <<>> /\ file = <<>>

\* One turn of the loop over test_index.
GenerateTest ==
  /\ file = <<>> /\ Len(tests) < MaxTests
  /\ \E t \in Tests : tests' = Append(tests, t)
  /\ UNCHANGED file

Written == write_moo_file([i \in 1..Len(tests) |-> test_chunk(i - 1, tests[i])])
WriteFile == file = <<>> /\ file' = Written /\ UNCHANGED tests

\* A write that failed, a kill or a gzclose that failed: the rest is lost.
Truncate ==
  /\ file # <<>> /\ file = Written
  /\ \E k \in 1..(Len(file) - 1) : file' = SubSeq(file, 1, k)
  /\ UNCHANGED tests

Next == GenerateTest \/ WriteFile \/ Truncate
Spec == Init /\ [][Next]_vars

-----------------------------------------------------------------------------
(***************************************************************************)
(* A reader of the layout.  What is read is a set: of the one thing that   *)
(* the bytes say, or empty if they are malformed.                          *)
(***************************************************************************)
U16(b, p) == b[p] + 256 * b[p + 1]
U32(b, p) == b[p] + 256 * b[p + 1] + 65536 * b[p + 2] + 16777216 * b[p + 3]
From(b, p) == SubSeq(b, p, Len(b))

\* The chunks that bytes consist of.
ChunksOf(b) ==
  LET at[p \in 1..(Len(b) + 1)] ==
        IF p = Len(b) + 1 THEN {<<>>}
        ELSE IF p + 7 > Len(b) \/ p + 7 + U32(b, p + 4) > Len(b) THEN {}
        ELSE LET next == p + 8 + U32(b, p + 4)
             IN  {<<[tag |-> SubSeq(b, p, p + 3), data |-> SubSeq(b, p + 8, next - 1)]>> \o rest
                    : rest \in at[next]}
  IN  at[1]

\* The records of size bytes behind a count.
Counted(b, size, item(_, _)) ==
  IF Len(b) < 4 \/ Len(b) # 4 + size * U32(b, 1) THEN {}
  ELSE {[i \in 1..U32(b, 1) |-> item(b, 5 + size * (i - 1))]}

RegistersIn(b) ==
  IF Len(b) # 20 \/ U16(b, 1) # \h01FF THEN {}
  ELSE {[n \in RegisterNames |->
           U16(b, 1 + 2 * (CHOOSE i \in 1..9 : RegisterOrder[i] = n))]}

StateIn(b) ==
  LET entry(d, p) == <<U32(d, p), d[p + 4]>>
  IN  UNION {IF Len(c) = 2 /\ c[1].tag = REGS /\ c[2].tag = RAM
             THEN RegistersIn(c[1].data) \X Counted(c[2].data, 5, entry) ELSE {}
               : c \in ChunksOf(b)}

TestIn(b, index) ==
  LET byte(d, p)  == d[p]
      cycle(d, p) == [pins |-> d[p], address |-> U16(d, p + 1), data |-> d[p + 3],
                      status |-> CHOOSE s \in DOMAIN StatusText :
                                   StatusText[s] = SubSeq(d, p + 4, p + 7)]
      tags(c) == [i \in 1..Len(c) |-> c[i].tag]
  IN  IF Len(b) < 4 \/ U32(b, 1) # index THEN {}
      ELSE UNION {
        IF tags(c) # <<NAME, BYTS, INIT, FINA, CYCL, PORT>> THEN {}
        ELSE {[name |-> name, bytes |-> bytes, initial |-> first[1], initial_ram |-> first[2],
               final |-> last[1], final_ram |-> last[2], cycles |-> cycles] :
                name \in Counted(c[1].data, 1, byte), bytes \in Counted(c[2].data, 1, byte),
                first \in StateIn(c[3].data), last \in StateIn(c[4].data),
                cycles \in Counted(c[5].data, 8, cycle)}
          : c \in ChunksOf(From(b, 5))}

\* A file: as many tests as its header says, in the order of their indexes.
Read(b) ==
  UNION {
    IF c = <<>> \/ c[1].tag # MOO \/ Len(c[1].data) # 12 THEN {}
    ELSE IF U32(c[1].data, 5) # Len(c) - 1 \/ \E i \in 2..Len(c) : c[i].tag # TEST THEN {}
    ELSE LET upto[i \in 0..(Len(c) - 1)] ==
               IF i = 0 THEN {<<>>}
               ELSE {Append(ts, t) : ts \in upto[i - 1], t \in TestIn(c[i + 1].data, i - 1)}
         IN  upto[Len(c) - 1]
    : c \in ChunksOf(b)}

(***************************************************************************)
(* What is read from a file that was written is what the tests recorded,   *)
(* register by register and cycle by cycle, and nothing else.              *)
(***************************************************************************)
RoundTrip == file = Written => Read(file) = {tests}

(***************************************************************************)
(* A file that was cut anywhere, between two tests too, is not taken for a *)
(* file with fewer tests: its header counts them.                          *)
(***************************************************************************)
CutIsNoticed == file # <<>> /\ file # Written => Read(file) = {}
=============================================================================
