--------------------------- MODULE MCGeneratorRun ---------------------------
(* Three opcodes, three runs of two builds; build 2 fails a test that only *)
(* the larger count reaches.                                               *)
EXTENDS GeneratorRun, CommandLine

MCTable == <<"00", "10 21", "3f">>
MCNames == {"", "00", "10 21", "3f", "10 A3"}

CommandLines ==
  { <<<<"--count", 2>>>>,
    <<<<"--count", 1>>, <<"--verbose">>>>,
    <<<<"--opcode", "10 21">>, <<"--count", 1>>>>,
    <<<<"--count", 1>>, <<"--opcode", "3f">>, <<"--count", 2>>>>,
    <<<<"--opcode", "10 A3">>>>,
    <<<<"--opcode", "00">>, <<"--sanity">>, <<"--help">>>>,
    <<<<"--verbose">>, <<"--count">>>> }

MCInvocations == {Parse(arguments) : arguments \in CommandLines}
MCFailing == <<{}, {<<"10 21", 1>>}>>
=============================================================================
