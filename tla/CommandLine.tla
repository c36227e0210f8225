----------------------------- MODULE CommandLine -----------------------------
(***************************************************************************)
(* The options of m6809_testgen.  A command line is a sequence of          *)
(* arguments, each with the value behind it if it has one: <<"--verbose">>,*)
(* <<"--count", 2>>.  --out is left out: every run has the same directory. *)
(***************************************************************************)
EXTENDS Sequences, SequencesExt

Defaults == [kind |-> "run", filter |-> "", count |-> 1000]

\* One turn of the loop: the first argument that is not understood, or
\* --sanity, decides; otherwise the last value of an option counts.
Take(options, argument) ==
  LET name == argument[1]  hasValue == Len(argument) = 2
  IN  CASE options.kind # "run"               -> options
        [] name = "--count" /\ hasValue       -> [options EXCEPT !.count = argument[2]]
        [] name = "--opcode" /\ hasValue      -> [options EXCEPT !.filter = argument[2]]
        [] name = "--verbose" /\ ~hasValue    -> options
        [] name = "--sanity" /\ ~hasValue     -> [options EXCEPT !.kind = "sanity"]
        [] OTHER                              -> [options EXCEPT !.kind = "usage"]

Parse(arguments) == FoldLeft(Take, Defaults, arguments)
=============================================================================
