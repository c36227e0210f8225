---------------------------- MODULE DecodeSweep ----------------------------
(***************************************************************************)
(* The coverage of the opcode table: every page and opcode, listed or not, *)
(* is given to the core as run_sanity_case() gives it a few, with the loop *)
(* of generate_test() around execute_one().                                *)
(***************************************************************************)
EXTENDS M6809Interrupts, OpcodeTable

VARIABLES
  page, code,   \* the prefix and the opcode in memory at PC
  calls         \* calls of execute_one() so far

sweepVars == <<page, code, calls>>
vars == <<coreVars, sweepVars>>

MaxCalls == 64
StartPC == \h1000

SweepInit ==
  /\ page \in Pages /\ code \in Byte /\ calls = 0
  /\ reg = [pc |-> StartPC, s |-> \h8000, u |-> 0, x |-> 0, y |-> 0,
            dp |-> 0, a |-> 0, b |-> 0]
  /\ cc = {} /\ lds = FALSE /\ line = {} /\ bus = <<>> /\ icount = InitialIcount
  /\ mem = IF page = \h00 THEN [a \in {StartPC} |-> code]
           ELSE [a \in {StartPC, StartPC + 1} |-> IF a = StartPC THEN page ELSE code]
  /\ ea = 0 /\ mode = "imm" /\ regop = "none" /\ temp = 0 /\ cond = FALSE
  /\ freeRun = FALSE /\ at = "idle" /\ stack = <<>>

Execute ==
  /\ calls <= MaxCalls
  /\ calls = 0 \/ stack # <<>>
  /\ ExecuteOne
  /\ calls' = calls + 1
  /\ UNCHANGED <<page, code>>

Step ==
  /\ Instruction \/ SYNC \/ SYNC_WAIT \/ CWAI \/ CWAI_WAIT
  /\ UNCHANGED sweepVars

\* run_sanity_checks(): the cycles of six instructions.
SanityCycles ==
  [t \in {<<\h00, \h12>>, <<\h00, \h86>>, <<\h00, \h3F>>, <<\h00, \hFC>>,
          <<\h10, \h3F>>, <<\h00, \h3D>>} |->
     CASE t[2] = \h12 -> 2 [] t[2] = \h86 -> 2 [] t[2] = \hFC -> 6 [] t[2] = \h3D -> 11
       [] t = <<\h00, \h3F>> -> 19 [] t = <<\h10, \h3F>> -> 20]

Next == Execute \/ Step
Spec == SweepInit /\ [][Next]_vars

-----------------------------------------------------------------------------
Returned   == at = "idle" /\ calls > 0
Completed  == Returned /\ stack = <<>> /\ ~freeRun
GivenUp    == Returned /\ calls > MaxCalls
FreeRuns   == Returned /\ freeRun

OpcodeFetches == {k \in DOMAIN bus : bus[k].role = "opcode"}

(***************************************************************************)
(* The table lists exactly the instructions of the core: a page and opcode *)
(* is listed if the core executes it as an instruction of its own, and not *)
(* if it fetches a further opcode, free runs or waits.  main() counts the  *)
(* entries but cannot know whether the table is complete.                  *)
(***************************************************************************)
TableIsComplete ==
  /\ Completed =>
       (<<page, code>> \in Listed
          <=> Cardinality(OpcodeFetches) = (IF page = \h00 THEN 1 ELSE 2))
  /\ GivenUp \/ FreeRuns => <<page, code>> \notin Listed

(***************************************************************************)
(* The reasons that SKIPPED_OPCODES gives: SYNC and CWAI are still waiting *)
(* when the generator would give up, FREERUN returns in free run mode, and *)
(* no instruction that is not skipped does either.                         *)
(***************************************************************************)
SkippedForTheirReasons ==
  /\ GivenUp  => <<page, code>> \in Skipped /\ code \in {\h13, \h3C}
  /\ FreeRuns => <<page, code>> \in Skipped /\ code \in {\h14, \h15, \hCD}
  /\ Completed => <<page, code>> \notin Skipped

(***************************************************************************)
(* The sanity cases pass, and the three places that give the cycles of an  *)
(* instruction agree: the bus of the core, the list of the sanity cases    *)
(* and the datasheet table that generate_test compares with.               *)
(***************************************************************************)
SanityCasesPass ==
  Completed /\ <<page, code>> \in DOMAIN SanityCycles =>
    /\ InitialIcount - icount = SanityCycles[<<page, code>>]
    /\ SanityCycles[<<page, code>>] = ExpectedCycles(page, code, Peek(StartPC + 1), 0, 0)
=============================================================================
