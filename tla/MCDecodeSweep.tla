--------------------------- MODULE MCDecodeSweep ---------------------------
(***************************************************************************)
(* All 3 * 256 page and opcode pairs.  Memory is filled with NOP, so that  *)
(* an opcode that is dispatched again ends in an instruction of its own.   *)
(***************************************************************************)
EXTENDS DecodeSweep

MCBackground(a) == \h12
=============================================================================
