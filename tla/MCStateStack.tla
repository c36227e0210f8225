---------------------------- MODULE MCStateStack ----------------------------
(***************************************************************************)
(* The state stack with the listings of the core, and budgets of up to two *)
(* "@" lines, so that a label is suspended behind any of its lines, once   *)
(* or several times.                                                       *)
(***************************************************************************)
EXTENDS M6809Listing, StateStack
=============================================================================
