--------------------------- MODULE MCAluPrograms ---------------------------
(***************************************************************************)
(* The programs on words at the boundaries of both bytes and of the sign,  *)
(* on packed decimal numbers whose digits carry, and the comparison of     *)
(* every byte with the bytes of those words.                               *)
(***************************************************************************)
EXTENDS AluPrograms

Words == {\h0000, \h0001, \h007F, \h0080, \h00FF, \h0100, \h017F, \h0181, \h3FFF, \h7EFF,
          \h7F80, \h7FFF, \h8000, \h8001, \h80FF, \hBFFF, \hC000, \hFE01, \hFF00, \hFFFF}

Decimals == {\h0000, \h0001, \h0009, \h0010, \h0099, \h0108, \h0890, \h0999, \h1234,
             \h4999, \h5000, \h5001, \h8765, \h9090, \h9800, \h9999}

P(kinds, xs, ys) == [kind : kinds, x : xs, y : ys, cc : {{}, Flags}]

MCPrograms ==
  P({"add", "sub", "cmp16"}, Words, Words)
    \cup P({"neg", "asl", "lsr", "asr"}, Words, {0})
    \cup P({"bcd"}, Decimals, Decimals)
    \cup P({"cmp8"}, Byte, {\h00, \h01, \h3C, \h7F, \h80, \h81, \hFF})
=============================================================================
