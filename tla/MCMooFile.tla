----------------------------- MODULE MCMooFile -----------------------------
(* Up to two tests: bytes in both halves of words, RAM and cycle lists of  *)
(* none to two entries, every status.                                      *)
EXTENDS MooFile

MCRegisters(first) ==
  [n \in RegisterNames |->
     LET i == CHOOSE k \in 1..9 : RegisterOrder[k] = n
     IN  IF n \in ByteRegisters THEN first + i ELSE 256 * (first + i) + 255 - i]

Load ==
  [name |-> <<65, 54>>, bytes |-> <<\hA6, \h84>>,
   initial |-> MCRegisters(1), initial_ram |-> <<<<4, \hA6>>, <<65535, 0>>>>,
   final |-> MCRegisters(129), final_ram |-> <<<<4, \hA6>>, <<65535, 0>>>>,
   cycles |-> <<[pins |-> 3, address |-> 4, data |-> \hA6, status |-> "read"],
                [pins |-> 3, address |-> 65535, data |-> 0, status |-> "read"]>>]

Store ==
  [Load EXCEPT !.initial_ram = <<<<256, 7>>>>, !.final_ram = <<<<256, 255>>>>,
               !.cycles = <<[pins |-> 3, address |-> 256, data |-> 255, status |-> "write"],
                            [pins |-> 0, address |-> 0, data |-> 0, status |-> "internal"]>>]

Nothing == [Load EXCEPT !.name = <<>>, !.bytes = <<>>, !.cycles = <<>>,
                        !.initial_ram = <<>>, !.final_ram = <<>>]

MCTests == {Load, Store, Nothing}
=============================================================================
