----------------------------- MODULE MCTestSeeds -----------------------------
(* Tests of each page, with the registers that v1/00.moo.gz, v1/10 a3.moo.gz *)
(* and v1/11 3f.moo.gz record.  Seeds are compared for indexes with each bit *)
(* alone and with all bits up to each one, to the largest index that does    *)
(* not reach into the opcode: an exclusive or keeps or loses bits one by one.*)
EXTENDS TestSeeds

MCIndexes == {2^k : k \in 0..23} \cup {2^k - 1 : k \in 0..24} \cup {500, 999}

MCRecorded ==
  [t \in {<<<<\h00, \h00>>, 0>>, <<<<\h10, \hA3>>, 999>>, <<<<\h11, \h3F>>, 500>>} |->
     CASE t[1] = <<\h00, \h00>> -> <<4079, 52971, 56508, 18119, 55763, 204, 3, 1, 172>>
       [] t[1] = <<\h10, \hA3>> -> <<56143, 55218, 40686, 1676, 20374, 15, 181, 1, 17>>
       [] t[1] = <<\h11, \h3F>> -> <<17518, 44195, 38862, 23248, 29803, 18, 66, 0, 93>>]

MCStarted == DOMAIN MCRecorded \cup {<<<<\h00, \hFF>>, 2^24 - 1>>}
=============================================================================
