-------------------------- MODULE MCKeyValidation --------------------------
(***************************************************************************)
(* KeyValidation over every body of up to four inputs whose points are the *)
(* identity, a point, or a block that does not decode.                     *)
(***************************************************************************)
EXTENDS KeyValidation

Order == 2
MCBlock == 0..Order
MCG1 == 0..Order - 1
MCPlus(p, q) == (p + q) % Order
MCTimes(s, p) == (s * p) % Order
MCProductIsOne(input) == input[1] = 0
MCBody(k) == [1..vk_body_len(k) -> MCBlock]

=============================================================================
