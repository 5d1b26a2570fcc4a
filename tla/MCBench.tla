------------------------------ MODULE MCBench ------------------------------
(***************************************************************************)
(* Bench over groups of order 3, points named by their discrete logarithm  *)
(* as in MCVerifier.  The last block is no point and no canonical scalar,  *)
(* and bodies are not validated.                                           *)
(***************************************************************************)
EXTENDS Bench, FiniteSetsExt

MCBlock == 0..3
MCG1 == 0..2
MCPlus(p, q) == (p + q) % 3
MCTimes(s, p) == (s * p) % 3
MCProductIsOne(input) ==
    MapThenSumSet(LAMBDA j : input[2 * j - 1] * input[2 * j], 1..4) % 3 = 0

Blocks(m) == [1..m -> MCBlock]
MCWorkload ==
    UNION {[body : {<<1, 2, 1, 1>> \o table : table \in Blocks(n + 1)},
            proof : {<<1, 1, 1>>, <<1, 0, 3>>},
            inputs : Blocks(n) \cup {[j \in 1..n + 1 |-> 1]},
            l : MCBlock] : n \in 0..MAX_PUBLIC_INPUTS}
=============================================================================
