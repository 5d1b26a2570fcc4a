----------------------------- MODULE MCVerifier -----------------------------
(***************************************************************************)
(* Verifier over groups of prime order, each point named by its discrete   *)
(* logarithm: e(p, q) is p * q, and a product is one when the sum is zero. *)
(* The last block is no point and no canonical scalar.                     *)
(***************************************************************************)
EXTENDS Verifier, FiniteSetsExt

CONSTANT Order

MCBlock == 0..Order
MCG1 == 0..Order - 1
MCPlus(p, q) == (p + q) % Order
MCTimes(s, p) == (s * p) % Order
MCProductIsOne(input) ==
    MapThenSumSet(LAMBDA j : input[2 * j - 1] * input[2 * j], 1..4) % Order = 0

(* alpha and -delta are 1; -beta, -gamma and the IC points vary. *)
MCBody(m) ==
    {<<1, b, g, 1>> \o table :
        b \in MCBlock, g \in MCBlock, table \in [1..m + 1 -> MCBlock]}

Scalars(m) == [1..m -> MCBlock]
MCPayload ==
    [proof : {1, Order} \X MCBlock \X {0, 1, Order},
     inputs : UNION {Scalars(m) : m \in 0..MAX_PUBLIC_INPUTS}]

-----------------------------------------------------------------------------
(* The verdict, from the closed form of the equation: what verify returns is
   decided by the count, then the canonicity of the scalars, then the points of
   the proof, then the equation over L = IC[0] + sum of a[i] * IC[i]. *)
L == (ic(body, 0) + MapThenSumSet(LAMBDA j : inputs[j] * ic(body, j), 1..n)) % Order

Verdict ==
    IF Len(inputs) # n THEN "PublicInputCountMismatch"
    ELSE IF \E j \in 1..n : inputs[j] >= Order THEN "NonCanonicalScalar"
    ELSE IF Order \in {proof[1], proof[2], proof[3]} THEN "InvalidPoint"
    ELSE IF (proof[1] * proof[2] + alpha(body) * neg_beta(body)
               + L * neg_gamma(body) + proof[3] * neg_delta(body)) % Order = 0
         THEN Ok ELSE "ProofInvalid"

VerdictCorrect == pc = "done" => outcome = Verdict
=============================================================================
