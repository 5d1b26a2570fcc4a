---------------------------- MODULE VerifyingKey ----------------------------
(***************************************************************************)
(* The views that verifying_key.rs gives of a key body, one cell per       *)
(* point: alpha, -beta, -gamma, -delta, IC[0], ..., IC[n].                 *)
(***************************************************************************)
EXTENDS Layout, Curve

ASSUME VerifyingKeyAssumption == VK_FIXED_SIZE = 4 /\ G1_SIZE = 1

VK_ALPHA_OFFSET == 0
VK_NEG_BETA_OFFSET == 1
VK_NEG_GAMMA_OFFSET == 2
VK_NEG_DELTA_OFFSET == 3
VK_IC_OFFSET == 4

alpha(body) == At(body, VK_ALPHA_OFFSET)
neg_beta(body) == At(body, VK_NEG_BETA_OFFSET)
neg_gamma(body) == At(body, VK_NEG_GAMMA_OFFSET)
neg_delta(body) == At(body, VK_NEG_DELTA_OFFSET)
ic(body, i) == At(body, VK_IC_OFFSET + i * G1_SIZE)

(* A body of blocks with the length that n asks for. *)
IsBody(body, n) ==
    /\ n \in 0..MAX_PUBLIC_INPUTS
    /\ body \in Seq(Block)
    /\ from_body_with_len(body, n) = Ok

-----------------------------------------------------------------------------
(* What validation is for: every point decodes and the verification        *)
(* equation does not degenerate.                                           *)
NoIdentity(body) ==
    0 \notin {alpha(body), neg_beta(body), neg_gamma(body), neg_delta(body)}

PointsDecode(body, n) ==
    /\ alpha(body) \in G1
    /\ {neg_beta(body), neg_gamma(body), neg_delta(body)} \subseteq G2
    /\ \A i \in 0..n : ic(body, i) \in G1

WellFormedKey(body, n) == NoIdentity(body) /\ PointsDecode(body, n)
=============================================================================
