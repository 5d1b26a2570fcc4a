------------------------------- MODULE Curve -------------------------------
(***************************************************************************)
(* The alt_bn128 syscalls as syscall.rs wraps them, and scalar.rs.         *)
(*                                                                         *)
(* A block of bytes (a scalar, a point of G1 or G2) is one number, the one *)
(* it encodes big-endian.  G1 and G2 hold the encodings that the runtime's *)
(* curve and subgroup checks accept; the identity of both is all zeros.    *)
(* The groups are external: a constant each, with the laws that the        *)
(* shortcuts of the verifier rely on.  An operator named mutant_... is a   *)
(* faulty variant of the definition that follows it.                       *)
(***************************************************************************)
EXTENDS Integers, Sequences, Outcome

CONSTANTS
    Block,              \* blocks of bytes
    G1, G2,             \* encodings of points
    FR_MODULUS,
    Plus(_, _),         \* addition in G1
    Times(_, _),        \* scalar multiplication in G1
    ProductIsOne(_)     \* pairing product of <<p1, q1, p2, q2, ...>>

ASSUME CurveAssumption ==
    /\ Block \subseteq Nat
    /\ G1 \subseteq Block /\ G2 \subseteq Block
    /\ 0 \in G1 /\ 0 \in G2
    /\ FR_MODULUS \in Nat \ {0}
    /\ \A p, q \in G1 : Plus(p, q) \in G1
    /\ \A p \in G1 : Plus(p, 0) = p
    /\ \A s \in Block, p \in G1 : Times(s, p) \in G1
    /\ \A p \in G1 : Times(0, p) = 0 /\ Times(1, p) = p
    /\ \A s \in Block : Times(s, 0) = 0

-----------------------------------------------------------------------------
(* scalar.rs *)
is_canonical(s) == s < FR_MODULUS
is_zero(block) == block = 0
mutant_is_one_never(s) == FALSE
is_one(s) == s = 1

-----------------------------------------------------------------------------
(* group_op: the syscall fails exactly when an operand does not decode. *)
group_op(decodes) == Ensure(decodes, "InvalidPoint")

mutant_g1_add_no_identity(a, b) == group_op({a, b} \subseteq G1 \ {0})
g1_add(a, b) == group_op(a \in G1 /\ b \in G1)
g1_mul(p, s) == group_op(p \in G1)

(* The points of a pairing input, G1 and G2 in turn. *)
Decodes(input) ==
    \A j \in 1..Len(input) : input[j] \in (IF j % 2 = 1 THEN G1 ELSE G2)

pairing_validate_points(input) == group_op(Decodes(input))
=============================================================================
