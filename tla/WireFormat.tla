----------------------------- MODULE WireFormat -----------------------------
(***************************************************************************)
(* tools/convert: the on-chain format written from and read back into      *)
(* arkworks types (wire.rs, arkworks.rs).                                  *)
(*                                                                         *)
(* A field element takes two cells, big-endian in base Radix, as 32 bytes  *)
(* do on chain; an element of Fq2 is [c0, c1].  A point is <<>>, the       *)
(* identity, or <<x, y>>.  A group g is "G1" or "G2".  The curves are      *)
(* external: the points on them and in their prime-order subgroups are     *)
(* constants.  A conversion returns Done(value) or Fail(error).  An        *)
(* operator named mutant_... is a faulty variant of the definition that    *)
(* follows it.                                                             *)
(***************************************************************************)
EXTENDS Layout

CONSTANTS
    Radix,              \* values of a cell: 256 on chain
    Q_MODULUS,          \* of the base field
    R_MODULUS,          \* of the scalar field
    OnCurve(_),         \* for "G1" and "G2", the affine points of the curve ...
    InSubgroup(_)       \* ... and those of its prime-order subgroup

FQ_SIZE == 2
FR_SIZE == 2
G2_SIZE == 4 * FQ_SIZE

Group == {"G1", "G2"}
PointSize(g) == IF g = "G1" THEN G1_SIZE ELSE G2_SIZE

PROOF_A_OFFSET == 0
PROOF_B_OFFSET == PROOF_A_OFFSET + G1_SIZE
PROOF_C_OFFSET == PROOF_B_OFFSET + G2_SIZE
PROOF_SIZE == PROOF_C_OFFSET + G1_SIZE

Fq == 0..Q_MODULUS - 1
Fq2 == [c0 : Fq, c1 : Fq]
Field(g) == IF g = "G1" THEN Fq ELSE Fq2
Identity == <<>>
Point(g) == {Identity} \cup InSubgroup(g)

neg_fq(x) == (Q_MODULUS - x) % Q_MODULUS
neg_y(g, y) ==
    IF g = "G1" THEN neg_fq(y) ELSE [c0 |-> neg_fq(y.c0), c1 |-> neg_fq(y.c1)]
neg(g, p) == IF p = Identity THEN p ELSE <<p[1], neg_y(g, p[2])>>

ASSUME WireAssumption ==
    /\ Radix \in Nat /\ Radix > 0 /\ Radix % 4 = 0
    /\ Q_MODULUS \in Nat \ {0} /\ R_MODULUS \in Nat \ {0}
    /\ Q_MODULUS % 2 = 1               \* an odd prime
    /\ 4 * Q_MODULUS <= Radix * Radix   \* the top two bits of an Fq are clear
    /\ R_MODULUS <= Radix * Radix
    /\ G1_SIZE = 2 * FQ_SIZE
    /\ VK_FIXED_SIZE = G1_SIZE + 3 * G2_SIZE
    /\ \A g \in Group :
         /\ InSubgroup(g) \subseteq OnCurve(g)
         /\ OnCurve(g) \subseteq Field(g) \X Field(g)
         /\ \A p \in OnCurve(g) : neg(g, p) \in OnCurve(g)
         /\ \A p, q \in OnCurve(g) : p[1] = q[1] => q \in {p, neg(g, p)}
         /\ \A p \in InSubgroup(g) : neg(g, p) \in InSubgroup(g)
         /\ \A p \in InSubgroup(g) : neg(g, p) # p     \* the order is odd

-----------------------------------------------------------------------------
Done(value) == [outcome |-> Ok, value |-> value]
Fail(error) == [outcome |-> error, value |-> <<>>]

(* r?, and on with its value. *)
Then(r, F(_)) == IF r.outcome = Ok THEN F(r.value) ELSE r

AllZero(bytes) == \A k \in DOMAIN bytes : bytes[k] = 0
Slice(bytes, offset, size) == SubSeq(bytes, offset + 1, offset + size)

-----------------------------------------------------------------------------
(* Encoding. *)
fq_to_bytes(x) == <<x \div Radix, x % Radix>>
fr_to_bytes(s) == <<s \div Radix, s % Radix>>

fq2_to_bytes(x) == fq_to_bytes(x.c1) \o fq_to_bytes(x.c0)

FieldBytes(g, x) == IF g = "G1" THEN fq_to_bytes(x) ELSE fq2_to_bytes(x)

(* g1_to_bytes and g2_to_bytes. *)
to_bytes(g, p) ==
    IF p = Identity THEN [k \in 1..PointSize(g) |-> 0]
    ELSE FieldBytes(g, p[1]) \o FieldBytes(g, p[2])

g1_to_bytes(p) == to_bytes("G1", p)
g2_to_bytes(p) == to_bytes("G2", p)

-----------------------------------------------------------------------------
(* Decoding: reduce, encode again, compare. *)
mutant_fq_from_bytes_reduces(bytes) ==
    Done((bytes[1] * Radix + bytes[2]) % Q_MODULUS)

fq_from_bytes(bytes) ==
    LET x == (bytes[1] * Radix + bytes[2]) % Q_MODULUS IN
    IF fq_to_bytes(x) # bytes THEN Fail("NonCanonicalField") ELSE Done(x)

fr_from_bytes(bytes) ==
    LET s == (bytes[1] * Radix + bytes[2]) % R_MODULUS IN
    IF fr_to_bytes(s) # bytes THEN Fail("NonCanonicalField") ELSE Done(s)

fq2_from_bytes(bytes) ==
    LET c1 == fq_from_bytes(Slice(bytes, 0, FQ_SIZE))
        c0 == fq_from_bytes(Slice(bytes, FQ_SIZE, FQ_SIZE))
    IN  IF c1.outcome = Ok /\ c0.outcome = Ok
        THEN Done([c0 |-> c0.value, c1 |-> c1.value])
        ELSE Fail("NonCanonicalField")

FieldFrom(g, bytes) ==
    IF g = "G1" THEN fq_from_bytes(bytes) ELSE fq2_from_bytes(bytes)

checked_affine(g, p) ==
    IF p = Identity \/ (p \in OnCurve(g) /\ p \in InSubgroup(g))
    THEN Done(p) ELSE Fail("InvalidPoint")

(* g1_from_bytes and g2_from_bytes. *)
from_bytes(g, bytes) ==
    LET half == PointSize(g) \div 2
        x == FieldFrom(g, Slice(bytes, 0, half))
        y == FieldFrom(g, Slice(bytes, half, half))
    IN  IF AllZero(bytes) THEN Done(Identity)
        ELSE IF x.outcome # Ok THEN x
        ELSE IF y.outcome # Ok THEN y
        ELSE checked_affine(g, <<x.value, y.value>>)

g1_from_bytes(bytes) == from_bytes("G1", bytes)
g2_from_bytes(bytes) == from_bytes("G2", bytes)

-----------------------------------------------------------------------------
(* A verifying key vk = [alpha, beta, gamma, delta, ic] and its body: beta, *)
(* gamma and delta are negated, ic is IC[0], ..., IC[n].                    *)
IcBytes(ic) ==
    [k \in 1..G1_SIZE * Len(ic) |->
        g1_to_bytes(ic[(k - 1) \div G1_SIZE + 1])[((k - 1) % G1_SIZE) + 1]]

mutant_OnChainKey_new_keeps_delta(vk) ==
    IF Len(vk.ic) = 0 THEN Fail("Unsupported")
    ELSE IF Len(vk.ic) - 1 > MAX_PUBLIC_INPUTS THEN Fail("TooManyPublicInputs")
    ELSE Done(g1_to_bytes(vk.alpha) \o g2_to_bytes(neg("G2", vk.beta))
              \o g2_to_bytes(neg("G2", vk.gamma)) \o g2_to_bytes(vk.delta)
              \o IcBytes(vk.ic))

OnChainKey_new(vk) ==
    IF Len(vk.ic) = 0 THEN Fail("Unsupported")      \* no IC[0]
    ELSE IF Len(vk.ic) - 1 > MAX_PUBLIC_INPUTS THEN Fail("TooManyPublicInputs")
    ELSE Done(g1_to_bytes(vk.alpha) \o g2_to_bytes(neg("G2", vk.beta))
              \o g2_to_bytes(neg("G2", vk.gamma))
              \o g2_to_bytes(neg("G2", vk.delta)) \o IcBytes(vk.ic))

decode_body(body) ==
    LET At1(offset) == g1_from_bytes(Slice(body, offset, G1_SIZE))
        At2(offset) == g2_from_bytes(Slice(body, offset, G2_SIZE))
        Negated(r) == Then(r, LAMBDA p : Done(neg("G2", p)))
        fixed == <<At1(0), Negated(At2(G1_SIZE)), Negated(At2(G1_SIZE + G2_SIZE)),
                   Negated(At2(G1_SIZE + 2 * G2_SIZE))>>
        ic == [i \in 1..InferredInputs(body) + 1 |->
                 At1(VK_FIXED_SIZE + (i - 1) * G1_SIZE)]
        read == fixed \o ic
        Failed(k) == read[k].outcome # Ok
    IN  IF from_body(body) # Ok THEN Fail("Unsupported")
        ELSE IF \E k \in DOMAIN read : Failed(k)
        THEN read[CHOOSE k \in DOMAIN read :
                    Failed(k) /\ \A j \in 1..k - 1 : ~Failed(j)]
        ELSE Done([alpha |-> fixed[1].value, beta |-> fixed[2].value,
                   gamma |-> fixed[3].value, delta |-> fixed[4].value,
                   ic |-> [i \in DOMAIN ic |-> ic[i].value]])

(* OnChainKey::from_body and elements. *)
OnChainKey_from_body(body) == Then(decode_body(body), OnChainKey_new)
OnChainKey_elements(body) == decode_body(body)

(* A proof [a, b, c], and back (arkworks.rs: proof, proof_from_on_chain). *)
OnChainProof_new(proof) ==
    g1_to_bytes(proof.a) \o g2_to_bytes(proof.b) \o g1_to_bytes(proof.c)

OnChainProof_elements(bytes) ==
    LET a == g1_from_bytes(Slice(bytes, PROOF_A_OFFSET, G1_SIZE))
        b == g2_from_bytes(Slice(bytes, PROOF_B_OFFSET, G2_SIZE))
        c == g1_from_bytes(Slice(bytes, PROOF_C_OFFSET, G1_SIZE))
    IN  IF a.outcome # Ok THEN a
        ELSE IF b.outcome # Ok THEN b
        ELSE IF c.outcome # Ok THEN c
        ELSE Done([a |-> a.value, b |-> b.value, c |-> c.value])
=============================================================================
