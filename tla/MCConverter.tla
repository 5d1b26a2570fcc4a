---------------------------- MODULE MCConverter ----------------------------
(***************************************************************************)
(* Curves of the shape of BN254 over the field of 11 elements: y^2 = x^3   *)
(* + 3, and y^2 = x^3 + b over Fq2 = Fq[i], i^2 = -1.  Values 11..15 are   *)
(* not canonical.  Points outside the subgroup exist on both curves.       *)
(***************************************************************************)
EXTENDS GnarkFiles

Mul(x, y) == [c0 |-> (x.c0 * y.c0 + 10 * x.c1 * y.c1) % 11,
              c1 |-> (x.c0 * y.c1 + x.c1 * y.c0) % 11]
Cubic(x) == LET c == Mul(x, Mul(x, x)) IN [c0 |-> (c.c0 + 3) % 11, c1 |-> (c.c1 + 1) % 11]

Curve1 == {p \in Fq \X Fq : (p[2] * p[2]) % 11 = (p[1] * p[1] * p[1] + 3) % 11}
Curve2 == UNION {{<<x, y>> : y \in {y \in Fq2 : Mul(y, y) = Cubic(x)}} : x \in Fq2}
Subgroup1 == {p \in Curve1 : p[2] # 0}
Subgroup2 == {p \in Curve2 : p[2] # [c0 |-> 0, c1 |-> 0] /\ p[1].c0 # 4}

MCOnCurve(g) == IF g = "G1" THEN Curve1 ELSE Curve2
MCInSubgroup(g) == IF g = "G1" THEN Subgroup1 ELSE Subgroup2

(* Sample points: both roots, a y with c1 = 0 or with c0 = 0, and an x in whose
   first cell the bit below the flag is set (U1, U2). *)
E2(c0, c1) == [c0 |-> c0, c1 |-> c1]
P1 == <<7, 4>>
U1 == <<8, 3>>
P2 == <<E2(1, 4), E2(3, 8)>>
S2 == <<E2(2, 6), E2(2, 0)>>
T2 == <<E2(8, 3), E2(0, 3)>>
U2 == <<E2(6, 8), E2(5, 10)>>
Sample1 == {Identity, P1, neg("G1", P1), U1}
Sample2 == {Identity, P2, neg("G2", P2), S2, neg("G2", S2), T2, neg("G2", T2), U2}
Sample(g) == IF g = "G1" THEN Sample1 ELSE Sample2
Plain(g) == IF g = "G1" THEN P1 ELSE P2

(* One point at a time takes every sample; the others are plain. *)
PlainPoints(types) == [k \in DOMAIN types |-> Plain(types[k])]
PointsOf(types) ==
    UNION {{[PlainPoints(types) EXCEPT ![k] = p] : p \in Sample(types[k])} :
             k \in DOMAIN types}

Lists(S, n) == UNION {[1..k -> S] : k \in 0..n}

Artifacts ==
         {KeyArtifact(points, <<P1>>, 0) : points \in PointsOf(KeyPoints)}
    \cup {KeyArtifact(PlainPoints(KeyPoints), ic, 0) : ic \in Lists(Sample1, 3)}
    \cup {KeyArtifact(PlainPoints(KeyPoints), <<P1>>, 1)}
    \cup {ProofArtifact(points, 0) : points \in PointsOf(ProofPoints)}
    \cup {ProofArtifact(PlainPoints(ProofPoints), 1)}
    \cup {WitnessArtifact(scalars, secrets) :
            scalars \in Lists({0, 9, R_MODULUS - 1}, 2), secrets \in 0..1}

PlainKey == KeyArtifact(PlainPoints(KeyPoints), <<P1>>, 0)
OtherKey ==
    KeyArtifact([PlainPoints(KeyPoints) EXCEPT ![1] = Identity, ![3] = S2],
                <<P1, Identity>>, 0)
Plains == {PlainKey, OtherKey, ProofArtifact(PlainPoints(ProofPoints), 0),
           WitnessArtifact(<<9>>, 0)}

(* All raw, all compressed, and alternating; every mixture for PlainKey. *)
Forms(a) ==
    LET all == DOMAIN TokensOf(a) IN
    IF a = PlainKey THEN SUBSET (all \ 7..10)
    ELSE {{}, all, {k \in all : k % 2 = 0}, {k \in all : k % 2 = 1}}

WholeFiles(S, forms(_)) ==
    UNION {{Whole(a, raw) : raw \in forms(a)} : a \in S}

Few(a) == {{}, DOMAIN TokensOf(a), {k \in DOMAIN TokensOf(a) : k % 2 = 0}}

MCFile ==
    LET damaged == WholeFiles(Plains, Few)
                       \cup {BodyFile(PlainKey), BodyFile(OtherKey)} IN
         WholeFiles(Artifacts, Forms)
    \cup {BodyFile(a) : a \in {a \in Artifacts : a.kind = "key" /\ Convertible(a)}}
    \cup UNION {Cuts(f) \cup Tails(f) \cup Changes(f) \cup Lifts(f) : f \in damaged}
=============================================================================
