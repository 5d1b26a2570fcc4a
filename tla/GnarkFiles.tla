----------------------------- MODULE GnarkFiles -----------------------------
(***************************************************************************)
(* The files that the converter is given: what gnark writes (external, as  *)
(* the tests of gnark.rs mirror it), whole or damaged on the way.          *)
(*                                                                         *)
(* An artifact is what gnark holds in memory: the points of a key or proof *)
(* in the order it writes them, the IC points, the public scalars, and the *)
(* number of commitments or secret inputs.  A file is a sequence of tokens *)
(* <<type, value>>; every point may be raw or compressed.                  *)
(***************************************************************************)
EXTENDS Converter, SequencesExt

KeyArtifact(points, ic, commitments) ==
    [kind |-> "key", points |-> points, ic |-> ic, commitments |-> commitments]
ProofArtifact(points, commitments) ==
    [kind |-> "proof", points |-> points, commitments |-> commitments]
WitnessArtifact(scalars, secrets) ==
    [kind |-> "witness", scalars |-> scalars, secrets |-> secrets]

Tokens(type, values) == [k \in DOMAIN values |-> <<type, values[k]>>]

Typed(types, values) == [k \in DOMAIN types |-> <<types[k], values[k]>>]

KeyTokens(points, ic, counts_) ==
    Typed(KeyPoints, points) \o <<<<"u32", Head(counts_)>>>> \o Tokens("G1", ic)
        \o Tokens("u32", Tail(counts_))

ProofTokens(points, n, pok) ==
    Typed(ProofPoints, points) \o <<<<"u32", n>>, <<"G1", pok>>>>

WitnessTokens(counts_, scalars) == Tokens("u32", counts_) \o Tokens("Fr", scalars)

(* A key with commitments lists, for each, the one input it commits to;    *)
(* what follows the number of keys is of no interest to the parser.        *)
TokensOf(a) ==
    CASE a.kind = "key" ->
             KeyTokens(a.points, a.ic,
                       <<Len(a.ic), a.commitments>> \o [k \in 1..2 * a.commitments |-> 1]
                           \o <<a.commitments>>)
      [] a.kind = "proof" -> ProofTokens(a.points, a.commitments, Identity)
      [] a.kind = "witness" ->
             WitnessTokens(<<Len(a.scalars), a.secrets, Len(a.scalars) + a.secrets>>,
                           a.scalars)

-----------------------------------------------------------------------------
(* gnark_compress_g1 and gnark_compress_g2: the flag tells y from -y. *)
IsLargest(g, y) ==
    LET half == (Q_MODULUS - 1) \div 2 IN
    IF g = "G1" THEN y > half
    ELSE IF y.c1 = 0 THEN y.c0 > half ELSE y.c1 > half

WithFlag(flag, bytes) == [bytes EXCEPT ![1] = @ + flag * (Radix \div 4)]

gnark_compress(g, p) ==
    IF p = Identity
    THEN WithFlag(FLAG_COMPRESSED_INFINITY, [k \in 1..PointSize(g) \div 2 |-> 0])
    ELSE WithFlag(IF IsLargest(g, p[2]) THEN FLAG_COMPRESSED_LARGEST
                  ELSE FLAG_COMPRESSED_SMALLEST, FieldBytes(g, p[1]))

WriteToken(token, raw) ==
    CASE token[1] = "u32" -> <<token[2]>>
      [] token[1] = "Fr" -> fr_to_bytes(token[2])
      [] token[1] \in Group /\ raw -> to_bytes(token[1], token[2])
      [] token[1] \in Group /\ ~raw -> gnark_compress(token[1], token[2])

(* WriteTo, WriteRawTo and every mixture: raw holds the tokens left raw. *)
Write(tokens, raw) ==
    FlattenSeq([k \in DOMAIN tokens |-> WriteToken(tokens[k], k \in raw)])

-----------------------------------------------------------------------------
(* What can happen to a file.  It remembers where it comes from: the       *)
(* artifact, the tokens left raw and the damage.                           *)
Whole(a, raw) ==
    [kind |-> a.kind, bytes |-> Write(TokensOf(a), raw), artifact |-> a, raw |-> raw,
     damage |-> "none"]
Cuts(f) ==
    {[f EXCEPT !.bytes = SubSeq(@, 1, k), !.damage = "cut"] : k \in 0..Len(f.bytes) - 1}

(* One cell follows, or the encoding of a point of the curve. *)
Tails(f) ==
    {[f EXCEPT !.bytes = @ \o more, !.damage = "tail"] :
        more \in {<<cell>> : cell \in 0..Radix - 1}
                  \cup {to_bytes("G1", p) : p \in {Identity} \cup OnCurve("G1")}}

Changes(f) ==
    {[f EXCEPT !.bytes[k] = cell, !.damage = "change"] :
        k \in DOMAIN f.bytes, cell \in 0..Radix - 1}

(* Another spelling of a field element: the modulus added to two cells. *)
Lifts(f) ==
    {LET v == f.bytes[k] * Radix + f.bytes[k + 1] + Q_MODULUS IN
     [f EXCEPT !.bytes = [@ EXCEPT ![k] = (v \div Radix) % Radix, ![k + 1] = v % Radix],
               !.damage = "change"] : k \in 1..Len(f.bytes) - 1}

(* The body that an artifact becomes on chain, as a file of its own. *)
KeyOf(a) ==
    [alpha |-> a.points[1], beta |-> a.points[3], gamma |-> a.points[4],
     delta |-> a.points[6], ic |-> a.ic]
ProofOf(a) == [a |-> a.points[1], b |-> a.points[2], c |-> a.points[3]]

BodyOf(a) == OnChainKey_new(KeyOf(a)).value

BodyFile(a) ==
    [kind |-> "body", bytes |-> BodyOf(a), artifact |-> a, raw |-> {},
     damage |-> "none"]

(* What gnark can hold: points of the subgroups, reduced scalars, and counts *)
(* that fit a u32.                                                           *)
PointsOfTypes(points, types) ==
    /\ points = [k \in DOMAIN types |-> points[k]]
    /\ \A k \in DOMAIN types : points[k] \in Point(types[k])

IsArtifact(a) ==
    /\ a.kind \in {"key", "proof", "witness"}
    /\ a.kind = "key" => /\ PointsOfTypes(a.points, KeyPoints)
                         /\ a.ic \in Seq(Point("G1"))
                         /\ {Len(a.ic), a.commitments} \subseteq 0..Radix - 1
    /\ a.kind = "proof" => /\ PointsOfTypes(a.points, ProofPoints)
                           /\ a.commitments \in 0..Radix - 1
    /\ a.kind = "witness" => /\ a.scalars \in Seq(0..R_MODULUS - 1)
                             /\ a.secrets \in Nat
                             /\ Len(a.scalars) + a.secrets \in 0..Radix - 1

Undamaged(f) == IF f.kind = "body" THEN BodyOf(f.artifact)
                ELSE Write(TokensOf(f.artifact), f.raw)

(* A file is what its artifact and its damage say. *)
ASSUME HistoryAssumption ==
    \A f \in File :
        /\ IsArtifact(f.artifact)
        /\ f.kind \in {f.artifact.kind, "body"}
        /\ f.kind = "body" => f.artifact.kind = "key"
        /\ f.damage = "none" => f.bytes = Undamaged(f)
        /\ f.damage = "cut" =>
             \E k \in 0..Len(Undamaged(f)) - 1 : f.bytes = SubSeq(Undamaged(f), 1, k)
        /\ f.damage = "tail" => IsStrictPrefix(Undamaged(f), f.bytes)

-----------------------------------------------------------------------------
done == pc = "done"

(* What the on-chain format can express: no commitments, no secret inputs, and
   between one and MAX_PUBLIC_INPUTS + 1 IC points. *)
Convertible(a) ==
    CASE a.kind = "key" ->
             a.commitments = 0 /\ Len(a.ic) \in 1..MAX_PUBLIC_INPUTS + 1
      [] a.kind = "proof" -> a.commitments = 0
      [] a.kind = "witness" -> a.secrets = 0

(* Conversion is faithful: whatever mixture of raw and compressed points gnark
   wrote, the converted bytes decode to exactly the points or scalars that gnark
   held, for both roots of y, for c1 = 0 (where the root is chosen by c0) and
   for the identity, with the negations undone.  So one key has one body and
   one address.  What the format cannot express is refused. *)
Expected(a) ==
    CASE a.kind = "key" -> OnChainKey_elements(result.value) = Done(KeyOf(a))
      [] a.kind = "proof" -> OnChainProof_elements(result.value) = Done(ProofOf(a))
      [] a.kind = "witness" -> result.value = a.scalars

ConvertsFaithfully ==
    done /\ file.damage = "none" /\ file.kind # "body" =>
        IF Convertible(file.artifact)
        THEN result.outcome = Ok /\ Expected(file.artifact)
        ELSE result.outcome \in {"Unsupported", "TooManyPublicInputs"}

(* The keys with the same points whose bodies begin the body of this key, and
   those whose bodies go on where it ends. *)
FirstInputs(key, n) == [key EXCEPT !.ic = SubSeq(@, 1, n)]
MoreInputs(key, points) == [key EXCEPT !.ic = @ \o points]

Shorter(key) == {FirstInputs(key, n) : n \in 1..Len(key.ic) - 1}
Longer(key) ==
    {MoreInputs(key, points) :
        points \in UNION {[1..n -> Point("G1")] :
                            n \in 1..MAX_PUBLIC_INPUTS + 1 - Len(key.ic)}}

(* The file is the body of one of these keys. *)
BodyAmong(keys) == \E key \in keys : OnChainKey_new(key) = Done(file.bytes)

(* No proper prefix of a gnark file converts and nothing may follow one: cut
   anywhere, inside a point or between two counts, it ends in UnexpectedEof, and
   extended in TrailingBytes.  An on-chain body has no end of its own, since
   from_body infers n from the length: cut, it is accepted exactly where it is the
   body of the key without its last IC points, and extended, exactly where what
   follows are the encodings of further IC points within the limit, as the body of
   that other key; no piece of a point, and no point off the subgroup, is. *)
LengthErrorsFound ==
    done /\ Convertible(file.artifact) =>
        IF file.kind # "body"
        THEN /\ file.damage = "cut" => result.outcome = "UnexpectedEof"
             /\ file.damage = "tail" => result.outcome = "TrailingBytes"
        ELSE LET accepted == result.outcome = Ok
                 key == KeyOf(file.artifact)
             IN  /\ file.damage = "cut" => (accepted <=> BodyAmong(Shorter(key)))
                 /\ file.damage = "tail" => (accepted <=> BodyAmong(Longer(key)))

(* The parser takes no second spelling: a file that converts, however it came
   about, is byte for byte what gnark writes for the elements that were read,
   so no two of its readings disagree. *)
TokensRead ==
    CASE file.kind = "key" ->
             KeyTokens(SubSeq(read, 1, 6), SubSeq(read, 7, Len(read)), counts)
      [] file.kind = "proof" -> ProofTokens(SubSeq(read, 1, 3), counts[1], read[4])
      [] file.kind = "witness" -> WitnessTokens(counts, read)

AcceptsOnlyGnark ==
    done /\ result.outcome = Ok /\ file.kind # "body" =>
        \E raw \in SUBSET {k \in DOMAIN TokensRead : TokensRead[k][1] \in Group} :
            Write(TokensRead, raw) = file.bytes

(* docs/design.md says that gnark's compression flag is in the three most
   significant bits of the first byte: then the rest of it belongs to x.  The
   parser masks two (FLAG_MASK), as the head of gnark.rs says. *)
FlagInThreeBits ==
    done /\ result.outcome = Ok /\ file.kind \in {"key", "proof"}
         /\ Flag(file.bytes[1]) \in {FLAG_COMPRESSED_SMALLEST, FLAG_COMPRESSED_LARGEST} =>
        read[1][1] = (file.bytes[1] % (Radix \div 8)) * Radix + file.bytes[2]

(* The assertion in OnChainKey::from_body: a body that decodes is rebuilt cell
   for cell, so no other body stands for the same key at another address. *)
RebuildsBody ==
    done /\ file.kind = "body" /\ result.outcome = Ok => result.value = file.bytes

(* Nothing unchecked gets through, from a damaged file either: what the parser
   returns decodes, subgroup checks included, to the elements it read. *)
ConvertedDecodes ==
    done /\ result.outcome = Ok =>
        /\ file.kind = "key" =>
             OnChainKey_elements(result.value) = Done(ParsedKey)
        /\ file.kind = "proof" =>
             OnChainProof_elements(result.value).outcome = Ok
=============================================================================
