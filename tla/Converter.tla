----------------------------- MODULE Converter -----------------------------
(***************************************************************************)
(* tools/convert: the parsers of gnark's verifying keys, proofs and public *)
(* witnesses (gnark.rs), one action per element they read, and the reading *)
(* of an on-chain body (OnChainKey::from_body).  A u32 is one cell.  The   *)
(* top two bits of a point's first cell are its flag.  An operator named   *)
(* mutant_... is a faulty variant of the definition that follows it.       *)
(***************************************************************************)
EXTENDS WireFormat

CONSTANT File       \* the inputs: records with a kind and bytes

ASSUME FileAssumption ==
    \A f \in File : /\ f.kind \in {"key", "proof", "witness", "body"}
                    /\ f.bytes \in Seq(0..Radix - 1)

VARIABLES
    file,       \* the input
    pos,        \* cells consumed
    pc,         \* the next statement
    read,       \* points or scalars read so far
    counts,     \* length prefixes read so far
    left,       \* iterations left of the loop that runs
    capacity,   \* of the Vec allocated from a length prefix
    result      \* what the call returned

vars == <<file, pos, pc, read, counts, left, capacity, result>>

U32_SIZE == 1

FLAG_UNCOMPRESSED == 0
FLAG_COMPRESSED_INFINITY == 1
FLAG_COMPRESSED_SMALLEST == 2
FLAG_COMPRESSED_LARGEST == 3

Flag(cell) == cell \div (Radix \div 4)
Unflagged(raw) == [raw EXCEPT ![1] = @ % (Radix \div 4)]

-----------------------------------------------------------------------------
(* External, arkworks: the point with this x and the larger or the smaller *)
(* of y and -y; Fq2 compares c1 first.                                     *)
Less(g, x, y) ==
    IF g = "G1" THEN x < y ELSE x.c1 < y.c1 \/ (x.c1 = y.c1 /\ x.c0 < y.c0)

get_point_from_x_unchecked(g, x, greatest) ==
    LET roots == {p \in OnCurve(g) : p[1] = x}
        Picked(p) == IF greatest THEN ~Less(g, p[2], neg_y(g, p[2]))
                     ELSE ~Less(g, neg_y(g, p[2]), p[2])
    IN IF roots = {} THEN Fail("InvalidPoint")
       ELSE Done(CHOOSE p \in roots : Picked(p))

mutant_decompress_unchecked(g, x, largest) ==
    get_point_from_x_unchecked(g, x, largest)

decompress(g, x, largest) ==
    LET found == get_point_from_x_unchecked(g, x, largest) IN
    IF found.outcome # Ok THEN found
    ELSE IF found.value = Identity THEN Fail("InvalidPoint")
    ELSE checked_affine(g, found.value)

mutant_expect_zero_after_flag_head_only(raw) ==
    IF Unflagged(raw)[1] = 0 THEN Done(Identity) ELSE Fail("InvalidPoint")

expect_zero_after_flag(raw) ==
    IF AllZero(Unflagged(raw)) THEN Done(Identity) ELSE Fail("InvalidPoint")

(* One point from its cells; how many it takes depends on the flag. *)
Decoded(g, flag, raw) ==
    IF flag = FLAG_UNCOMPRESSED THEN from_bytes(g, raw)
    ELSE IF flag = FLAG_COMPRESSED_INFINITY THEN expect_zero_after_flag(raw)
    ELSE LET x == FieldFrom(g, Unflagged(raw)) IN
         IF x.outcome # Ok THEN x
         ELSE decompress(g, x.value, flag = FLAG_COMPRESSED_LARGEST)

-----------------------------------------------------------------------------
(* The reader. *)
Remaining == Len(file.bytes) - pos

take(n) ==
    IF n > Remaining THEN Fail("UnexpectedEof")
    ELSE Done(Slice(file.bytes, pos, n))

peek == file.bytes[pos + 1]

(* Called when count has just been taken. *)
mutant_ensure_remaining_never(count, min_size) == Ok

ensure_remaining(count, min_size) ==
    Ensure(count * min_size <= Remaining - U32_SIZE, "UnexpectedEof")

mutant_finish_ignores_rest == Ok

finish == Ensure(Remaining = 0, "TrailingBytes")

SizeOf(g) == IF Flag(peek) = FLAG_UNCOMPRESSED THEN PointSize(g)
             ELSE PointSize(g) \div 2

(* g1 and g2: peek, take, decode. *)
ReadPoint(g) ==
    IF Remaining = 0 THEN Fail("UnexpectedEof")
    ELSE LET raw == take(SizeOf(g)) IN
         IF raw.outcome # Ok THEN raw ELSE Decoded(g, Flag(peek), raw.value)

u32 == take(U32_SIZE)
N == u32.value[1]

fr == LET raw == take(FR_SIZE) IN
      IF raw.outcome # Ok THEN raw ELSE fr_from_bytes(raw.value)

-----------------------------------------------------------------------------
Return(r) ==
    /\ result' = r /\ pc' = "done"
    /\ UNCHANGED <<file, pos, read, counts, left, capacity>>

(* Read a point and keep it; the parser goes on at the statement next. *)
PointRead(g, next) ==
    IF ReadPoint(g).outcome # Ok THEN Return(ReadPoint(g))
    ELSE /\ read' = Append(read, ReadPoint(g).value)
         /\ pos' = pos + SizeOf(g)
         /\ pc' = next
         /\ left' = IF left > 0 THEN left - 1 ELSE 0
         /\ UNCHANGED <<file, counts, capacity, result>>

(* Read a count that passes the checks; loop and allocate as it says. *)
CountRead(checks, next, loop, room) ==
    IF (u32.outcome ?? checks) # Ok THEN Return(Fail(u32.outcome ?? checks))
    ELSE /\ counts' = Append(counts, N)
         /\ pos' = pos + U32_SIZE
         /\ pc' = next
         /\ left' = loop
         /\ capacity' = room
         /\ UNCHANGED <<file, read, result>>

-----------------------------------------------------------------------------
(* parse_verifying_key. *)
KeyPoints == <<"G1", "G1", "G2", "G2", "G1", "G2">>

KeyPoint ==
    /\ pc = "key points"
    /\ LET k == Len(read) + 1 IN
       PointRead(KeyPoints[k], IF k = Len(KeyPoints) THEN "k_len" ELSE pc)

KeyLen ==
    /\ pc = "k_len"
    /\ CountRead(   ensure_remaining(N, FQ_SIZE)
                 ?? Ensure(N <= MAX_PUBLIC_INPUTS + 1, "TooManyPublicInputs"),
                 "ic", N, N)

KeyIc == pc = "ic" /\ left > 0 /\ PointRead("G1", pc)

KeyOuter == pc = "ic" /\ left = 0 /\ CountRead(Ok, "inner", N, capacity)

KeyInner ==
    /\ pc = "inner" /\ left > 0
    /\ CountRead(Ensure(N = 0, "Unsupported"), pc, left - 1, capacity)

KeyCommitmentKeys ==
    /\ pc = "inner" /\ left = 0
    /\ CountRead(Ensure(N = 0, "Unsupported"), "key end", 0, capacity)

(* The elements the parser passes on: [beta]1 and [delta]1 are dropped. *)
ParsedKey ==
    [alpha |-> read[1], beta |-> read[3], gamma |-> read[4], delta |-> read[6],
     ic |-> SubSeq(read, Len(KeyPoints) + 1, Len(read))]

KeyEnd ==
    /\ pc = "key end"
    /\ Return(IF finish # Ok THEN Fail(finish) ELSE OnChainKey_new(ParsedKey))

-----------------------------------------------------------------------------
(* parse_proof. *)
ProofPoints == <<"G1", "G2", "G1">>

ProofPoint ==
    /\ pc = "proof points"
    /\ LET k == Len(read) + 1 IN
       PointRead(ProofPoints[k], IF k = Len(ProofPoints) THEN "commitments" ELSE pc)

ProofCommitments ==
    /\ pc = "commitments"
    /\ CountRead(Ensure(N = 0, "Unsupported"), "pok", 0, capacity)

ProofPok == pc = "pok" /\ PointRead("G1", "proof end")

ProofEnd ==
    /\ pc = "proof end"
    /\ Return(IF finish # Ok THEN Fail(finish)
              ELSE Done(OnChainProof_new([a |-> read[1], b |-> read[2], c |-> read[3]])))

-----------------------------------------------------------------------------
(* parse_public_witness. *)
WitnessPublic == pc = "nb_public" /\ CountRead(Ok, "nb_secret", 0, 0)

WitnessSecret ==
    /\ pc = "nb_secret"
    /\ CountRead(Ensure(N = 0, "Unsupported"), "len", 0, 0)

WitnessLen ==
    /\ pc = "len"
    /\ CountRead(   Ensure(N = counts[1], "Unsupported")
                 ?? ensure_remaining(N, FR_SIZE), "scalars", N, N)

WitnessScalar ==
    /\ pc = "scalars" /\ left > 0
    /\ IF fr.outcome # Ok THEN Return(fr)
       ELSE /\ read' = Append(read, fr.value)
            /\ pos' = pos + FR_SIZE
            /\ left' = left - 1
            /\ UNCHANGED <<file, pc, counts, capacity, result>>

WitnessEnd ==
    /\ pc = "scalars" /\ left = 0
    /\ Return(IF finish # Ok THEN Fail(finish) ELSE Done(read))

-----------------------------------------------------------------------------
FromBody == pc = "body" /\ Return(OnChainKey_from_body(file.bytes))

Returned == pc = "done" /\ UNCHANGED vars

Entry == [key |-> "key points", proof |-> "proof points", witness |-> "nb_public",
          body |-> "body"]

Init ==
    /\ file \in File
    /\ pos = 0 /\ pc = Entry[file.kind]
    /\ read = <<>> /\ counts = <<>>
    /\ left = 0 /\ capacity = 0
    /\ result = Fail("running")

Next ==
    \/ KeyPoint \/ KeyLen \/ KeyIc \/ KeyOuter \/ KeyInner
    \/ KeyCommitmentKeys \/ KeyEnd
    \/ ProofPoint \/ ProofCommitments \/ ProofPok \/ ProofEnd
    \/ WitnessPublic \/ WitnessSecret \/ WitnessLen \/ WitnessScalar \/ WitnessEnd
    \/ FromBody \/ Returned

Spec == Init /\ [][Next]_vars

-----------------------------------------------------------------------------
(* A corrupt length prefix costs nothing: whatever the counts in the file say,
   the parser allocates no more elements than the rest of the input has room
   for, and no more than a key can have, and it consumes at least a cell for
   every element and every round of a loop (the comment on ensure_remaining). *)
BoundedByInput ==
    /\ pc \in {"ic", "scalars"} /\ left = capacity =>
         capacity * FQ_SIZE <= Remaining
    /\ file.kind = "key" => capacity <= MAX_PUBLIC_INPUTS + 1
    /\ Len(read) + Len(counts) <= pos
    /\ pos <= Len(file.bytes)
=============================================================================
